------------------------------- MODULE MCJadro -------------------------------
(* Two or three user slots. PML4 tables, stacks and paths are each         *)
(* interchangeable.                                                        *)
EXTENDS Jadro, TLC

Symetria == Permutations(Przestrzenie) \cup Permutations(Stosy) \cup Permutations(Sciezki)
=============================================================================
