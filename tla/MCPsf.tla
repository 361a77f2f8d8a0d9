------------------------------- MODULE MCPsf -------------------------------
(* MCPsf.cfg: three nodes next to the root and three data blocks, so that  *)
(* nodes, blocks and entries run out; the list of changed blocks holds     *)
(* four, so that it overflows.  MCPsfAwaria.cfg lets power fail at any     *)
(* write.  The tree that is seen through paths is kept in an auxiliary     *)
(* variable.                                                               *)
EXTENDS PsfKopia

VARIABLE drzewo

Symetria == Permutations(Nazwy)

MCInit == Init /\ drzewo = WidzianeDrzewo
MCNext == NextZKopia /\ drzewo' = WidzianeDrzewo'
MCSpec == MCInit /\ [][MCNext]_<<vars, drzewo>>

Drzewo == INSTANCE DrzewoPlikow WITH Tresci <- ZapisywaneTresci, wlaczony <- psf_gotowy

(* Seen through paths, the file system is a tree whose operations happen   *)
(* at once or not at all: a refused operation changes nothing, an accepted *)
(* one changes what it names and nothing else.                             *)
ImplementujeDrzewo == Drzewo!Spec
=============================================================================
