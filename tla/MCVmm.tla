------------------------------- MODULE MCVmm --------------------------------
(* Vmm alone, with the constants of MCPamiec, where their assumption is    *)
(* evaluated: so few frames that a second process still fits and the heaps *)
(* of both do not.                                                         *)
EXTENDS Vmm

MojeObrazy == { [tekst |-> <<7>>, dane |-> <<>>], [tekst |-> <<7>>, dane |-> <<8>>] }
MojeRamki == 4 .. 33
=============================================================================
