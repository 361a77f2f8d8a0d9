------------------------------- MODULE MCAhci -------------------------------
(* Two sectors with two values, and two commands that are given up.        *)
EXTENDS Ahci
=============================================================================
