------------------------- MODULE MCBuforKlawiatury -------------------------
(* A machine with both keyboards; single bytes are enough.                 *)
EXTENDS BuforKlawiatury

ObieKlawiatury == { {"ps2", "usb"} }
MojeZnaki == { <<97>> }
=============================================================================
