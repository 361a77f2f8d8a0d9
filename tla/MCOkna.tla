------------------------------- MODULE MCOkna -------------------------------
(***************************************************************************)
(* The desktop and a window that covers half of it, on a machine with a    *)
(* USB mouse and no other.                                                 *)
(***************************************************************************)
EXTENDS Okna

MojObszar == <<Punkty, {1}>>
MojeZ == <<{0}, {1}>>

UsbSpec == OknaInit /\ [][WywolaniaOkien \/ MyszUsb]_okienka
=============================================================================
