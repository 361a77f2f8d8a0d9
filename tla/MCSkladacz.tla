----------------------------- MODULE MCSkladacz -----------------------------
(***************************************************************************)
(* The compositor, and the windows with their focus, in one run: czesc is  *)
(* the part at work, the others stay as they began.                        *)
(*                                                                         *)
(*  - Compositor: two layers of one or two cells on a screen of seven, at  *)
(*    its left edge and partly off it, in its middle, and at its right     *)
(*    edge; room for two damaged rectangles, two deferred buffers and      *)
(*    three cells of pixels.                                               *)
(*  - Windows: the desktop and two windows, of which one covers part of    *)
(*    the other; a third raise numbers the layers anew.  The mouse is a    *)
(*    PS/2 one, or a USB one, of which the left button alone is used.      *)
(*    After an exception, which is for good, the properties of windows say *)
(*    nothing, and the part stops; a preempted PID 0 still has its turn.   *)
(***************************************************************************)
EXTENDS Skladacz, Okna

VARIABLES czesc

MojePozycje == {-1, 3, 6}
MojObszar == <<Punkty, {1}, Punkty>>
MojeZ == <<{0}, {1}, {1}>>

MCInit == czesc \in {"skladacz", "okna_ps2", "okna_usb"} /\ Init /\ OknaInit

SkladaczDziala == czesc = "skladacz" /\ Next /\ UNCHANGED <<czesc, okienka>>
OknaPs2 ==
  /\ czesc = "okna_ps2" /\ ~wyjatek /\ (WywolaniaOkien \/ MyszPs2) /\ UNCHANGED <<czesc, vars>>
OknaUsb ==
  /\ czesc = "okna_usb" /\ (wyjatek => Wznow) /\ (WywolaniaOkien \/ MyszUsb)
  /\ usb'.przyciski \subseteq {"lewy"} /\ UNCHANGED <<czesc, vars>>

MCNext == SkladaczDziala \/ OknaPs2 \/ OknaUsb

MCSpec == MCInit /\ [][MCNext]_<<czesc, vars, okienka>>
=============================================================================
