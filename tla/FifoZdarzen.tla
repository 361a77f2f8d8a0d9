----------------------------- MODULE FifoZdarzen -----------------------------
(***************************************************************************)
(* What an event queue promises to the process that owns it: an event that *)
(* was accepted and is not a motion or timer event is delivered once, in   *)
(* order, and is not given up for another one; no more than POJEMNOSC of   *)
(* them wait; and a blocked owner has nothing waiting. Motion and timer    *)
(* events appear only through the wake-up they cause.                      *)
(***************************************************************************)
EXTENDS Naturals, Sequences

CONSTANTS POJEMNOSC, ZdarzeniaTrwale

VARIABLES kolejka, stan

Init == kolejka = <<>> /\ stan = "GOTOWY"

Obudzony == IF stan = "ZABL_ZDARZENIE" THEN "GOTOWY" ELSE stan

Przyjmij(z) ==
  /\ Len(kolejka) < POJEMNOSC
  /\ kolejka' = Append(kolejka, z)
  /\ stan' = Obudzony

ObudzRuchem ==
  /\ stan' = Obudzony
  /\ UNCHANGED kolejka

Odbierz ==
  /\ kolejka # <<>>
  /\ kolejka' = Tail(kolejka)
  /\ UNCHANGED stan

Zablokuj ==
  /\ kolejka = <<>> /\ stan = "GOTOWY"
  /\ stan' = "ZABL_ZDARZENIE"
  /\ UNCHANGED kolejka

Zakoncz ==
  /\ stan # "KONCZACY"
  /\ kolejka' = <<>>
  /\ stan' = "KONCZACY"

NowyProces ==
  /\ stan = "KONCZACY"
  /\ stan' = "GOTOWY"
  /\ UNCHANGED kolejka

Next ==
  \/ \E z \in ZdarzeniaTrwale : Przyjmij(z)
  \/ ObudzRuchem
  \/ Odbierz
  \/ Zablokuj
  \/ Zakoncz
  \/ NowyProces

Spec == Init /\ [][Next]_<<kolejka, stan>>
=============================================================================
