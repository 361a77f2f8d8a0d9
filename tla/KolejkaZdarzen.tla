--------------------------- MODULE KolejkaZdarzen ---------------------------
(***************************************************************************)
(* The event queue of one Ring 3 process: kolejki_zdarzen[pid] of          *)
(* scheduler.cpp, a ring of ROZMIAR slots of which one always stays free.  *)
(* Interrupt handlers and system calls of other processes put events in    *)
(* (scheduler_dodaj_zdarzenie), the owner takes them out with BWS 37 and   *)
(* BWS 38, and BWS 38 blocks the owner when it finds the queue empty.      *)
(*                                                                         *)
(* scheduler_dodaj_zdarzenie, scheduler_pobierz_zdarzenie and              *)
(* scheduler_czekaj_na_zdarzenie run with interrupts disabled on the only  *)
(* CPU: each is one action. Between the failed take and the blocking of    *)
(* BWS 38 interrupts are enabled, so they are two actions.                 *)
(*                                                                         *)
(* Left out: przepelnienia, a counter no code reads.                       *)
(***************************************************************************)
EXTENDS Naturals, Sequences, FiniteSetsExt, SequencesExt

CONSTANTS ROZMIAR,  \* ROZMIAR_KOLEJKI_ZDARZEN, 128 in the code
          Typy,     \* the event types of bws_zdarzenia.h under study
          DaneZdarzen      \* payloads (coordinates, key codes, time stamps)

(* Motion and timer events are merged and may be evicted.                  *)
Scalane == {"MYSZ_RUCH", "TIMER"}

(* The types a merge may not reach across.                                 *)
Krawedzie == {"MYSZ_DOWN", "MYSZ_UP", "MYSZ_PRAWY_DOWN", "MYSZ_PRAWY_UP",
              "KLAWISZ", "FOCUS", "BLUR", "ZAMKNIJ"}

(* Every other type: never merged, never evicted, but merges pass it.      *)
Pozostale == {"OKNO_UTWORZONE", "OKNO_POKAZANE", "OKNO_ZMINIMALIZOWANE",
              "OKNO_PRZYWROCONE", "OKNO_FOCUS", "OKNO_ZAMKNIETE", "OKNO_TYTUL",
              "OTWORZ_PLIK", "DRAG_HOVER", "DRAG_LEAVE", "DRAG_DROP",
              "PLIKI_ZMIENIONE"}

KolejkaZalozenia ==
  /\ ROZMIAR \in Nat /\ ROZMIAR > 1
  /\ Typy \subseteq Scalane \cup Krawedzie \cup Pozostale

Zdarzenia == [typ : Typy, dane : DaneZdarzen]

(* BWS_ZDARZENIE_BRAK: what a zeroed slot holds.                           *)
Zerowe == [typ |-> "BRAK", dane |-> 0]

VARIABLES wpisy,   \* the slots of the ring
          glowa,   \* index of the first free slot
          ogon,    \* index of the oldest event
          stan,    \* the owner's PROCES_* state, as far as the queue cares
          krok_bws \* where the owner is: in Ring 3, or inside BWS 38

zdarzenia == <<wpisy, glowa, ogon, stan, krok_bws>>

Indeksy == 0 .. ROZMIAR - 1

Nastepny(i) == (i + 1) % ROZMIAR

(* The number of queued events and the ring slot of the k-th oldest.       *)
Dlugosc == (glowa + ROZMIAR - ogon) % ROZMIAR
Slot(k) == (ogon + k) % ROZMIAR
Pozycje == 0 .. Dlugosc - 1
Typ(k) == wpisy[Slot(k)].typ

(* The queued events, oldest first.                                        *)
Zawartosc == [k \in 1 .. Dlugosc |-> wpisy[Slot(k - 1)]]

KolejkaInit ==
  /\ wpisy = [i \in Indeksy |-> Zerowe]
  /\ glowa = 0
  /\ ogon = 0
  /\ stan = "GOTOWY"
  /\ krok_bws = "ring3"

-----------------------------------------------------------------------------
(* scheduler_dodaj_zdarzenie.                                              *)

(* Mutated form: only the newest event is compared.                        *)
BladTylkoNajnowsze(z) == { k \in Pozycje : k = Dlugosc - 1 /\ Typ(k) = z.typ }

(* Mutated form: the search does not stop at an edge.                      *)
BladPrzezKrawedz(z) == { k \in Pozycje : Typ(k) = z.typ }

(* The positions the backward search stops at with a hit: an event of the  *)
(* same type with no edge after it.                                        *)
Trafienia(z) ==
  { k \in Pozycje : /\ Typ(k) = z.typ
                    /\ \A j \in k + 1 .. Dlugosc - 1 : Typ(j) \notin Krawedzie }

(* Mutated form: any event may be evicted.                                 *)
BladWypieraWszystko == Pozycje

(* The events that may give way to another one when the ring is full.      *)
DoUsuniecia == { k \in Pozycje : Typ(k) \in Scalane }

Wybudz == stan' = IF stan = "ZABL_ZDARZENIE" THEN "GOTOWY" ELSE stan

(* A motion or timer event replaces the newest one of its type.            *)
Scal(z) ==
  /\ z.typ \in Scalane
  /\ Trafienia(z) # {}
  /\ wpisy' = [wpisy EXCEPT ![Slot(Max(Trafienia(z)))] = z]
  /\ UNCHANGED <<glowa, ogon>>
  /\ Wybudz

NieScala(z) == z.typ \in Scalane => Trafienia(z) = {}

(* The ring has room: the event goes to the head.                          *)
Dopisz(z) ==
  /\ NieScala(z)
  /\ Nastepny(glowa) # ogon
  /\ wpisy' = [wpisy EXCEPT ![glowa] = z]
  /\ glowa' = Nastepny(glowa)
  /\ UNCHANGED ogon
  /\ Wybudz

(* The ring is full: the oldest motion or timer event is shifted out and   *)
(* the new event takes the slot freed at the head.                         *)
DopiszZWyparciem(z) ==
  /\ NieScala(z)
  /\ Nastepny(glowa) = ogon
  /\ DoUsuniecia # {}
  /\ LET u == Min(DoUsuniecia)
         Miejsce(i) == (i + ROZMIAR - ogon) % ROZMIAR
     IN wpisy' = [i \in Indeksy |->
                    CASE Miejsce(i) = Dlugosc - 1 -> z
                      [] Miejsce(i) \in u .. Dlugosc - 2 -> wpisy[Nastepny(i)]
                      [] OTHER -> wpisy[i]]
  /\ UNCHANGED <<glowa, ogon>>
  /\ Wybudz

(* The ring is full of events that may not be evicted: the new one is lost *)
(* and nobody is woken.                                                    *)
Odrzuc(z) ==
  /\ NieScala(z)
  /\ Nastepny(glowa) = ogon
  /\ DoUsuniecia = {}
  /\ UNCHANGED <<wpisy, glowa, ogon, stan>>

(* Callers post to a PID whatever its state: broadcasts also reach a slot  *)
(* whose process is ending.                                                *)
scheduler_dodaj_zdarzenie(z) ==
  /\ Scal(z) \/ Dopisz(z) \/ DopiszZWyparciem(z) \/ Odrzuc(z)
  /\ UNCHANGED krok_bws

-----------------------------------------------------------------------------
(* The owner.                                                              *)

(* BWS 37 and 38 begin alike: take the oldest event. A BWS 38 that finds   *)
(* none goes on to block, with interrupts enabled in between.              *)
scheduler_pobierz_zdarzenie ==
  /\ krok_bws = "ring3" /\ stan # "KONCZACY"
  /\ \/ /\ ogon # glowa
        /\ ogon' = Nastepny(ogon)
        /\ UNCHANGED krok_bws
     \/ /\ ogon = glowa
        /\ krok_bws' = "czekaj"
        /\ UNCHANGED ogon
  /\ UNCHANGED <<wpisy, glowa, stan>>

(* The queue is looked at again before the owner is marked as blocked.     *)
scheduler_czekaj_na_zdarzenie ==
  /\ krok_bws = "czekaj"
  /\ krok_bws' = "ring3"
  /\ stan' = IF ogon = glowa /\ stan = "GOTOWY" THEN "ZABL_ZDARZENIE" ELSE stan
  /\ UNCHANGED <<wpisy, glowa, ogon>>

(* zakoncz_aktualny_proces empties the queue and marks the process as      *)
(* ending, with interrupts disabled. A process that has just been marked   *)
(* as blocked still runs in Ring 3 until the next tick and may exit too.   *)
scheduler_usun_zdarzenia_procesu ==
  /\ krok_bws = "ring3" /\ stan # "KONCZACY"
  /\ stan' = "KONCZACY"
  /\ wpisy' = [i \in Indeksy |-> Zerowe]
  /\ glowa' = 0 /\ ogon' = 0
  /\ UNCHANGED krok_bws

(* The slot is cleaned up and the loader publishes a new process in it.    *)
(* zarezerwuj_slot_procesu leaves the queue as it is.                      *)
NowyProces ==
  /\ stan = "KONCZACY"
  /\ stan' = "GOTOWY"
  /\ UNCHANGED <<wpisy, glowa, ogon, krok_bws>>

KolejkaNext ==
  \/ \E z \in Zdarzenia : scheduler_dodaj_zdarzenie(z)
  \/ scheduler_pobierz_zdarzenie
  \/ scheduler_czekaj_na_zdarzenie
  \/ scheduler_usun_zdarzenia_procesu
  \/ NowyProces

KolejkaSpec == KolejkaInit /\ [][KolejkaNext]_zdarzenia

-----------------------------------------------------------------------------
(* Properties.                                                             *)

(* Merging keeps the history of the pointer out of the queue: between two  *)
(* edges there is at most one motion and one timer event, whatever order   *)
(* of events, evictions and takes led here (scheduler.cpp 721-722).        *)
JedenNaOdcinek ==
  \A t \in Scalane : \A j, k \in Pozycje :
    (j < k /\ Typ(j) = t /\ Typ(k) = t)
      => \E m \in j .. k : Typ(m) \in Krawedzie

(* What was queued up to the last edge is history: no later event rewrites *)
(* it or moves in front of it. A step leaves that prefix alone, drops one  *)
(* of its motion or timer events, takes its head, or empties the queue     *)
(* (scheduler.cpp 721-745, a move after a click stays after the click).    *)
OstatniaKrawedz == Max({0} \cup { k + 1 : k \in { j \in Pozycje : Typ(j) \in Krawedzie } })
Historia == SubSeq(Zawartosc, 1, OstatniaKrawedz)
HistoriaZostaje ==
  \/ IsPrefix(Historia, Zawartosc')
  \/ \E k \in DOMAIN Historia : /\ Historia[k].typ \in Scalane
                                /\ IsPrefix(RemoveAt(Historia, k), Zawartosc')
  \/ Zawartosc' = Tail(Zawartosc)
  \/ Zawartosc' = <<>>
HistoriaNiezmienna == [][HistoriaZostaje]_zdarzenia

(* The queue implements a lossless FIFO for everything except motion and   *)
(* timer events.                                                           *)
Trwale(z) == z.typ \notin Scalane
TrwaleDo(s) ==   \* what is left of the first n events of s
  LET T[n \in Nat] == IF n = 0 THEN <<>>
                      ELSE IF Trwale(s[n]) THEN Append(T[n - 1], s[n]) ELSE T[n - 1]
  IN T
Abstrakcja == INSTANCE FifoZdarzen
                WITH POJEMNOSC <- ROZMIAR - 1,
                     ZdarzeniaTrwale <- { z \in Zdarzenia : Trwale(z) },
                     kolejka <- TrwaleDo(Zawartosc)[Dlugosc],
                     stan <- stan
FifoKrawedzi == Abstrakcja!Spec
=============================================================================
