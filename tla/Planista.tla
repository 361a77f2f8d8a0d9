------------------------------ MODULE Planista ------------------------------
(***************************************************************************)
(* The process table and the round-robin scheduler of scheduler.cpp, on    *)
(* one CPU. A process owns a PML4 (przestrzen) and a private Ring 0 stack  *)
(* (stos); the scheduler keeps CR3, TSS.rsp0, the stack of the SYSCALL     *)
(* gate and aktualny_pid in step with each other, and frees the resources  *)
(* of an ended process only from the context of another one.               *)
(*                                                                         *)
(* Abstractions. A PML4 and a stack are model values. kernel_rsp is the    *)
(* stack that holds the saved frame. An event queue is its length (module  *)
(* KolejkaZdarzen has the ring), the keyboard buffer its number of bytes.  *)
(* Trust levels, rights and heap limits of a process are left out: no      *)
(* scheduling decision of a well-formed process depends on them. The wait  *)
(* for the mouse (PROCES_ZABLOKOWANY_MYSZ) is left out: nothing calls      *)
(* ZablokujAktualnyProcesNaMyszy any more, so the tick counter and the     *)
(* timeouts it feeds have no effect here.                                  *)
(***************************************************************************)
EXTENDS Integers

CONSTANTS MAKS_PROCESOW,  \* slots of tablica_procesow, 16 in the code
          Przestrzenie,   \* the PML4 tables the VMM can hand out
          Stosy,          \* the Ring 0 stacks kmalloc can hand out
          PML4_JADRA,     \* CR3 of PID 0
          STOS_JADRA,     \* the boot stack, Ring 0 stack of PID 0
          Sciezki,        \* paths of programs
          BRAK,           \* a null pointer, a zero field, an empty path
          MAKS_ZDARZEN,   \* bound: events in one queue, 127 in the code
          MAKS_BAJTOW,    \* bound: bytes in the keyboard buffer, 255
          AWARIE_CR3,     \* may UstawPrzestrzenAdresowa leave CR3 as it was
          USB             \* is an xHCI keyboard polled by PID 0

Pidy == 0 .. MAKS_PROCESOW - 1
PidyUzytkownika == 1 .. MAKS_PROCESOW - 1

ASSUME PlanistaZalozenia ==
  /\ MAKS_PROCESOW \in Nat /\ MAKS_PROCESOW > 1
  /\ MAKS_ZDARZEN \in Nat /\ MAKS_ZDARZEN > 0
  /\ MAKS_BAJTOW \in Nat /\ MAKS_BAJTOW > 0
  /\ BRAK \notin Przestrzenie \cup Stosy \cup Sciezki
  /\ PML4_JADRA \notin Przestrzenie \cup {BRAK}
  /\ STOS_JADRA \notin Stosy \cup {BRAK}
  /\ AWARIE_CR3 \in BOOLEAN /\ USB \in BOOLEAN

VARIABLES
  (* tablica_procesow *)
  stan, sciezka, przestrzen, stos, kernel_rsp, cr3_procesu,
  (* zasoby_do_zwolnienia *)
  dz_przestrzen, dz_stos, oczekuje,
  (* the CPU: who runs, CR3, TSS.rsp0, the SYSCALL stack, the stack in use *)
  aktualny_pid, cr3, tss_rsp0, bezpieczny_stos_jadra, stos_cpu,
  (* what the running user process is doing *)
  krok,
  (* PML4 tables and stacks that are allocated *)
  przestrzenie_zywe, stosy_zywe,
  (* lengths of the event queues, bytes in the keyboard buffer *)
  dlugosc, bufor,
  (* locals of uruchom_program_z_pliku_impl *)
  nowy_pid, nowy_stos, nowa_przestrzen,
  (* PID 0 inside scheduler_wybudz_klawiature *)
  usb_pid, usb_widzial

tablica == <<stan, sciezka, przestrzen, stos, kernel_rsp, cr3_procesu>>
zwolnienia == <<dz_przestrzen, dz_stos, oczekuje>>
cpu == <<aktualny_pid, cr3, tss_rsp0, bezpieczny_stos_jadra, stos_cpu>>
pamiec == <<przestrzenie_zywe, stosy_zywe>>
kolejki == <<dlugosc, bufor>>
budowa == <<nowy_pid, nowy_stos, nowa_przestrzen>>
usb == <<usb_pid, usb_widzial>>
vars == <<tablica, zwolnienia, cpu, krok, pamiec, kolejki, budowa, usb>>

Zablokowane == {"ZABL_ZDARZENIE", "ZABL_KLAWIATURA"}
Stany == {"PUSTY", "GOTOWY", "ZABLOKOWANY", "KONCZACY"} \cup Zablokowane

(* Processes that have been published and have not begun to end: the ones  *)
(* that may own a window, the focus or a mouse capture.                    *)
Zywe == { p \in PidyUzytkownika : stan[p] \in {"GOTOWY"} \cup Zablokowane }

-----------------------------------------------------------------------------
(* Wake-ups and queues.                                                    *)

(* Mutated form: a process is woken whatever its state.                    *)
BladBudziKazdego(C, odrzucone) ==
  [p \in Pidy |-> IF p \in C \ odrzucone THEN "GOTOWY" ELSE stan[p]]

(* States after events were posted to the PIDs of C and lost at the PIDs   *)
(* of odrzucone, whose queues are full of events that may not be evicted.  *)
PoZdarzeniach(C, odrzucone) ==
  [p \in Pidy |-> IF p \in C \ odrzucone /\ stan[p] = "ZABL_ZDARZENIE"
                  THEN "GOTOWY" ELSE stan[p]]

PelneKolejki(C) == { p \in C : dlugosc[p] = MAKS_ZDARZEN }

(* scheduler_dodaj_zdarzenie to each PID of C: an event is appended, takes *)
(* the place of an older one, or is lost.                                  *)
DluzszeKolejki(C) ==
  /\ dlugosc' \in [PidyUzytkownika -> 0 .. MAKS_ZDARZEN]
  /\ \A p \in PidyUzytkownika :
       IF p \in C
       THEN /\ dlugosc'[p] \in {dlugosc[p], dlugosc[p] + 1}
            /\ dlugosc'[p] > 0
       ELSE dlugosc'[p] = dlugosc[p]

(* Mutated form: the loop stops one PID short.                             *)
BladPomijaOstatni ==
  [p \in Pidy |-> IF stan[p] = "ZABL_KLAWIATURA" /\ p < MAKS_PROCESOW - 1
                  THEN "GOTOWY" ELSE stan[p]]

(* scheduler_wybudz_klawiature, called from the keyboard interrupt.        *)
PoKlawiaturze ==
  [p \in Pidy |-> IF stan[p] = "ZABL_KLAWIATURA" THEN "GOTOWY" ELSE stan[p]]

-----------------------------------------------------------------------------
(* PrzelaczKontekst, called by the timer interrupt.                        *)

(* The stack that receives the interrupt frame: TSS.rsp0 from Ring 3, the  *)
(* stack in use from Ring 0.                                               *)
StosRamki == IF aktualny_pid # 0 /\ krok = "ring3" THEN tss_rsp0 ELSE stos_cpu

(* Mutated form: the running process is not spared.                        *)
BladSprzataBiezacy == { p \in PidyUzytkownika : oczekuje[p] }

(* Mutated form: the loop stops one PID short.                             *)
BladNieSprzataOstatniego ==
  { p \in 1 .. MAKS_PROCESOW - 2 : p # aktualny_pid /\ oczekuje[p] }

(* posprzataj_zakonczone_procesy(aktualny_pid): every ended process but    *)
(* the running one. A PML4 that CR3 points to would be left allocated.     *)
Sprzatane == { p \in PidyUzytkownika : p # aktualny_pid /\ oczekuje[p] }

NiszczonePrzestrzenie ==
  { dz_przestrzen[p] : p \in { q \in Sprzatane : dz_przestrzen[q] # cr3 } }

(* stan1 is the table of states when the cleanup begins.                   *)
posprzataj_zakonczone_procesy(stan1) ==
  LET Wyczyszczone(f) == [p \in Pidy |-> IF p \in Sprzatane THEN BRAK ELSE f[p]]
  IN /\ stan' = [p \in Pidy |-> IF p \in Sprzatane THEN "PUSTY" ELSE stan1[p]]
     /\ sciezka' = Wyczyszczone(sciezka)
     /\ przestrzen' = Wyczyszczone(przestrzen)
     /\ stos' = Wyczyszczone(stos)
     /\ kernel_rsp' =
          [p \in Pidy |->
             IF p \in Sprzatane THEN BRAK
             ELSE IF p = aktualny_pid /\ stan1[p] \notin {"PUSTY", "KONCZACY"}
                  THEN StosRamki ELSE kernel_rsp[p]]
     /\ dz_przestrzen' = [p \in Pidy |-> IF p \in Sprzatane /\ dz_przestrzen[p] # cr3
                                         THEN BRAK ELSE dz_przestrzen[p]]
     /\ dz_stos' = [p \in Pidy |-> IF p \in Sprzatane THEN BRAK ELSE dz_stos[p]]
     /\ oczekuje' = [p \in Pidy |-> oczekuje[p] /\ p \notin Sprzatane]
     /\ przestrzenie_zywe' = przestrzenie_zywe \ NiszczonePrzestrzenie
     /\ stosy_zywe' = stosy_zywe \ { dz_stos[p] : p \in Sprzatane }
     /\ UNCHANGED cr3_procesu

proces_moze_byc_uruchomiony(p) ==
  /\ stan[p] = "GOTOWY"
  /\ kernel_rsp[p] # BRAK
  /\ cr3_procesu[p] # BRAK
  /\ stos[p] # BRAK
  /\ p # 0 => kernel_rsp[p] = stos[p] /\ przestrzen[p] # BRAK

Uruchamialne == { p \in Pidy : proces_moze_byc_uruchomiony(p) }

(* Mutated form: the search starts from PID 0 at every tick.               *)
BladOdZera(p, q) == q

(* How many steps of the round-robin lie between p and q; p comes last.    *)
Odleglosc(p, q) == (q - p - 1 + MAKS_PROCESOW) % MAKS_PROCESOW

(* znajdz_nastepny_proces(biezacy), on the table as the cleanup left it.   *)
JestNastepnym(biezacy, p) ==
  /\ p \in Uruchamialne'
  /\ \A q \in Uruchamialne' : Odleglosc(biezacy, p) <= Odleglosc(biezacy, q)

ZostajeWKontekscie == UNCHANGED <<cpu, krok>>

PrzejdzDo(p) ==
  /\ aktualny_pid' = p
  /\ cr3' = cr3_procesu[p]
  /\ tss_rsp0' = stos[p]
  /\ bezpieczny_stos_jadra' = stos[p]
  /\ stos_cpu' = kernel_rsp[p]
  /\ krok' = "ring3"

(* Mutated form: only TSS.rsp0 is put back.                                *)
BladNiepelneWycofanie(p) ==
  /\ AWARIE_CR3 /\ cr3_procesu[p] # cr3
  /\ tss_rsp0' = stos[aktualny_pid]
  /\ bezpieczny_stos_jadra' = stos[p]
  /\ UNCHANGED <<aktualny_pid, cr3, stos_cpu, krok>>

(* CR3 did not take the new value: both stacks are put back.               *)
WycofajPrzejscie(p) ==
  /\ AWARIE_CR3 /\ cr3_procesu[p] # cr3
  /\ tss_rsp0' = stos[aktualny_pid]
  /\ bezpieczny_stos_jadra' = stos[aktualny_pid]
  /\ UNCHANGED <<aktualny_pid, cr3, stos_cpu, krok>>

(* The process that runs next is picked from the table after the cleanup,  *)
(* which leaves the rows of runnable processes as they were.               *)
PrzelaczKontekst(stan1) ==
  /\ posprzataj_zakonczone_procesy(stan1)
  /\ \/ /\ Uruchamialne' = {}
        /\ ZostajeWKontekscie
     \/ /\ JestNastepnym(aktualny_pid, aktualny_pid)
        /\ ZostajeWKontekscie
     \/ \E p \in Pidy \ {aktualny_pid} :
          /\ JestNastepnym(aktualny_pid, p)
          /\ PrzejdzDo(p) \/ WycofajPrzejscie(p)
  /\ UNCHANGED budowa

-----------------------------------------------------------------------------
(* zakoncz_aktualny_proces: the queue is emptied, the resources are noted  *)
(* for the cleanup, and the process waits in Ring 0 for its last tick.     *)
zakoncz_aktualny_proces ==
  LET p == aktualny_pid
  IN /\ dlugosc' = [dlugosc EXCEPT ![p] = 0]
     /\ dz_przestrzen' = [dz_przestrzen EXCEPT ![p] = IF oczekuje[p] THEN @ ELSE przestrzen[p]]
     /\ dz_stos' = [dz_stos EXCEPT ![p] = IF oczekuje[p] THEN @ ELSE stos[p]]
     /\ oczekuje' = [oczekuje EXCEPT ![p] = TRUE]
     /\ stan' = [stan EXCEPT ![p] = "KONCZACY"]
     /\ krok' = "hlt"
     /\ UNCHANGED <<sciezka, przestrzen, stos, kernel_rsp, cr3_procesu, cpu,
                    pamiec, bufor, budowa, usb>>
=============================================================================
