-------------------------------- MODULE Jadro --------------------------------
(***************************************************************************)
(* The kernel in operation: the interrupt dispatcher of idt.cpp, the       *)
(* system calls that change the process table, and the idle loop of PID 0, *)
(* composed with the scheduler and the loader.                             *)
(*                                                                         *)
(* Interrupts are enabled in Ring 3, in system calls (syscall.S executes   *)
(* STI before the dispatcher) and in PID 0, so every interrupt may come in *)
(* every state. A tick switches processes only if it interrupted Ring 3,   *)
(* PID 0, or a process that has ended: a system call is never preempted by *)
(* another process, PID 0 is preempted anywhere.                           *)
(***************************************************************************)
EXTENDS Loader

(* The state at kernel.cpp 1129: the window manager is in slot 1, PID 0    *)
(* runs its idle loop, and interrupts have just been enabled.              *)
StanPoczatkowy(a, s, sc) ==
  LET Pierwszy(dla0, dla1, reszta) ==
        [p \in Pidy |-> IF p = 0 THEN dla0 ELSE IF p = 1 THEN dla1 ELSE reszta]
  IN /\ stan = Pierwszy("GOTOWY", "GOTOWY", "PUSTY")
     /\ sciezka = Pierwszy(BRAK, sc, BRAK)
     /\ przestrzen = Pierwszy(PML4_JADRA, a, BRAK)
     /\ stos = Pierwszy(STOS_JADRA, s, BRAK)
     /\ kernel_rsp = Pierwszy(BRAK, s, BRAK)
     /\ cr3_procesu = Pierwszy(PML4_JADRA, a, BRAK)
     /\ dz_przestrzen = [p \in Pidy |-> BRAK]
     /\ dz_stos = [p \in Pidy |-> BRAK]
     /\ oczekuje = [p \in Pidy |-> FALSE]
     /\ aktualny_pid = 0
     /\ cr3 = PML4_JADRA
     /\ tss_rsp0 = STOS_JADRA
     /\ bezpieczny_stos_jadra = STOS_JADRA
     /\ stos_cpu = STOS_JADRA
     /\ krok = "ring3"
     /\ przestrzenie_zywe = {a}
     /\ stosy_zywe = {s}
     /\ dlugosc = [p \in PidyUzytkownika |-> 0]
     /\ bufor = 0
     /\ nowy_pid = 0 /\ nowy_stos = BRAK /\ nowa_przestrzen = BRAK
     /\ usb_pid = 0 /\ usb_widzial = FALSE

Init ==
  \E a \in Przestrzenie, s \in Stosy, sc \in Sciezki : StanPoczatkowy(a, s, sc)

-----------------------------------------------------------------------------
(* Interrupts.                                                             *)

(* The condition under which WspolnaObslugaPrzerwan calls PrzelaczKontekst.*)
MoznaPrzelaczyc ==
  \/ aktualny_pid = 0
  \/ krok = "ring3"
  \/ stan[aktualny_pid] \in {"PUSTY", "KONCZACY"}

(* Vector 32: the timer handler may post TIMER to the owners of windows,   *)
(* then the scheduler runs.                                                *)
PrzerwanieZegara ==
  \E C \in SUBSET Zywe : \E odrzucone \in SUBSET PelneKolejki(C) :
    /\ DluzszeKolejki(C)
    /\ IF MoznaPrzelaczyc
       THEN PrzelaczKontekst(PoZdarzeniach(C, odrzucone))
       ELSE /\ stan' = PoZdarzeniach(C, odrzucone)
            /\ UNCHANGED <<sciezka, przestrzen, stos, kernel_rsp, cr3_procesu,
                           zwolnienia, cpu, krok, pamiec, budowa>>
    /\ UNCHANGED <<bufor, usb>>

(* Vector 33: the character goes to the process with the focus, or, when   *)
(* no window has it, to the keyboard buffer.                               *)
PrzerwanieKlawiatury ==
  /\ IF bufor < MAKS_BAJTOW
     THEN bufor' = bufor + 1 /\ stan' = PoKlawiaturze
     ELSE UNCHANGED <<bufor, stan>>
  /\ UNCHANGED <<sciezka, przestrzen, stos, kernel_rsp, cr3_procesu, zwolnienia,
                 cpu, krok, pamiec, dlugosc, budowa, usb>>

(* Vectors 33 and 44, and the USB reports PID 0 handles: a key, a button,  *)
(* a move or a change of focus becomes an event of a process with a window.*)
ZdarzenieWejscia ==
  \E p \in Zywe : \E odrzucone \in SUBSET PelneKolejki({p}) :
    /\ DluzszeKolejki({p})
    /\ stan' = PoZdarzeniach({p}, odrzucone)
    /\ UNCHANGED <<sciezka, przestrzen, stos, kernel_rsp, cr3_procesu, zwolnienia,
                   cpu, krok, pamiec, bufor, budowa, usb>>

-----------------------------------------------------------------------------
(* System calls. Only the running process makes one, from Ring 3, on the   *)
(* stack the SYSCALL gate takes from bezpieczny_stos_jadra. A process that *)
(* was just marked as blocked keeps running until the next tick.           *)

WRing3 == aktualny_pid # 0 /\ krok = "ring3" /\ stan[aktualny_pid] # "KONCZACY"

(* BWS 37 and 38: take an event; a BWS 38 without one goes on to wait.     *)
PobierzZdarzenie ==
  /\ WRing3
  /\ stos_cpu' = bezpieczny_stos_jadra
  /\ \/ /\ dlugosc[aktualny_pid] > 0
        /\ dlugosc' = [dlugosc EXCEPT ![aktualny_pid] = @ - 1]
        /\ UNCHANGED krok
     \/ /\ dlugosc[aktualny_pid] = 0
        /\ krok' = "czekaj"
        /\ UNCHANGED dlugosc
  /\ UNCHANGED <<tablica, zwolnienia, aktualny_pid, cr3, tss_rsp0,
                 bezpieczny_stos_jadra, pamiec, bufor, budowa, usb>>

(* Mutated form: the queue is not looked at again.                         *)
BladCzekaZawsze ==
  /\ krok = "czekaj"
  /\ stan' = [stan EXCEPT ![aktualny_pid] = IF @ = "GOTOWY" THEN "ZABL_ZDARZENIE" ELSE @]
  /\ krok' = "ring3"
  /\ UNCHANGED <<sciezka, przestrzen, stos, kernel_rsp, cr3_procesu, zwolnienia,
                 cpu, pamiec, kolejki, budowa, usb>>

scheduler_czekaj_na_zdarzenie ==
  /\ krok = "czekaj"
  /\ stan' = [stan EXCEPT ![aktualny_pid] =
                IF dlugosc[aktualny_pid] = 0 /\ @ = "GOTOWY" THEN "ZABL_ZDARZENIE" ELSE @]
  /\ krok' = "ring3"
  /\ UNCHANGED <<sciezka, przestrzen, stos, kernel_rsp, cr3_procesu, zwolnienia,
                 cpu, pamiec, kolejki, budowa, usb>>

(* BWS 4: take a byte, or block, with interrupts off.                      *)
scheduler_pobierz_klawisz_lub_zablokuj ==
  /\ WRing3
  /\ stos_cpu' = bezpieczny_stos_jadra
  /\ IF bufor > 0
     THEN bufor' = bufor - 1 /\ UNCHANGED stan
     ELSE /\ stan' = [stan EXCEPT ![aktualny_pid] =
                        IF @ = "GOTOWY" THEN "ZABL_KLAWIATURA" ELSE @]
          /\ UNCHANGED bufor
  /\ UNCHANGED <<sciezka, przestrzen, stos, kernel_rsp, cr3_procesu, zwolnienia,
                 aktualny_pid, cr3, tss_rsp0, bezpieczny_stos_jadra, krok, pamiec,
                 dlugosc, budowa, usb>>

(* A successful change of the file system is announced to every PID,       *)
(* whatever the state of its slot (powiadom_zmiane_systemu_plikow). A drop *)
(* target and an existing instance are told by an event to one PID.        *)
RozeslijZdarzenie ==
  /\ WRing3
  /\ stos_cpu' = bezpieczny_stos_jadra
  /\ \E C \in {PidyUzytkownika} \cup { {p} : p \in PidyUzytkownika } :
       \E odrzucone \in SUBSET PelneKolejki(C) :
         /\ DluzszeKolejki(C)
         /\ stan' = PoZdarzeniach(C, odrzucone)
  /\ UNCHANGED <<sciezka, przestrzen, stos, kernel_rsp, cr3_procesu, zwolnienia,
                 aktualny_pid, cr3, tss_rsp0, bezpieczny_stos_jadra, krok, pamiec,
                 bufor, budowa, usb>>

(* bws_zakoncz_biezacy_proces: the window is removed, the last drop target *)
(* and the window manager may be told, then the process ends.              *)
WejdzWZakonczenie ==
  /\ WRing3
  /\ stos_cpu' = bezpieczny_stos_jadra
  /\ \E C \in { D \in SUBSET PidyUzytkownika : \A p, q, r \in D : p = q \/ q = r \/ p = r } :
       \E odrzucone \in SUBSET PelneKolejki(C) :
         /\ DluzszeKolejki(C)
         /\ stan' = PoZdarzeniach(C, odrzucone)
  /\ krok' = "zakoncz"
  /\ UNCHANGED <<sciezka, przestrzen, stos, kernel_rsp, cr3_procesu, zwolnienia,
                 aktualny_pid, cr3, tss_rsp0, bezpieczny_stos_jadra, pamiec,
                 bufor, budowa, usb>>

Zakoncz == krok = "zakoncz" /\ zakoncz_aktualny_proces

(* BWS 10: start a program.                                                *)
UruchomProgram == WRing3 /\ \E s \in Sciezki : zarezerwuj_slot_procesu(s)

-----------------------------------------------------------------------------
(* PID 0. A character from a USB keyboard is put into the buffer and then  *)
(* scheduler_wybudz_klawiature walks the table with interrupts enabled:    *)
(* the state of a slot is read in one step and written in another.         *)

WPid0 == USB /\ aktualny_pid = 0

UsbBajt ==
  /\ WPid0 /\ usb_pid = 0
  /\ bufor < MAKS_BAJTOW
  /\ bufor' = bufor + 1
  /\ usb_pid' = 1
  /\ UNCHANGED <<tablica, zwolnienia, cpu, krok, pamiec, dlugosc, budowa, usb_widzial>>

DalejUsb == (usb_pid + 1) % MAKS_PROCESOW

UsbCzytajStan ==
  /\ WPid0 /\ usb_pid # 0 /\ ~ usb_widzial
  /\ IF stan[usb_pid] = "ZABL_KLAWIATURA"
     THEN usb_widzial' = TRUE /\ UNCHANGED usb_pid
     ELSE usb_pid' = DalejUsb /\ UNCHANGED usb_widzial
  /\ UNCHANGED <<tablica, zwolnienia, cpu, krok, pamiec, kolejki, budowa>>

UsbZapiszGotowy ==
  /\ WPid0 /\ usb_widzial
  /\ stan' = [stan EXCEPT ![usb_pid] = "GOTOWY"]
  /\ usb_pid' = DalejUsb
  /\ usb_widzial' = FALSE
  /\ UNCHANGED <<sciezka, przestrzen, stos, kernel_rsp, cr3_procesu, zwolnienia,
                 cpu, krok, pamiec, kolejki, budowa>>

-----------------------------------------------------------------------------
Przerwanie == PrzerwanieZegara \/ PrzerwanieKlawiatury \/ ZdarzenieWejscia

(* The steps that complete a system call that has begun.                   *)
DalejSyscall == scheduler_czekaj_na_zdarzenie \/ Zakoncz \/ KrokLoadera

NowySyscall ==
  \/ PobierzZdarzenie
  \/ scheduler_pobierz_klawisz_lub_zablokuj
  \/ RozeslijZdarzenie
  \/ WejdzWZakonczenie
  \/ UruchomProgram

KrokPid0 == UsbBajt \/ UsbCzytajStan \/ UsbZapiszGotowy

Next == Przerwanie \/ DalejSyscall \/ NowySyscall \/ KrokPid0

Spec == Init /\ [][Next]_vars

(* The local timer keeps ticking, and a process cannot dodge every tick by *)
(* being inside a system call each time; a system call that has begun goes *)
(* on, since nothing but interrupts can come between its steps.            *)
TykniecieZPrzelaczeniem == MoznaPrzelaczyc /\ PrzerwanieZegara

FairSpec ==
  Spec /\ SF_vars(TykniecieZPrzelaczeniem) /\ WF_vars(DalejSyscall) /\ WF_vars(KrokPid0)

-----------------------------------------------------------------------------
(* Properties.                                                             *)

BrakLub(S) == S \cup {BRAK}

(* The shape of the process table, of the CPU state and of the locals.     *)
TypeOK ==
  /\ stan \in [Pidy -> Stany]
  /\ sciezka \in [Pidy -> BrakLub(Sciezki)]
  /\ przestrzen \in [Pidy -> BrakLub(Przestrzenie \cup {PML4_JADRA})]
  /\ stos \in [Pidy -> BrakLub(Stosy \cup {STOS_JADRA})]
  /\ kernel_rsp \in [Pidy -> BrakLub(Stosy \cup {STOS_JADRA})]
  /\ cr3_procesu \in [Pidy -> BrakLub(Przestrzenie \cup {PML4_JADRA})]
  /\ dz_przestrzen \in [Pidy -> BrakLub(Przestrzenie)]
  /\ dz_stos \in [Pidy -> BrakLub(Stosy)]
  /\ oczekuje \in [Pidy -> BOOLEAN]
  /\ aktualny_pid \in Pidy
  /\ cr3 \in Przestrzenie \cup {PML4_JADRA}
  /\ tss_rsp0 \in Stosy \cup {STOS_JADRA}
  /\ bezpieczny_stos_jadra \in Stosy \cup {STOS_JADRA}
  /\ stos_cpu \in Stosy \cup {STOS_JADRA}
  /\ krok \in {"ring3", "czekaj", "zakoncz", "hlt"} \cup KrokiLoadera
  /\ przestrzenie_zywe \subseteq Przestrzenie
  /\ stosy_zywe \subseteq Stosy
  /\ dlugosc \in [PidyUzytkownika -> 0 .. MAKS_ZDARZEN]
  /\ bufor \in 0 .. MAKS_BAJTOW
  /\ nowy_pid \in Pidy
  /\ nowy_stos \in BrakLub(Stosy)
  /\ nowa_przestrzen \in BrakLub(Przestrzenie)
  /\ usb_pid \in Pidy
  /\ usb_widzial \in BOOLEAN

(* CR3, TSS.rsp0, the SYSCALL stack and the stack in use are those of      *)
(* aktualny_pid after every step, a failed switch included, and the        *)
(* running process was published (scheduler.cpp 1090-1149).                *)
ZgodnoscKontekstu ==
  /\ stan[aktualny_pid] \notin {"PUSTY", "ZABLOKOWANY"}
  /\ cr3 = przestrzen[aktualny_pid]
  /\ tss_rsp0 = stos[aktualny_pid]
  /\ bezpieczny_stos_jadra = stos[aktualny_pid]
  /\ stos_cpu = stos[aktualny_pid]

(* No PML4 and no stack is shared by two processes or by a process and one *)
(* under construction, and everything allocated has an owner: nothing is   *)
(* freed twice and no path of the loader or of the exit leaks              *)
(* (loader.cpp 757-935, scheduler.cpp 439-508).                            *)
ZasobyMajaJednegoWlasciciela ==
  /\ \A p, q \in Pidy : (p # q /\ stos[p] # BRAK) => stos[p] # stos[q]
  /\ \A p, q \in Pidy : (p # q /\ przestrzen[p] # BRAK) => przestrzen[p] # przestrzen[q]
  /\ \A p \in Pidy : nowy_stos # BRAK => stos[p] # nowy_stos
  /\ \A p \in Pidy : nowa_przestrzen # BRAK => przestrzen[p] # nowa_przestrzen
  /\ stosy_zywe = ({ stos[p] : p \in PidyUzytkownika } \cup {nowy_stos}) \ {BRAK}
  /\ przestrzenie_zywe =
       ({ przestrzen[p] : p \in PidyUzytkownika } \cup {nowa_przestrzen}) \ {BRAK}

ZostawiaUzywane ==
  /\ stos_cpu \notin stosy_zywe \ stosy_zywe'
  /\ StosRamki \notin stosy_zywe \ stosy_zywe'
  /\ cr3 \notin przestrzenie_zywe \ przestrzenie_zywe'

(* No step frees the stack it runs on or the PML4 in CR3, the comment of   *)
(* scheduler.cpp 416-428: both wait for a tick of another process.         *)
NieZwalniaUzywanych == [][ZostawiaUzywane]_vars

(* A process in state GOTOWY can be chosen by the round-robin, as          *)
(* scheduler.h 69-70 says: it has a frame, a stack and a PML4.             *)
GotowyMozeBycWybrany ==
  \A p \in PidyUzytkownika : stan[p] = "GOTOWY" => proces_moze_byc_uruchomiony(p)

(* One instance of a program: no two slots that are reserved or alive have *)
(* the same path (loader.cpp 295-311 and 729-747).                         *)
JednaInstancja ==
  \A p, q \in PidyUzytkownika :
    ( /\ p # q /\ sciezka[p] # BRAK
      /\ {stan[p], stan[q]} \cap {"PUSTY", "KONCZACY"} = {} )
    => sciezka[p] # sciezka[q]

(* A reserved slot belongs to a loader that is still at work: no failure   *)
(* leaves a reservation behind, and a half-built process has nothing the   *)
(* scheduler could run (loader.cpp 351-359).                               *)
RezerwacjaMaWlasciciela ==
  \A p \in PidyUzytkownika : stan[p] = "ZABLOKOWANY" =>
    /\ krok \in KrokiLoadera /\ nowy_pid = p
    /\ kernel_rsp[p] = BRAK /\ ~ oczekuje[p]

(* A process blocked on its event queue has an empty queue, though events  *)
(* arrive between the failed take and the blocking of BWS 38.              *)
BezZgubionegoZdarzenia ==
  \A p \in PidyUzytkownika : stan[p] = "ZABL_ZDARZENIE" => dlugosc[p] = 0

(* A process blocked on the keyboard while bytes wait is one that PID 0,   *)
(* in the middle of scheduler_wybudz_klawiature, has yet to reach.         *)
BezZgubionegoKlawisza ==
  \A p \in PidyUzytkownika :
    stan[p] = "ZABL_KLAWIATURA" /\ bufor > 0 => usb_pid \in 1 .. p

(* Round-robin is fair: a ready process gets the CPU, whatever the others  *)
(* do, because every other process reaches Ring 3, ends, or waits.         *)
GotowyDostajeProcesor ==
  \A p \in PidyUzytkownika : stan[p] = "GOTOWY" ~> aktualny_pid = p

(* The slot of a process that ended becomes free for the loader again      *)
(* (scheduler.cpp 439-508).                                                *)
SlotWracaDoPuli ==
  \A p \in PidyUzytkownika : stan[p] = "KONCZACY" ~> stan[p] = "PUSTY"
=============================================================================
