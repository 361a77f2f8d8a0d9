------------------------------- MODULE Loader -------------------------------
(***************************************************************************)
(* uruchom_program_z_pliku_impl of loader.cpp, run by a system call: a     *)
(* slot is reserved with interrupts off, the image is read and checked, a  *)
(* Ring 0 stack and a PML4 are allocated, the pages are mapped with        *)
(* interrupts off, and the finished process is published as GOTOWY. Every  *)
(* failure gives back what was taken so far. Interrupts may come between   *)
(* the steps; other processes may not run, because a tick that interrupts  *)
(* a system call does not switch.                                          *)
(*                                                                         *)
(* The contents of the image are abstracted to "usable or not", the pages  *)
(* to "mapped or not". The start argument is left out.                     *)
(***************************************************************************)
EXTENDS Planista

KrokiLoadera == {"plik", "stos", "pml4", "mapuj"}

(* Mutated form: no check for a running instance.                          *)
BladBezKontroliInstancji(s) == FALSE

sciezka_juz_zarezerwowana(s) ==
  \E p \in PidyUzytkownika :
    stan[p] \notin {"PUSTY", "KONCZACY"} /\ sciezka[p] = s

PierwszyPusty(p) ==
  /\ stan[p] = "PUSTY"
  /\ \A q \in PidyUzytkownika : q < p => stan[q] # "PUSTY"

(* zarezerwuj_slot_procesu. A duplicate, and a full table, end the call.   *)
zarezerwuj_slot_procesu(s) ==
  /\ stos_cpu' = bezpieczny_stos_jadra
  /\ IF sciezka_juz_zarezerwowana(s) \/ \A p \in PidyUzytkownika : stan[p] # "PUSTY"
     THEN UNCHANGED <<tablica, nowy_pid, krok>>
     ELSE \E p \in PidyUzytkownika :
            /\ PierwszyPusty(p)
            /\ stan' = [stan EXCEPT ![p] = "ZABLOKOWANY"]
            /\ sciezka' = [sciezka EXCEPT ![p] = s]
            /\ przestrzen' = [przestrzen EXCEPT ![p] = BRAK]
            /\ stos' = [stos EXCEPT ![p] = BRAK]
            /\ kernel_rsp' = [kernel_rsp EXCEPT ![p] = BRAK]
            /\ cr3_procesu' = [cr3_procesu EXCEPT ![p] = BRAK]
            /\ nowy_pid' = p
            /\ krok' = "plik"
  /\ UNCHANGED <<zwolnienia, aktualny_pid, cr3, tss_rsp0, bezpieczny_stos_jadra,
                 pamiec, kolejki, nowy_stos, nowa_przestrzen, usb>>

(* Mutated form: the reservation is forgotten.                             *)
BladZostawiaRezerwacje ==
  UNCHANGED tablica

(* zwolnij_rezerwacje_procesu(nowy_pid).                                   *)
zwolnij_rezerwacje_procesu ==
  /\ stan' = [stan EXCEPT ![nowy_pid] = "PUSTY"]
  /\ sciezka' = [sciezka EXCEPT ![nowy_pid] = BRAK]
  /\ przestrzen' = [przestrzen EXCEPT ![nowy_pid] = BRAK]
  /\ stos' = [stos EXCEPT ![nowy_pid] = BRAK]
  /\ kernel_rsp' = [kernel_rsp EXCEPT ![nowy_pid] = BRAK]
  /\ cr3_procesu' = [cr3_procesu EXCEPT ![nowy_pid] = BRAK]

(* Mutated form: the Ring 0 stack is not freed.                            *)
BladNieZwalniaStosu ==
  /\ UNCHANGED stosy_zywe
  /\ przestrzenie_zywe' = przestrzenie_zywe \ {nowa_przestrzen}
  /\ zwolnij_rezerwacje_procesu
  /\ nowy_pid' = 0 /\ nowy_stos' = BRAK /\ nowa_przestrzen' = BRAK
  /\ krok' = "ring3"

(* A step fails: the stack and the PML4 taken so far are freed, the        *)
(* reservation is dropped and the call returns.                            *)
Niepowodzenie ==
  /\ stosy_zywe' = stosy_zywe \ {nowy_stos}
  /\ przestrzenie_zywe' = przestrzenie_zywe \ {nowa_przestrzen}
  /\ zwolnij_rezerwacje_procesu
  /\ nowy_pid' = 0 /\ nowy_stos' = BRAK /\ nowa_przestrzen' = BRAK
  /\ krok' = "ring3"

(* The file is read and its header is valid, or not.                       *)
WczytajPlik ==
  /\ krok = "plik"
  /\ \/ krok' = "stos" /\ UNCHANGED <<tablica, pamiec, budowa>>
     \/ Niepowodzenie
  /\ UNCHANGED <<zwolnienia, cpu, kolejki, usb>>

(* kmalloc of the Ring 0 stack.                                            *)
ZaalokujStos ==
  /\ krok = "stos"
  /\ \/ \E s \in Stosy \ stosy_zywe :
          /\ nowy_stos' = s
          /\ stosy_zywe' = stosy_zywe \cup {s}
          /\ krok' = "pml4"
          /\ UNCHANGED <<tablica, przestrzenie_zywe, nowy_pid, nowa_przestrzen>>
     \/ Niepowodzenie
  /\ UNCHANGED <<zwolnienia, cpu, kolejki, usb>>

(* UtworzPrzestrzenAdresowaProcesu.                                        *)
UtworzPrzestrzen ==
  /\ krok = "pml4"
  /\ \/ \E a \in Przestrzenie \ przestrzenie_zywe :
          /\ nowa_przestrzen' = a
          /\ przestrzenie_zywe' = przestrzenie_zywe \cup {a}
          /\ krok' = "mapuj"
          /\ UNCHANGED <<tablica, stosy_zywe, nowy_pid, nowy_stos>>
     \/ Niepowodzenie
  /\ UNCHANGED <<zwolnienia, cpu, kolejki, usb>>

(* CR3 after the mapping: the PML4 the call came with is set again.        *)
CR3PoMapowaniu == cr3

(* With interrupts off: CR3 is the new PML4 while its pages are mapped and *)
(* is set back, then the row of the table is filled and published.  The    *)
(* return at loader.cpp 997-1001 is left out: the argument it copies went  *)
(* through the same test at 725.                                           *)
ZmapujIOpublikuj ==
  /\ krok = "mapuj"
  /\ cr3' = CR3PoMapowaniu
  /\ \/ /\ przestrzen' = [przestrzen EXCEPT ![nowy_pid] = nowa_przestrzen]
        /\ cr3_procesu' = [cr3_procesu EXCEPT ![nowy_pid] = nowa_przestrzen]
        /\ stos' = [stos EXCEPT ![nowy_pid] = nowy_stos]
        /\ kernel_rsp' = [kernel_rsp EXCEPT ![nowy_pid] = nowy_stos]
        /\ stan' = [stan EXCEPT ![nowy_pid] = "GOTOWY"]
        /\ nowy_pid' = 0 /\ nowy_stos' = BRAK /\ nowa_przestrzen' = BRAK
        /\ krok' = "ring3"
        /\ UNCHANGED <<sciezka, pamiec>>
     \/ Niepowodzenie
  /\ UNCHANGED <<zwolnienia, aktualny_pid, tss_rsp0, bezpieczny_stos_jadra,
                 stos_cpu, kolejki, usb>>

KrokLoadera == WczytajPlik \/ ZaalokujStos \/ UtworzPrzestrzen \/ ZmapujIOpublikuj
=============================================================================
