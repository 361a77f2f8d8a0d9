-------------------------------- MODULE Ahci --------------------------------
(***************************************************************************)
(* One disk behind an AHCI controller (ahci.cpp), in polling mode, with    *)
(* one command slot and one DMA buffer.  An operation fills the buffer and *)
(* the command, gives the command to the controller if the slot is free,   *)
(* and waits: for its end, for an error, or until it gives up.             *)
(*                                                                         *)
(* The controller is external: it works on its own, between any two steps  *)
(* of the driver, and a command that was given up is not taken back.  It   *)
(* has read the command when it is busy with it; the buffer it reads and   *)
(* writes when it moves the data.  A transfer is one sector.  Left out:    *)
(* the set-up of the port, and try-lock and BSY, which are never met: the  *)
(* driver runs with interrupts off, and BSY holds no longer than PxCI.     *)
(***************************************************************************)
EXTENDS Naturals

CONSTANTS Sektory, Dane,    \* sectors of the disk and what they may hold
          MaksLimitow       \* bound: operations that give up

ZERO   == "zero"            \* the buffer before a read
Puste  == [zapis |-> FALSE, lba |-> 0, dane |-> ZERO]
Operacje == [zapis : {TRUE}, lba : Sektory, dane : Dane]
            \cup [zapis : {FALSE}, lba : Sektory, dane : {ZERO}]

VARIABLES krok, op,         \* the driver in operacja_dysku
          bufor,            \* the pages dma.dane_phys
          ci, tfes,         \* PxCI of the slot, PxIS.TFES
          praca, komenda,   \* the controller: what it does, with which command
          dysk,
          limity,
          zakonczenie,      \* not in the code: how the last operation ended
          dozwolone,        \* not in the code: what each sector may hold, given the
                            \* answers so far
          nadpisany         \* not in the code: the buffer was filled anew while the
                            \* controller had not moved the data of a command given up

sterownik == <<krok, op, limity, zakonczenie, dozwolone, nadpisany>>
kontroler == <<praca, komenda, dysk>>
dyskAhci  == <<sterownik, kontroler, bufor, ci, tfes>>

AhciInit ==
    /\ dysk \in [Sektory -> Dane]
    /\ krok = "wolny" /\ op = Puste /\ bufor = ZERO /\ ci = FALSE /\ tfes = FALSE
    /\ praca = "nic" /\ komenda = Puste /\ limity = 0
    /\ zakonczenie = "nic" /\ dozwolone = [s \in Sektory |-> {dysk[s]}] /\ nadpisany = FALSE

-----------------------------------------------------------------------------
(* The driver.  kopiuj_do_dma, or the zeroing of the pages, then the       *)
(* command table: none of it looks at the slot.                            *)
Przygotuj(o) ==
    /\ krok = "wolny" /\ krok' = "przygotowana" /\ op' = o
    /\ bufor' = o.dane
    /\ nadpisany' = (nadpisany \/ praca = "zlecona")
    /\ zakonczenie' = "nic"
    /\ dozwolone' = IF o.zapis THEN [dozwolone EXCEPT ![o.lba] = @ \cup {o.dane}] ELSE dozwolone
    /\ UNCHANGED <<ci, tfes, kontroler, limity>>

KoniecOperacji(w) ==
    /\ krok' = "wolny" /\ zakonczenie' = w
    /\ dozwolone' = IF w = "udana" /\ op.zapis THEN [dozwolone EXCEPT ![op.lba] = {op.dane}]
                    ELSE dozwolone

Odmowa ==
    /\ krok = "przygotowana" /\ ci /\ KoniecOperacji("nieudana")
    /\ UNCHANGED <<op, bufor, ci, tfes, kontroler, limity, nadpisany>>

(* PxIS is cleared and PxCI set; a bit that is set already stays so.       *)
Zlec ==
    /\ krok' = "czekaj" /\ tfes' = FALSE /\ ci' = TRUE
    /\ IF ci THEN UNCHANGED <<praca, komenda>> ELSE praca' = "zlecona" /\ komenda' = op
    /\ UNCHANGED <<op, limity, zakonczenie, dozwolone, nadpisany, bufor, dysk>>

(* Mutated form: the command is issued without a look at PxCI.             *)
BladBezSprawdzenia == krok = "przygotowana" /\ Zlec

(* uruchom_i_czekaj_na_komende, up to the wait.                            *)
Uruchom == krok = "przygotowana" /\ ~ ci /\ Zlec

(* The wait.  A read copies the buffer for its caller.                     *)
Udana ==
    /\ krok = "czekaj" /\ ~ tfes /\ ~ ci /\ KoniecOperacji("udana")
    /\ op' = IF op.zapis THEN op ELSE [op EXCEPT !.dane = bufor]
    /\ UNCHANGED <<bufor, ci, tfes, kontroler, limity, nadpisany>>

BladZadania ==
    /\ krok = "czekaj" /\ tfes /\ KoniecOperacji("nieudana") /\ tfes' = FALSE
    /\ UNCHANGED <<op, bufor, ci, kontroler, limity, nadpisany>>

LimitCzasu ==
    /\ krok = "czekaj" /\ ~ tfes /\ ci /\ limity < MaksLimitow /\ KoniecOperacji("nieudana")
    /\ limity' = limity + 1
    /\ UNCHANGED <<op, bufor, ci, tfes, kontroler, nadpisany>>

-----------------------------------------------------------------------------
(* The controller moves the data, ends the command, or fails it: then the  *)
(* slot stays taken until the port is restarted, which the driver never    *)
(* does.                                                                   *)
Przeslij ==
    /\ praca = "zlecona" /\ praca' = "przeslana"
    /\ IF komenda.zapis THEN dysk' = [dysk EXCEPT ![komenda.lba] = bufor] /\ UNCHANGED bufor
       ELSE bufor' = dysk[komenda.lba] /\ UNCHANGED dysk
    /\ UNCHANGED <<sterownik, komenda, ci, tfes>>

Zakoncz ==
    /\ praca = "przeslana" /\ praca' = "nic" /\ komenda' = Puste /\ ci' = FALSE
    /\ UNCHANGED <<sterownik, bufor, tfes, dysk>>

Zawiedz ==
    /\ praca = "zlecona" /\ praca' = "zatrzymany" /\ tfes' = TRUE
    /\ UNCHANGED <<sterownik, bufor, ci, komenda, dysk>>

AhciNext ==
    \/ \E o \in Operacje : Przygotuj(o)
    \/ Odmowa \/ Uruchom \/ Udana \/ BladZadania \/ LimitCzasu
    \/ Przeslij \/ Zakoncz \/ Zawiedz

AhciSpec == AhciInit /\ [][AhciNext]_dyskAhci

-----------------------------------------------------------------------------
(* Properties.                                                             *)

(* An operation that returned true has done what it says: the sector holds *)
(* the data of the write, the caller of a read has the data of the sector. *)
(* ahci.h 110 promises it.                                                 *)
Wykonana ==
    zakonczenie = "udana" => dysk[op.lba] = op.dane

(* With the exception of a buffer that was filled anew under a command     *)
(* given up, operations do what they answer although any number of them    *)
(* gives up, fails or is refused in between; and a sector holds what was   *)
(* last written with success, or what an unsuccessful write tried to store *)
(* in it (ahci.cpp 1877-1979 and 2310-2527).                               *)
DyskZgodny ==
    ~ nadpisany => Wykonana /\ \A s \in Sektory : dysk[s] \in dozwolone[s]
=============================================================================
