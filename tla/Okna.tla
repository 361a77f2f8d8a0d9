-------------------------------- MODULE Okna --------------------------------
(***************************************************************************)
(* Windows, focus and mouse capture (grafika.cpp), with the visibility and *)
(* the z_order of layers (skladacz_obrazu.cpp).  A process changes them in *)
(* a system call, which is not preempted but runs with interrupts enabled  *)
(* (syscall.S 240), so that IRQ 12, the PS/2 mouse, can come between any   *)
(* two of its steps; the handler is a single step.  PID 0 runs the same    *)
(* code for a USB mouse, out of its idle loop (xhci.cpp 475), and may be   *)
(* interrupted and preempted anywhere: its report is taken in steps.       *)
(*                                                                         *)
(* A call is the sequence of steps it has still to take.  A pid of 0       *)
(* stands for the -1 of the code (PID 0 has no layer).  Of the events only *)
(* FOCUS and BLUR are kept, as what a process was last told, and the first *)
(* event of a press; a full queue may drop them (KolejkaZdarzen).  Left    *)
(* out: pixels, damage and noted moves (Skladacz); the popup, which        *)
(* decides over no event; the notices to the window manager; the window of *)
(* the old shell; calls that are refused, among them those with a window   *)
(* id of an earlier generation.  The loop that numbers the layers anew is  *)
(* one step, and so is the hit test.                                       *)
(***************************************************************************)
EXTENDS Integers, Sequences, FiniteSets, FiniteSetsExt

CONSTANTS LiczbaOkien,     \* processes 1..LiczbaOkien have windows
          Menedzer,        \* the process with the system's rights
          Punkty,          \* where the pointer may be
          Obszar,          \* Obszar[p]: the points the layer of p covers
          PoczatkoweZ,     \* PoczatkoweZ[p]: the z_orders p may ask for
          MAKS_Z,          \* 30000 in the code
          PIERWSZE_Z       \* 100 in the code

VARIABLES stan_warstwy,    \* "brak", "widoczna" or "ukryta"
          z_order,
          system_overlay,  \* its process
          aktywny_pid_gui, capture_pid_gui, pid_przejmujacy_mysz,
          poprzednie_przyciski_gui,
          wywolanie,       \* the steps that the call under way, or the press of a USB
                           \* mouse, has still to take
          usb,             \* where PID 0 is in a report of a USB mouse, and its locals
          odlozone,        \* the steps of a press in which PID 0 was preempted
          widok,           \* widok[p]: p was last told FOCUS, not BLUR
          podniesienia,    \* not in the code: the pairs <<p, q>> of layers that were
                           \* raised, q last no earlier than p
          naruszony,       \* not in the code: a press changed the focus or raised a layer
                           \* while a call was changing or raising it; from then on widok
                           \* and podniesienia are not kept
          chybiony,        \* not in the code: a press reached another process than the
                           \* one seen on top
          wyjatek          \* not in the code: PID 0 was preempted, or the PS/2 mouse
                           \* pressed, inside a press of the USB mouse; or the owner of
                           \* an open overlay hid its layer

warstwy == <<stan_warstwy, z_order, podniesienia>>
adresy  == <<aktywny_pid_gui, capture_pid_gui>>
pid0    == <<usb, odlozone>>
mysz    == <<pid_przejmujacy_mysz, poprzednie_przyciski_gui, naruszony, chybiony, wyjatek, pid0>>
okienka == <<warstwy, adresy, mysz, system_overlay, wywolanie, widok>>

PidyOkien == 1..LiczbaOkien
Nikt      == 0
Przyciski == {"lewy", "prawy"}

(* A layer with any other z_order is refused (skladacz_obrazu.cpp 968), so  *)
(* every layer is above the value the searches for the one on top begin    *)
(* with, -2147483647 (grafika.cpp 3080, 3099).                             *)
MIN_Z_ORDER == -32768
MAX_Z_ORDER == 32767

ASSUME OknaZalozenia ==
    /\ LiczbaOkien \in Nat /\ Menedzer \in PidyOkien
    /\ \A p \in PidyOkien : PoczatkoweZ[p] \subseteq MIN_Z_ORDER..MAX_Z_ORDER
    /\ MAKS_Z \in Nat /\ PIERWSZE_Z \in Nat \ {0}

-----------------------------------------------------------------------------
(* Layers.                                                                 *)
pobierz_warstwe(p) == p \in PidyOkien /\ stan_warstwy[p] = "widoczna"

Widoczne == {p \in PidyOkien : pobierz_warstwe(p)}

znajdz_pierwsza_warstwe_gui == IF Widoczne = {} THEN Nikt ELSE Min(Widoczne)

(* p lies below q: by z_order, and by number among equals.                 *)
Ponizej(p, q) == z_order[p] < z_order[q] \/ (z_order[p] = z_order[q] /\ p < q)

Najwyzsza(S) == IF S = {} THEN Nikt ELSE CHOOSE p \in S : \A q \in S \ {p} : Ponizej(q, p)

znajdz_warstwe_pod_punktem(punkt) ==
    IF system_overlay # Nikt THEN system_overlay
    ELSE Najwyzsza({p \in Widoczne : punkt \in Obszar[p]})

(* The desktop, whose z_order is not positive, is never raised.            *)
DoPodniesienia(p) == pobierz_warstwe(p) /\ z_order[p] > 0

Dodatnie == {p \in Widoczne : z_order[p] > 0}

NajwyzszeZ == Max({z_order[p] : p \in Dodatnie})

(* The z_orders once p is raised above maks: when that is too high, the    *)
(* visible layers are numbered anew in their order, and p after them.      *)
Podniesione(p, maks) ==
    IF maks < MAKS_Z THEN [z_order EXCEPT ![p] = maks + 1]
    ELSE [q \in PidyOkien |->
            CASE q = p -> PIERWSZE_Z + Cardinality(Dodatnie)
              [] q # p /\ q \in Dodatnie ->
                   PIERWSZE_Z + Cardinality({r \in Dodatnie : Ponizej(r, q)})
              [] OTHER -> z_order[q]]

BylaPodniesiona(p) == <<p, p>> \in podniesienia
BezNiej(p) == {r \in podniesienia : p \notin {r[1], r[2]}}
NaKoncu(p) ==
    IF naruszony THEN {}
    ELSE BezNiej(p) \cup {<<q, p>> : q \in {q \in PidyOkien : q = p \/ BylaPodniesiona(q)}}

-----------------------------------------------------------------------------
(* The steps of system calls, and of a press of the USB mouse.             *)
Krok(rodzaj, p) == [rodzaj |-> rodzaj, pid |-> p, z |-> 0]
KrokZ(rodzaj, p, z) == [rodzaj |-> rodzaj, pid |-> p, z |-> z]

Wywolaj(kroki) == wywolanie = <<>> /\ wywolanie' = kroki

Teraz(rodzaj) == wywolanie # <<>> /\ Head(wywolanie).rodzaj = rodzaj
Pid == Head(wywolanie).pid
Dalej(kroki) == wywolanie' = kroki \o Tail(wywolanie)

Powiadom(zdarzenie, p) == IF p = Nikt THEN <<>> ELSE <<Krok(zdarzenie, p)>>

(* ustaw_focus_gui: compare, read the old one, store the new one, tell     *)
(* both.                                                                   *)
ZmienFocus ==
    /\ Teraz("focus")
    /\ Dalej(IF Pid = aktywny_pid_gui THEN <<>>
             ELSE <<Krok("aktywny", Pid)>> \o Powiadom("blur", aktywny_pid_gui)
                                          \o Powiadom("fokus", Pid))
    /\ UNCHANGED <<warstwy, adresy, mysz, system_overlay, widok>>

ZapiszAktywny ==
    /\ Teraz("aktywny") /\ Dalej(<<>>)
    /\ aktywny_pid_gui' = Pid
    /\ UNCHANGED <<warstwy, capture_pid_gui, mysz, system_overlay, widok>>

PowiadomBlur ==
    /\ Teraz("blur") /\ Dalej(<<>>)
    /\ widok' = [p \in PidyOkien |-> widok[p] /\ p # Pid]
    /\ UNCHANGED <<warstwy, adresy, mysz, system_overlay>>

PowiadomFocus ==
    /\ Teraz("fokus") /\ Dalej(<<>>)
    /\ widok' = [p \in PidyOkien |-> ~naruszony /\ (widok[p] \/ p = Pid)]
    /\ UNCHANGED <<warstwy, adresy, mysz, system_overlay>>

(* skladacz_obrazu_podnies_warstwe: find the highest z_order, then store.  *)
ZnajdzNajwyzszeZ ==
    /\ Teraz("podnies")
    /\ Dalej(IF DoPodniesienia(Pid) THEN <<KrokZ("z", Pid, NajwyzszeZ)>> ELSE <<>>)
    /\ UNCHANGED <<warstwy, adresy, mysz, system_overlay, widok>>

ZapiszZ ==
    /\ Teraz("z") /\ Dalej(<<>>)
    /\ z_order' = Podniesione(Pid, Head(wywolanie).z)
    /\ podniesienia' = NaKoncu(Pid)
    /\ UNCHANGED <<stan_warstwy, adresy, mysz, system_overlay, widok>>

(* The layer on top, the desktop included, is given the focus.             *)
ZnajdzNastepce ==
    /\ Teraz("nastepca")
    /\ Dalej(IF Widoczne = {} THEN <<>> ELSE <<Krok("focus", Najwyzsza(Widoczne))>>)
    /\ UNCHANGED <<warstwy, adresy, mysz, system_overlay, widok>>

-----------------------------------------------------------------------------
(* BWS 33.  The layer is withdrawn while it is set up; then its process is *)
(* given the focus and the layer is raised (bws_gui_aktywuj_warstwe).      *)
bws_utworz_warstwe(p, z) ==
    /\ Wywolaj(<<KrokZ("publikuj", p, z), Krok("focus", p), Krok("podnies", p)>>)
    /\ stan_warstwy' = [stan_warstwy EXCEPT ![p] = "brak"]
    /\ UNCHANGED <<z_order, podniesienia, adresy, mysz, system_overlay, widok>>

Publikuj ==
    /\ Teraz("publikuj") /\ Dalej(<<>>)
    /\ stan_warstwy' = [stan_warstwy EXCEPT ![Pid] = "widoczna"]
    /\ z_order' = [z_order EXCEPT ![Pid] = Head(wywolanie).z]
    /\ podniesienia' = BezNiej(Pid)
    /\ UNCHANGED <<adresy, mysz, system_overlay, widok>>

(* BWS 22.                                                                 *)
bws_gui_ustaw_przejecie_myszy(p, stan) ==
    /\ stan => pobierz_warstwe(p)
    /\ Wywolaj(IF stan THEN <<Krok("focus", p), Krok("podnies", p)>> ELSE <<>>)
    /\ pid_przejmujacy_mysz' = (IF stan THEN p ELSE Nikt)
    /\ UNCHANGED <<warstwy, adresy, poprzednie_przyciski_gui, naruszony, chybiony,
                   wyjatek, pid0, system_overlay, widok>>

(* BWS 39: the check of the focus and the store of the capture are apart.  *)
bws_gui_ustaw_capture(p) ==
    /\ p = aktywny_pid_gui /\ pobierz_warstwe(p)
    /\ Wywolaj(<<Krok("przejmij", p)>>)
    /\ UNCHANGED <<warstwy, adresy, mysz, system_overlay, widok>>

Przejmij ==
    /\ Teraz("przejmij") /\ Dalej(<<>>)
    /\ capture_pid_gui' = Pid
    /\ UNCHANGED <<warstwy, aktywny_pid_gui, mysz, system_overlay, widok>>

ZwolnijCapture(p) ==
    /\ Wywolaj(<<>>)
    /\ capture_pid_gui = p /\ capture_pid_gui' = Nikt
    /\ UNCHANGED <<warstwy, aktywny_pid_gui, mysz, system_overlay, widok>>

(* BWS 40, of the system's process alone.                                  *)
skladacz_obrazu_ustaw_overlay(otwarty) ==
    /\ Wywolaj(<<>>)
    /\ otwarty => pobierz_warstwe(Menedzer)
    /\ system_overlay' = (IF otwarty THEN Menedzer ELSE Nikt)
    /\ UNCHANGED <<warstwy, adresy, mysz, widok>>

(* BWS 41.  An overlay stays open when the layer of its owner is hidden,   *)
(* which the programs there are with the system's rights never ask for.    *)
bws_gui_minimalizuj_warstwe(p) ==
    /\ pobierz_warstwe(p)
    /\ Wywolaj(<<Krok("porzuc", p)>>)
    /\ stan_warstwy' = [stan_warstwy EXCEPT ![p] = "ukryta"]
    /\ wyjatek' = (wyjatek \/ system_overlay = p)
    /\ UNCHANGED <<z_order, podniesienia, adresy, pid_przejmujacy_mysz, naruszony, chybiony,
                   poprzednie_przyciski_gui, pid0, system_overlay, widok>>

(* Its capture and its focus are taken from it.  Mutated form: the focus   *)
(* is left with it.                                                        *)
BladZostawiaFocus ==
    /\ Teraz("porzuc") /\ Dalej(<<>>)
    /\ capture_pid_gui' = (IF capture_pid_gui = Pid THEN Nikt ELSE capture_pid_gui)
    /\ UNCHANGED <<warstwy, aktywny_pid_gui, mysz, system_overlay, widok>>

Porzuc ==
    /\ Teraz("porzuc")
    /\ capture_pid_gui' = (IF capture_pid_gui = Pid THEN Nikt ELSE capture_pid_gui)
    /\ Dalej(IF aktywny_pid_gui = Pid THEN <<Krok("focus", Nikt), Krok("nastepca", Nikt)>>
             ELSE <<>>)
    /\ UNCHANGED <<warstwy, aktywny_pid_gui, mysz, system_overlay, widok>>

(* BWS 43, with the id of a window that is still there.                    *)
bws_gui_aktywuj_okno(p) ==
    /\ stan_warstwy[p] # "brak"
    /\ Wywolaj(<<Krok("podnies", p), Krok("focus", p)>>)
    /\ stan_warstwy' = [stan_warstwy EXCEPT ![p] = "widoczna"]
    /\ UNCHANGED <<z_order, podniesienia, adresy, mysz, system_overlay, widok>>

(* BWS 32, bws_zakoncz_biezacy_proces: the layer, then the focus and the   *)
(* capture, then the mouse.  The next process of the slot has been told    *)
(* nothing.                                                                *)
bws_zakoncz_biezacy_proces(p) ==
    /\ Wywolaj(<<Krok("stan", p), Krok("mysz", p)>>)
    /\ stan_warstwy' = [stan_warstwy EXCEPT ![p] = "brak"]
    /\ z_order' = [z_order EXCEPT ![p] = 0]
    /\ podniesienia' = BezNiej(p)
    /\ system_overlay' = (IF system_overlay = p THEN Nikt ELSE system_overlay)
    /\ UNCHANGED <<adresy, mysz, widok>>

bws_gui_usun_stan_procesu ==
    /\ Teraz("stan")
    /\ capture_pid_gui' = (IF capture_pid_gui = Pid THEN Nikt ELSE capture_pid_gui)
    /\ aktywny_pid_gui' = (IF aktywny_pid_gui = Pid THEN Nikt ELSE aktywny_pid_gui)
    /\ Dalej(IF aktywny_pid_gui = Pid THEN <<Krok("nastepca", Nikt)>> ELSE <<>>)
    /\ widok' = [widok EXCEPT ![Pid] = FALSE]
    /\ UNCHANGED <<warstwy, mysz, system_overlay>>

bws_gui_zwolnij_mysz_procesu ==
    /\ Teraz("mysz") /\ Dalej(<<>>)
    /\ pid_przejmujacy_mysz' = (IF pid_przejmujacy_mysz \in {Pid, Nikt}
                                THEN znajdz_pierwsza_warstwe_gui ELSE pid_przejmujacy_mysz)
    /\ UNCHANGED <<warstwy, adresy, poprzednie_przyciski_gui, naruszony, chybiony,
                   wyjatek, pid0, system_overlay, widok>>

-----------------------------------------------------------------------------
(* The mouse: zaktualizuj_mysze, with the buttons now held and the place   *)
(* of the pointer.                                                         *)
NaprawWlascicielaMyszy ==
    IF pid_przejmujacy_mysz # Nikt /\ ~pobierz_warstwe(pid_przejmujacy_mysz)
    THEN znajdz_pierwsza_warstwe_gui ELSE pid_przejmujacy_mysz

(* IRQ 12.  The mouse is with the old shell: the buttons are not noted.    *)
MyszPowloki ==
    /\ NaprawWlascicielaMyszy = Nikt
    /\ pid_przejmujacy_mysz' = Nikt
    /\ UNCHANGED <<warstwy, adresy, poprzednie_przyciski_gui, naruszony, chybiony,
                   wyjatek, pid0, system_overlay, wywolanie, widok>>

(* The window that was raised last, of those at the point; the desktop is  *)
(* below them, and an open overlay above.                                  *)
NaWierzchu(punkt) ==
    LET tu == {p \in Widoczne : punkt \in Obszar[p]}
        w  == {p \in tu : BylaPodniesiona(p)}
    IN  IF system_overlay # Nikt THEN system_overlay
        ELSE IF w = {} THEN Najwyzsza(tu)
        ELSE CHOOSE p \in w : \A q \in w : <<q, p>> \in podniesienia

(* The capture a press begins with.  Mutated form: the one of an earlier   *)
(* press, whose end was not seen.                                          *)
BladCaptureZostaje == capture_pid_gui
CaptureNacisniecia == Nikt

Nacisniecie(przyciski, punkt) ==
    LET trafiony == znajdz_warstwe_pod_punktem(punkt)
        podnosi  == DoPodniesienia(trafiony)
        cel      == IF CaptureNacisniecia # Nikt THEN CaptureNacisniecia ELSE trafiony
        zmienia  == trafiony # aktywny_pid_gui
        wtrakcie == \/ naruszony
                    \/ zmienia /\ \E i \in DOMAIN wywolanie :
                                    wywolanie[i].rodzaj \in {"aktywny", "blur", "fokus"}
                    \/ podnosi /\ Teraz("z")
    IN
    /\ NaprawWlascicielaMyszy # Nikt
    /\ przyciski \ poprzednie_przyciski_gui # {}
    /\ pid_przejmujacy_mysz' = NaprawWlascicielaMyszy
    /\ z_order' = (IF podnosi THEN Podniesione(trafiony, NajwyzszeZ) ELSE z_order)
    /\ podniesienia' = (IF wtrakcie THEN {}
                        ELSE IF podnosi THEN NaKoncu(trafiony) ELSE podniesienia)
    /\ aktywny_pid_gui' = trafiony
    /\ widok' = (IF zmienia
                 THEN [p \in PidyOkien |-> /\ widok[p] \/ p = trafiony
                                      /\ p # aktywny_pid_gui /\ ~wtrakcie]
                 ELSE widok)
    /\ capture_pid_gui' = (IF "lewy" \in poprzednie_przyciski_gui \ przyciski
                           THEN Nikt ELSE CaptureNacisniecia)
    /\ poprzednie_przyciski_gui' = przyciski
    /\ naruszony' = wtrakcie
    /\ wyjatek' = (wyjatek \/ usb.faza = "nacisk")
    /\ chybiony' = (\/ chybiony
                    \/ /\ wywolanie = <<>> /\ ~naruszony /\ ~wyjatek'
                       /\ cel # NaWierzchu(punkt))
    /\ UNCHANGED <<stan_warstwy, pid0, system_overlay, wywolanie>>

(* The pointer moves or buttons are let go: the end of the left press ends *)
(* the capture.                                                            *)
Puszczenie(przyciski) ==
    /\ NaprawWlascicielaMyszy # Nikt
    /\ przyciski \subseteq poprzednie_przyciski_gui
    /\ pid_przejmujacy_mysz' = NaprawWlascicielaMyszy
    /\ capture_pid_gui' = (IF "lewy" \in poprzednie_przyciski_gui \ przyciski
                           THEN Nikt ELSE capture_pid_gui)
    /\ poprzednie_przyciski_gui' = przyciski
    /\ UNCHANGED <<warstwy, aktywny_pid_gui, naruszony, chybiony, wyjatek, pid0,
                   system_overlay, wywolanie, widok>>

-----------------------------------------------------------------------------
(* A USB mouse: the same code in PID 0, which runs while no process is in  *)
(* a call.  Calls and IRQ 12 come between any two of the steps; inside a   *)
(* press, whose steps are in wywolanie, PID 0 is put aside for a call.     *)
Raport(faza, przyciski, pusc) ==
    [faza |-> faza, pid |-> Nikt, przyciski |-> przyciski, pusc |-> pusc]

BezRaportu == Raport("brak", {}, FALSE)

WPetli(faza) == usb.faza = faza /\ wywolanie = <<>>
WNacisku(rodzaj) == usb.faza = "nacisk" /\ Teraz(rodzaj)

PoCelu(pusc) == IF pusc THEN "pusc" ELSE "zapisz"

UsbNapraw ==
    /\ WPetli("brak")
    /\ usb' = (IF NaprawWlascicielaMyszy = pid_przejmujacy_mysz
               THEN Raport("przyciski", {}, FALSE)
               ELSE [Raport("wlasciciel", {}, FALSE) EXCEPT !.pid = NaprawWlascicielaMyszy])
    /\ UNCHANGED <<warstwy, adresy, pid_przejmujacy_mysz, poprzednie_przyciski_gui, naruszony,
                   chybiony, wyjatek, odlozone, system_overlay, wywolanie, widok>>

UsbWlasciciel ==
    /\ WPetli("wlasciciel")
    /\ pid_przejmujacy_mysz' = usb.pid
    /\ usb' = Raport("przyciski", {}, FALSE)
    /\ UNCHANGED <<warstwy, adresy, poprzednie_przyciski_gui, naruszony, chybiony, wyjatek,
                   odlozone, system_overlay, wywolanie, widok>>

(* The buttons are compared with those noted before; the mouse of the old  *)
(* shell goes no further.                                                  *)
UsbPrzyciski(przyciski) ==
    LET pusc == "lewy" \in poprzednie_przyciski_gui \ przyciski
    IN
    /\ WPetli("przyciski")
    /\ usb' = (IF pid_przejmujacy_mysz = Nikt THEN BezRaportu
               ELSE Raport(IF przyciski \ poprzednie_przyciski_gui # {} THEN "capture"
                           ELSE PoCelu(pusc), przyciski, pusc))
    /\ UNCHANGED <<warstwy, adresy, pid_przejmujacy_mysz, poprzednie_przyciski_gui, naruszony,
                   chybiony, wyjatek, odlozone, system_overlay, wywolanie, widok>>

UsbNacisniecie ==
    /\ WPetli("capture")
    /\ capture_pid_gui' = CaptureNacisniecia
    /\ wywolanie' = <<Krok("trafienie", Nikt)>>
    /\ usb' = Raport("nacisk", usb.przyciski, usb.pusc)
    /\ UNCHANGED <<warstwy, aktywny_pid_gui, pid_przejmujacy_mysz, poprzednie_przyciski_gui,
                   naruszony, chybiony, wyjatek, odlozone, system_overlay, widok>>

Trafienie(punkt) ==
    LET trafiony == znajdz_warstwe_pod_punktem(punkt)
    IN
    /\ WNacisku("trafienie")
    /\ Dalej(<<Krok("podnies", trafiony), Krok("focus", trafiony), Krok("adresat", trafiony)>>)
    /\ chybiony' = (\/ chybiony
                    \/ ~naruszony /\ ~wyjatek /\ trafiony # NaWierzchu(punkt))
    /\ UNCHANGED <<warstwy, adresy, pid_przejmujacy_mysz, poprzednie_przyciski_gui, naruszony,
                   wyjatek, pid0, system_overlay, widok>>

(* The process the event of the press goes to.                             *)
Cel == IF capture_pid_gui # Nikt THEN capture_pid_gui ELSE aktywny_pid_gui

Adresat ==
    /\ WNacisku("adresat") /\ Dalej(<<>>)
    /\ chybiony' = (chybiony \/ (~wyjatek /\ Cel # Pid))
    /\ usb' = Raport(PoCelu(usb.pusc), usb.przyciski, usb.pusc)
    /\ UNCHANGED <<warstwy, adresy, pid_przejmujacy_mysz, poprzednie_przyciski_gui, naruszony,
                   wyjatek, odlozone, system_overlay, widok>>

UsbPusc ==
    /\ WPetli("pusc")
    /\ capture_pid_gui' = Nikt
    /\ usb' = Raport("zapisz", usb.przyciski, FALSE)
    /\ UNCHANGED <<warstwy, aktywny_pid_gui, pid_przejmujacy_mysz, poprzednie_przyciski_gui,
                   naruszony, chybiony, wyjatek, odlozone, system_overlay, wywolanie, widok>>

UsbZapisz ==
    /\ WPetli("zapisz")
    /\ poprzednie_przyciski_gui' = usb.przyciski
    /\ usb' = BezRaportu
    /\ UNCHANGED <<warstwy, adresy, pid_przejmujacy_mysz, naruszony, chybiony, wyjatek,
                   odlozone, system_overlay, wywolanie, widok>>

(* PID 0 is preempted inside a press, and later has its turn again.        *)
Wywlaszcz ==
    /\ usb.faza = "nacisk" /\ odlozone = <<>>
    /\ odlozone' = wywolanie /\ wywolanie' = <<>>
    /\ wyjatek' = TRUE
    /\ UNCHANGED <<warstwy, adresy, pid_przejmujacy_mysz, poprzednie_przyciski_gui, naruszony,
                   chybiony, usb, system_overlay, widok>>

Wznow ==
    /\ odlozone # <<>> /\ wywolanie = <<>>
    /\ wywolanie' = odlozone /\ odlozone' = <<>>
    /\ UNCHANGED <<warstwy, adresy, pid_przejmujacy_mysz, poprzednie_przyciski_gui, naruszony,
                   chybiony, wyjatek, usb, system_overlay, widok>>

-----------------------------------------------------------------------------
OknaInit ==
    /\ stan_warstwy = [p \in PidyOkien |-> "brak"] /\ z_order = [p \in PidyOkien |-> 0]
    /\ system_overlay = Nikt
    /\ aktywny_pid_gui = Nikt /\ capture_pid_gui = Nikt /\ pid_przejmujacy_mysz = Nikt
    /\ poprzednie_przyciski_gui = {}
    /\ wywolanie = <<>> /\ widok = [p \in PidyOkien |-> FALSE]
    /\ usb = BezRaportu /\ odlozone = <<>>
    /\ podniesienia = {} /\ naruszony = FALSE /\ chybiony = FALSE /\ wyjatek = FALSE

KrokWywolania ==
    \/ ZmienFocus \/ ZapiszAktywny \/ PowiadomBlur \/ PowiadomFocus
    \/ ZnajdzNajwyzszeZ \/ ZapiszZ \/ ZnajdzNastepce
    \/ Publikuj \/ Przejmij \/ Porzuc
    \/ bws_gui_usun_stan_procesu \/ bws_gui_zwolnij_mysz_procesu

WywolaniaOkien ==
    \/ \E p \in PidyOkien :
         \/ \E z \in PoczatkoweZ[p] : bws_utworz_warstwe(p, z)
         \/ \E stan \in BOOLEAN : bws_gui_ustaw_przejecie_myszy(p, stan)
         \/ bws_gui_ustaw_capture(p) \/ ZwolnijCapture(p)
         \/ bws_gui_minimalizuj_warstwe(p) \/ bws_gui_aktywuj_okno(p)
         \/ bws_zakoncz_biezacy_proces(p)
    \/ \E otwarty \in BOOLEAN : skladacz_obrazu_ustaw_overlay(otwarty)
    \/ KrokWywolania

MyszPs2 ==
    \/ MyszPowloki
    \/ \E przyciski \in SUBSET Przyciski :
         \/ \E punkt \in Punkty : Nacisniecie(przyciski, punkt)
         \/ Puszczenie(przyciski)

MyszUsb ==
    \/ UsbNapraw \/ UsbWlasciciel
    \/ \E przyciski \in SUBSET Przyciski : UsbPrzyciski(przyciski)
    \/ UsbNacisniecie \/ (\E punkt \in Punkty : Trafienie(punkt)) \/ Adresat
    \/ UsbPusc \/ UsbZapisz
    \/ Wywlaszcz \/ Wznow

OknaNext == WywolaniaOkien \/ MyszPs2 \/ MyszUsb

OknaSpec == OknaInit /\ [][OknaNext]_okienka

-----------------------------------------------------------------------------
(* Once no call and no press is under way, the focus and the capture are   *)
(* with processes that have a visible layer, however windows were closed,  *)
(* hidden and clicked on in between; and the process with the focus, and   *)
(* no other, was last told FOCUS, unless a PS/2 press came inside a change *)
(* of the focus (grafika.cpp 1854-1876, 3063-3120).  Nothing is said once  *)
(* something came inside a press of the USB mouse, or the owner of an open *)
(* overlay hid its layer.                                                  *)
AdresatZgodny ==
    wywolanie = <<>> /\ ~wyjatek =>
      /\ {aktywny_pid_gui, capture_pid_gui} \subseteq Widoczne \cup {Nikt}
      /\ ~naruszony => \A p \in PidyOkien : widok[p] <=> p = aktywny_pid_gui

(* A press goes to the window seen on top at the pointer, the one raised   *)
(* last: z_orders keep that order when they are numbered anew, and no      *)
(* capture of an earlier press diverts it (grafika.cpp 1948-1963,          *)
(* skladacz_obrazu.cpp 1798-1826), with the same exceptions.               *)
NacisniecieTrafia == ~chybiony

(* The comment in zaktualizuj_mysze, grafika.cpp 1953-1955: focus and the  *)
(* addressee of DOWN must be the same hit-tested process.  That is checked *)
(* here while this process has its layer.  With a USB mouse it need not be *)
(* so.                                                                     *)
FocusIAdresatTenSam ==
    Teraz("adresat") /\ pobierz_warstwe(Pid) => aktywny_pid_gui = Pid /\ Cel = Pid
=============================================================================
