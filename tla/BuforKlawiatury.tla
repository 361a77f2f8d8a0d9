--------------------------- MODULE BuforKlawiatury ---------------------------
(***************************************************************************)
(* The ring of bytes between the keyboard and BWS 4 (klawiatura.cpp): one  *)
(* slot always stays free, the indexes are published after the data. The   *)
(* interrupt of the PS/2 keyboard puts the bytes of a character in with    *)
(* interrupts off; BWS 4 takes one byte with interrupts off; reports of an *)
(* USB keyboard are put in by PID 0, with interrupts on, so that every     *)
(* load and store of dodaj_bajt_do_bufora is a step of its own.            *)
(*                                                                         *)
(* przyjete is not in the code: the bytes that dodaj_bajt_do_bufora has    *)
(* accepted and nobody has taken. licznik_przepelnien_bufora is cut down   *)
(* to whether it is zero.                                                  *)
(***************************************************************************)
EXTENDS Naturals, Sequences

CONSTANTS ROZMIAR_BUFORA,  \* 256
          Znaki,           \* what one interrupt reports: one byte to four
          ZnakiUsb,        \* bytes of an USB keyboard
          Sprzet           \* sets of keyboards a machine may have: "ps2", "usb"

ASSUME BuforZalozenia ==
  /\ ROZMIAR_BUFORA \in Nat /\ ROZMIAR_BUFORA > 1
  /\ \A z \in Znaki : z \in Seq(Nat) /\ z # <<>>
  /\ ZnakiUsb \subseteq Nat
  /\ Sprzet \subseteq SUBSET {"ps2", "usb"}

VARIABLES sprzet,            \* the keyboards of this machine
          bufor_klawiatury, bufor_glowa, bufor_ogon, przepelniony,
          aktywny_pid_gui,   \* has a window the focus
          usb_krok, usb_glowa, usb_bajt,
          przyjete

usb == <<usb_krok, usb_glowa, usb_bajt>>
pierscien == <<sprzet, bufor_klawiatury, bufor_glowa, bufor_ogon, przepelniony, aktywny_pid_gui,
          usb, przyjete>>

IndeksyBufora == 0 .. ROZMIAR_BUFORA - 1

nastepny_indeks(i) == (i + 1) % ROZMIAR_BUFORA

BuforInit ==
  /\ sprzet \in Sprzet
  /\ bufor_klawiatury = [i \in IndeksyBufora |-> 0]
  /\ bufor_glowa = 0 /\ bufor_ogon = 0 /\ przepelniony = FALSE
  /\ aktywny_pid_gui = FALSE
  /\ usb_krok = "nic" /\ usb_glowa = 0 /\ usb_bajt = 0
  /\ przyjete = <<>>

(* Mutated form: the ring is used to the last slot.                        *)
BladDoPelna == ROZMIAR_BUFORA - ((bufor_glowa + ROZMIAR_BUFORA - bufor_ogon) % ROZMIAR_BUFORA)

(* How many more bytes dodaj_bajt_do_bufora would accept.                  *)
WolneMiejsca ==
  ROZMIAR_BUFORA - 1 - ((bufor_glowa + ROZMIAR_BUFORA - bufor_ogon) % ROZMIAR_BUFORA)

(* Mutated form: the bytes of a character come in reverse.                 *)
BladOdKonca(znak, k) == znak[Len(znak) + 1 - k]

(* The k-th byte that the handlers of Polish letters and arrows report.    *)
BajtZnaku(znak, k) == znak[k]

(* The interrupt reports the bytes of a character, in order. With a window *)
(* in focus they become events of its process; else each one is put into   *)
(* the ring until it is full.                                              *)
zglos_bajt_do_systemu(znak) ==
  LET ile == IF Len(znak) <= WolneMiejsca THEN Len(znak) ELSE WolneMiejsca
      Numer(i) == ((i + ROZMIAR_BUFORA - bufor_glowa) % ROZMIAR_BUFORA) + 1
  IN /\ "ps2" \in sprzet /\ ~ aktywny_pid_gui
     /\ bufor_klawiatury' = [i \in IndeksyBufora |->
          IF Numer(i) <= ile THEN BajtZnaku(znak, Numer(i)) ELSE bufor_klawiatury[i]]
     /\ bufor_glowa' = (bufor_glowa + ile) % ROZMIAR_BUFORA
     /\ przepelniony' = (przepelniony \/ ile < Len(znak))
     /\ przyjete' = przyjete \o SubSeq(znak, 1, ile)
     /\ UNCHANGED <<sprzet, bufor_ogon, aktywny_pid_gui, usb>>

(* BWS 4, as far as the ring is concerned.                                 *)
pobierz_znak_klawiatury ==
  /\ bufor_ogon # bufor_glowa
  /\ bufor_ogon' = nastepny_indeks(bufor_ogon)
  /\ przyjete' = IF przyjete = <<>> THEN <<>> ELSE Tail(przyjete)
  /\ UNCHANGED <<sprzet, bufor_klawiatury, bufor_glowa, przepelniony, aktywny_pid_gui, usb>>

(* The mouse, or the end of a process, moves the focus (grafika.cpp).      *)
ZmienFokus ==
  /\ aktywny_pid_gui' = ~ aktywny_pid_gui
  /\ UNCHANGED <<sprzet, bufor_klawiatury, bufor_glowa, bufor_ogon, przepelniony, usb,
                 przyjete>>

-----------------------------------------------------------------------------
(* PID 0 in dodaj_bajt_do_bufora: the indexes are read, the byte is stored,*)
(* the head is published.                                                  *)

UsbWczytaj(b) ==
  /\ "usb" \in sprzet /\ usb_krok = "nic" /\ ~ aktywny_pid_gui
  /\ IF nastepny_indeks(bufor_glowa) = bufor_ogon
     THEN przepelniony' = TRUE /\ UNCHANGED usb
     ELSE /\ usb_krok' = "zapisz" /\ usb_glowa' = bufor_glowa /\ usb_bajt' = b
          /\ UNCHANGED przepelniony
  /\ UNCHANGED <<sprzet, bufor_klawiatury, bufor_glowa, bufor_ogon, aktywny_pid_gui, przyjete>>

UsbZapisz ==
  /\ usb_krok = "zapisz"
  /\ bufor_klawiatury' = [bufor_klawiatury EXCEPT ![usb_glowa] = usb_bajt]
  /\ usb_krok' = "opublikuj"
  /\ UNCHANGED <<sprzet, bufor_glowa, bufor_ogon, przepelniony, aktywny_pid_gui, usb_glowa,
                 usb_bajt, przyjete>>

UsbOpublikuj ==
  /\ usb_krok = "opublikuj"
  /\ bufor_glowa' = nastepny_indeks(usb_glowa)
  /\ przyjete' = Append(przyjete, usb_bajt)
  /\ usb_krok' = "nic" /\ usb_glowa' = 0 /\ usb_bajt' = 0
  /\ UNCHANGED <<sprzet, bufor_klawiatury, bufor_ogon, przepelniony, aktywny_pid_gui>>

BuforNext ==
  \/ \E z \in Znaki : zglos_bajt_do_systemu(z)
  \/ pobierz_znak_klawiatury
  \/ ZmienFokus
  \/ \E b \in ZnakiUsb : UsbWczytaj(b)
  \/ UsbZapisz
  \/ UsbOpublikuj

BuforSpec == BuforInit /\ [][BuforNext]_pierscien

-----------------------------------------------------------------------------
(* Properties.                                                             *)

DlugoscBufora == (bufor_glowa + ROZMIAR_BUFORA - bufor_ogon) % ROZMIAR_BUFORA
ZawartoscBufora ==
  [k \in 1 .. DlugoscBufora |-> bufor_klawiatury[(bufor_ogon + k - 1) % ROZMIAR_BUFORA]]

(* BWS 4 will read exactly the bytes that were accepted and not yet taken, *)
(* in their order: the ring is a queue of one producer and one consumer,   *)
(* as klawiatura.cpp 69-70 says.                                           *)
BuforJestKolejka == ZawartoscBufora = przyjete

(* The bytes of the character z from its i-th on stand in s from g on.     *)
Stoi(z, i, s, g) == \A k \in i .. Len(z) : s[g + k - i] = z[k]

(* s can be cut: the rest of one character, and then whole ones.           *)
Cale == Znaki \cup { <<b>> : b \in ZnakiUsb }

Podzielone(s) ==
  \E Granice \in SUBSET (1 .. Len(s) + 1) :
    /\ Len(s) + 1 \in Granice
    /\ \/ 1 \in Granice
       \/ \E z \in Cale : \E i \in 2 .. Len(z) :
            Len(z) - i + 2 \in Granice /\ Stoi(z, i, s, 1)
    /\ \A g \in Granice \ {Len(s) + 1} :
         \E z \in Cale : g + Len(z) \in Granice /\ Stoi(z, 1, s, g)

(* Until the first overflow a reader never meets half of a character: the  *)
(* bytes in the ring are the rest of one character and then whole ones,    *)
(* although bytes are taken one by one and the focus moves in between      *)
(* (klawiatura.cpp 236-244).                                               *)
ZnakiWCalosci == ~ przepelniony => Podzielone(ZawartoscBufora)
=============================================================================
