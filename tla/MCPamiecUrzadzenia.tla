------------------------- MODULE MCPamiecUrzadzenia -------------------------
(***************************************************************************)
(* The memory managers of the kernel, the device drivers and the event     *)
(* queue of a process, which share no state here, checked in one run:      *)
(* czesc is the one at work, the others stay as they began.                *)
(*                                                                         *)
(*  - Frames: eight of four bytes; the last one is above the limit of the  *)
(*    allocator.  The maps have ranges that begin and end inside a frame,  *)
(*    an empty one, a hole, adjacent ranges that meet inside a frame, and  *)
(*    a range that runs past the last address.                             *)
(*  - Heap: two bytes of alignment, headers of four bytes, and areas that  *)
(*    begin and end off the alignment: one too small by a byte, one with   *)
(*    room for exactly one block, two for four.  Sizes reach from zero     *)
(*    over the largest that can be rounded up to the largest 64-bit value. *)
(*    Any byte may be passed to kfree.                                     *)
(*  - Page tables: tables of six entries on three levels, two processes.   *)
(*    Their programs lie under a large page of the kernel, their heaps and *)
(*    stacks under entries of the first table of their own, the heap       *)
(*    across two tables.  The frames are enough for a second process, not  *)
(*    always for its heap, and not for its tables once the first has grown.*)
(*  - Key buffer: characters of one byte, of two and of three; a ring of   *)
(*    six slots holds five bytes, so overflow cuts characters.             *)
(*  - Decoder: every modifier, the nine keys with a Polish letter, a       *)
(*    letter without one, Ctrl, a digit, the 8 of the keypad and the arrow *)
(*    with the same code, the slash of the keypad, and Pause.  Four keys   *)
(*    at a time: both Shift keys, AltGr and a letter.                      *)
(*  - Disk: two sectors, two values, two commands given up.                *)
(*  - Network card: two rings of three descriptors.                        *)
(*  - Event queue: a ring of four slots, hence three events, one type of   *)
(*    each kind; two payloads tell an old event from a newer one.          *)
(***************************************************************************)
EXTENDS Pmm, Sterta, BuforKlawiatury, Klawiatura, Ahci, E1000, KolejkaZdarzen

CONSTANTS Wpisow, Poziomy, RamkiPmm, BAZA_STERTY_JADRA, ROZMIAR_STERTY_JADRA, Pidy, Obrazy,
          BAZA_STOSU_USER, LICZBA_STRON_STOSU_USER, BAZA_STERTY_USER, KONIEC_STERTY_USER,
          MAX_ALOKACJA_STERTY_NA_BWS

VARIABLES czesc
VARIABLES tablice, cr3, biezacy, pml4, granica, obraz, mapowania, wydane_adresy, zgubione

V == INSTANCE Vmm WITH s <- tablice, wydane <- wydane_adresy
strony == <<tablice, cr3, biezacy, pml4, granica, obraz, mapowania, wydane_adresy, zgubione>>

ASSUME StertaZalozenia
ASSUME V!VmmZalozenia
ASSUME KolejkaZalozenia
ASSUME KartaZalozenia

Z(p, d) == [poczatek |-> p, dlugosc |-> d]
MojeMapy == { {Z(0, 29)},
              {Z(3, 26), Z(31, 40)},
              {Z(0, 14), Z(14, 4), Z(19, 200)},
              {Z(2, 5), Z(40, 8), Z(8, 0)} }
MojeRezerwacje == { {}, {Z(15, 1), Z(16, 0)}, {Z(9, 3), Z(26, 100)} }

O(a, r) == [adres |-> a, rozmiar |-> r]
MojeObszary == { O(0, 40), O(4, 0), O(5, 7), O(5, 8), O(3, 28), O(3, 30) }
MojeRozmiary == {0, 1, 2, 3, 6, 8, 12, 126, 127}
MojeWskazniki == 0 .. 34

MojeObrazy == { [tekst |-> <<7>>, dane |-> <<>>], [tekst |-> <<7>>, dane |-> <<8>>] }
MojeRamki == 4 .. 33

MojSprzet == { {"ps2"}, {"usb"} }
MojeZnaki == { <<97>>, <<196, 133>>, <<27, 91, 65>> }
MojeKlawisze == { \h2A, \h36, \h3A, 256 + \h38, 1000,   \* Shifts, Caps Lock, AltGr, Pause
                  \h1E, \h2E, \h12, \h26, \h31, \h18, \h1F, \h2D, \h2C,
                  \h10, \h1D, \h02, \h48, 256 + \h48, 256 + \h35 }

MojeTypy == {"MYSZ_RUCH", "TIMER", "MYSZ_DOWN", "PLIKI_ZMIENIONE"}

pamiec     == <<vars, sterta, strony>>
urzadzenia == <<pierscien, dekoder, dyskAhci, karta, zdarzenia>>

MCInit ==
  /\ czesc \in {"ramki", "sterta", "strony", "bufor", "dekoder", "dysk", "karta", "zdarzenia"}
  /\ Init /\ StertaInit /\ V!Init
  /\ BuforInit /\ KlawiaturaInit /\ AhciInit /\ E1000Init /\ KolejkaInit
  /\ czesc # "bufor" => sprzet = {"ps2"}
  /\ czesc # "dysk" => dysk = [s \in Sektory |-> "x"]
  /\ czesc # "karta" => lacze

Pamiec ==
  \/ czesc = "ramki" /\ Next /\ UNCHANGED <<sterta, strony>>
  \/ czesc = "sterta" /\ StertaNext /\ UNCHANGED <<vars, strony>>
  \/ czesc = "strony" /\ V!Next /\ UNCHANGED <<vars, sterta>>

Urzadzenia ==
  \/ czesc = "bufor" /\ BuforNext /\ UNCHANGED <<dekoder, dyskAhci, karta, zdarzenia>>
  \/ czesc = "dekoder" /\ KlawiaturaNext /\ UNCHANGED <<pierscien, dyskAhci, karta, zdarzenia>>
  \/ czesc = "dysk" /\ AhciNext /\ UNCHANGED <<pierscien, dekoder, karta, zdarzenia>>
  \/ czesc = "karta" /\ E1000Next /\ UNCHANGED <<pierscien, dekoder, dyskAhci, zdarzenia>>
  \/ czesc = "zdarzenia" /\ KolejkaNext /\ UNCHANGED <<pierscien, dekoder, dyskAhci, karta>>

MCNext ==
  \/ Pamiec /\ UNCHANGED <<czesc, urzadzenia>>
  \/ Urzadzenia /\ UNCHANGED <<czesc, pamiec>>

MCSpec == MCInit /\ [][MCNext]_<<czesc, pamiec, urzadzenia>>

(* Every frame is free, a table of one space, a page of one process or of  *)
(* the kernel's heap, or lost to a failed mapping, and only one of these   *)
(* (vmm.cpp 1035-1267, loader.cpp 920-940).                                *)
RamkiMajaJednegoWlasciciela == czesc = "strony" => V!RamkiMajaJednegoWlasciciela

(* The walker finds what was mapped for the process with the rights given  *)
(* to it, and the kernel's own page everywhere else (vmm.cpp 524-884,      *)
(* loader.cpp 540-620).                                                    *)
PrzestrzenZgodna == czesc = "strony" => V!PrzestrzenZgodna
=============================================================================
