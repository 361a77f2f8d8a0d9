----------------------------- MODULE Klawiatura -----------------------------
(***************************************************************************)
(* The decoder of PS/2 scan codes of klawiatura.cpp, run by IRQ 1 with     *)
(* interrupts off, one byte at a time: the prefixes E0 and E1, the         *)
(* modifiers, Polish letters with AltGr as pairs of UTF-8 bytes, arrows as *)
(* escape sequences.                                                       *)
(*                                                                         *)
(* A physical keyboard (not part of the code) sends the bytes: a press or  *)
(* a release is a message of one to six of them. The tables kbd_us and     *)
(* kbd_us_shift are cut down to a letter of each kind, a digit, the keys   *)
(* of the keypad and the nine Polish letters. What becomes of the decoded  *)
(* bytes is in module BuforKlawiatury. port, trzymane,                     *)
(* wcisniety_caps, zgloszone and oczekiwane are not in the code: the bytes *)
(* under way, the keys held, the Caps Lock of the keyboard, the output for *)
(* the last message, and what it should be.                                *)
(***************************************************************************)
EXTENDS Integers, Sequences, FiniteSets

CONSTANTS Klawisze,         \* the keys of the keyboard: their make codes
          MAKS_TRZYMANYCH   \* bound: keys held at a time

ESC == 27

SC_E0 == \hE0
SC_E1 == \hE1
SC_LSHIFT_DOWN == \h2A
SC_LSHIFT_UP == \hAA
SC_RSHIFT_DOWN == \h36
SC_RSHIFT_UP == \hB6
SC_CAPSLOCK == \h3A
SC_RALT_DOWN_E0 == \h38
SC_RALT_UP_E0 == \hB8
SC_RELEASE_BIT == \h80
E1_BAJTY_DO_POMINIECIA == 5

(* The lower and upper form of a key in kbd_us and kbd_us_shift.           *)
Tablica(sc) ==
  CASE sc = \h1E -> <<97, 65>>   \* a A
    [] sc = \h2E -> <<99, 67>>   \* c C
    [] sc = \h12 -> <<101, 69>>  \* e E
    [] sc = \h26 -> <<108, 76>>  \* l L
    [] sc = \h31 -> <<110, 78>>  \* n N
    [] sc = \h18 -> <<111, 79>>  \* o O
    [] sc = \h1F -> <<115, 83>>  \* s S
    [] sc = \h2D -> <<120, 88>>  \* x X
    [] sc = \h2C -> <<122, 90>>  \* z Z
    [] sc = \h10 -> <<113, 81>>  \* q Q
    [] sc = \h02 -> <<49, 33>>   \* 1 !
    [] sc = \h35 -> <<47, 63>>   \* / ?
    [] sc = \h1C -> <<10, 10>>   \* Enter
    [] sc = \h48 -> <<56, 56>>   \* 8 on the keypad
    [] OTHER -> <<0, 0>>

kbd_us(sc) == Tablica(sc)[1]
kbd_us_shift(sc) == Tablica(sc)[2]

(* The two bytes of a Polish letter: the first one, then the second one of *)
(* the small and of the capital letter.                                    *)
obsluz_polski_znak(sc) ==
  CASE sc = \h1E -> <<\hC4, \h85, \h84>>
    [] sc = \h2E -> <<\hC4, \h87, \h86>>
    [] sc = \h12 -> <<\hC4, \h99, \h98>>
    [] sc = \h26 -> <<\hC5, \h82, \h81>>
    [] sc = \h31 -> <<\hC5, \h84, \h83>>
    [] sc = \h18 -> <<\hC3, \hB3, \h93>>
    [] sc = \h1F -> <<\hC5, \h9B, \h9A>>
    [] sc = \h2D -> <<\hC5, \hBA, \hB9>>
    [] sc = \h2C -> <<\hC5, \hBC, \hBB>>
    [] OTHER -> <<>>

VARIABLES lewy_shift, prawy_shift, prawy_alt, caps_lock,
          klawisz_rozszerzony_e0, pozostalo_e1,
          port, trzymane, wcisniety_caps, zgloszone, oczekiwane

modyfikatory == <<lewy_shift, prawy_shift, prawy_alt, caps_lock>>
fizyczne == <<trzymane, wcisniety_caps, oczekiwane>>
dekoder == <<modyfikatory, klawisz_rozszerzony_e0, pozostalo_e1, port, fizyczne, zgloszone>>

KlawiaturaInit ==
  /\ lewy_shift = FALSE /\ prawy_shift = FALSE /\ prawy_alt = FALSE /\ caps_lock = FALSE
  /\ klawisz_rozszerzony_e0 = FALSE /\ pozostalo_e1 = 0
  /\ port = <<>> /\ trzymane = {} /\ wcisniety_caps = FALSE
  /\ zgloszone = <<>> /\ oczekiwane = <<>>

-----------------------------------------------------------------------------
(* The decoder: the bytes an IRQ reports to the system.                    *)

shift == lewy_shift \/ prawy_shift

czy_litera_ascii(z) == z \in 65 .. 90 \cup 97 .. 122

(* Mutated form: Caps Lock makes every letter a capital one.               *)
BladCapsBezShift(z) ==
  IF ~ caps_lock \/ ~ czy_litera_ascii(z) THEN z
  ELSE IF z \in 97 .. 122 THEN z - 97 + 65 ELSE z

zastosuj_caps_lock(z) ==
  IF ~ caps_lock \/ ~ czy_litera_ascii(z) THEN z
  ELSE IF shift THEN IF z \in 65 .. 90 THEN z - 65 + 97 ELSE z
  ELSE IF z \in 97 .. 122 THEN z - 97 + 65 ELSE z

(* With AltGr a key is a Polish letter or nothing.                         *)
obsluz_zwykly_make_code(sc) ==
  LET para == obsluz_polski_znak(sc)
      znak == IF shift THEN kbd_us_shift(sc) ELSE kbd_us(sc)
  IN IF prawy_alt
     THEN IF para = <<>> THEN <<>>
          ELSE <<para[1], IF shift # caps_lock THEN para[3] ELSE para[2]>>
     ELSE IF znak = 0 THEN <<>> ELSE <<zastosuj_caps_lock(znak)>>

(* Arrows and the other extended keys; their releases report nothing.      *)
SekwencjaE0(sc) ==
  CASE sc = \h48 -> <<ESC, 91, 65>>
    [] sc = \h50 -> <<ESC, 91, 66>>
    [] sc = \h4D -> <<ESC, 91, 67>>
    [] sc = \h4B -> <<ESC, 91, 68>>
    [] sc = \h53 -> <<ESC, 91, 51, 126>>
    [] sc = \h47 -> <<ESC, 91, 72>>
    [] sc = \h4F -> <<ESC, 91, 70>>
    [] sc = \h1C -> <<10>>
    [] sc = \h35 -> <<47>>
    [] OTHER -> <<>>

(* Mutated form: extended codes set the Shift keys too.                    *)
BladObsluzE0(sc) ==
  /\ prawy_alt' = IF sc = SC_RALT_DOWN_E0 THEN TRUE
                  ELSE IF sc = SC_RALT_UP_E0 THEN FALSE ELSE prawy_alt
  /\ lewy_shift' = IF sc = SC_LSHIFT_UP THEN FALSE ELSE lewy_shift
  /\ zgloszone' = zgloszone \o SekwencjaE0(sc)
  /\ UNCHANGED <<prawy_shift, caps_lock>>

obsluz_e0(sc) ==
  /\ prawy_alt' = IF sc = SC_RALT_DOWN_E0 THEN TRUE
                  ELSE IF sc = SC_RALT_UP_E0 THEN FALSE ELSE prawy_alt
  /\ zgloszone' = zgloszone \o SekwencjaE0(sc)
  /\ UNCHANGED <<lewy_shift, prawy_shift, caps_lock>>

(* A code without a prefix: a modifier, a release, or a key.               *)
ObsluzZwykly(sc) ==
  /\ lewy_shift' = IF sc = SC_LSHIFT_DOWN THEN TRUE
                   ELSE IF sc = SC_LSHIFT_UP THEN FALSE ELSE lewy_shift
  /\ prawy_shift' = IF sc = SC_RSHIFT_DOWN THEN TRUE
                    ELSE IF sc = SC_RSHIFT_UP THEN FALSE ELSE prawy_shift
  /\ caps_lock' = IF sc = SC_CAPSLOCK THEN ~ caps_lock ELSE caps_lock
  /\ zgloszone' =
       IF sc \in {SC_LSHIFT_DOWN, SC_RSHIFT_DOWN, SC_CAPSLOCK} \/ sc >= SC_RELEASE_BIT
       THEN zgloszone ELSE zgloszone \o obsluz_zwykly_make_code(sc)
  /\ UNCHANGED prawy_alt

(* E1: the Pause key follows, its bytes are skipped.                       *)
ZacznijE1 ==
  /\ pozostalo_e1' = E1_BAJTY_DO_POMINIECIA
  /\ klawisz_rozszerzony_e0' = FALSE

(* One IRQ 1 that finds a byte at the port. Without one it does nothing.   *)
obsluga_przerwania_klawiatury ==
  /\ port # <<>>
  /\ LET sc == Head(port)
     IN \/ /\ pozostalo_e1 # 0
           /\ pozostalo_e1' = pozostalo_e1 - 1
           /\ UNCHANGED <<modyfikatory, klawisz_rozszerzony_e0, zgloszone>>
        \/ /\ pozostalo_e1 = 0 /\ sc = SC_E1
           /\ ZacznijE1
           /\ UNCHANGED <<modyfikatory, zgloszone>>
        \/ /\ pozostalo_e1 = 0 /\ sc = SC_E0
           /\ klawisz_rozszerzony_e0' = TRUE
           /\ UNCHANGED <<modyfikatory, pozostalo_e1, zgloszone>>
        \/ /\ pozostalo_e1 = 0 /\ sc \notin {SC_E0, SC_E1} /\ klawisz_rozszerzony_e0
           /\ klawisz_rozszerzony_e0' = FALSE
           /\ obsluz_e0(sc)
           /\ UNCHANGED pozostalo_e1
        \/ /\ pozostalo_e1 = 0 /\ sc \notin {SC_E0, SC_E1} /\ ~ klawisz_rozszerzony_e0
           /\ ObsluzZwykly(sc)
           /\ UNCHANGED <<klawisz_rozszerzony_e0, pozostalo_e1>>
  /\ port' = Tail(port)
  /\ UNCHANGED fizyczne

-----------------------------------------------------------------------------
(* The keyboard. A key is its make code, 256 more if it is an extended     *)
(* one. Every message is decoded before the next, which changes nothing:   *)
(* the decoder sees the bytes in order.                                    *)

LSHIFT == SC_LSHIFT_DOWN
RSHIFT == SC_RSHIFT_DOWN
CAPS == SC_CAPSLOCK
ALTGR == 256 + SC_RALT_DOWN_E0
PAUSE == 1000

(* A code has seven bits.  No key has the codes whose release would be E0  *)
(* or E1.                                                                  *)
Kody == 1 .. \h7F \ {\h60, \h61}
ASSUME KlawiszeZalozenia ==
  \A k \in Klawisze : k \in Kody \/ k - 256 \in Kody \/ k = PAUSE

Rozszerzony(k) == k >= 256 /\ k # PAUSE
ShiftTrzymany == {LSHIFT, RSHIFT} \cap trzymane # {}

(* A held Shift key is lifted for the host while an extended key of the    *)
(* cursor block is pressed: the fake codes E0 AA and E0 B6.                *)
FalszywyShift(dodaj) ==
  (IF LSHIFT \in trzymane THEN <<SC_E0, IF dodaj THEN SC_LSHIFT_DOWN ELSE SC_LSHIFT_UP>>
   ELSE <<>>) \o
  (IF RSHIFT \in trzymane THEN <<SC_E0, IF dodaj THEN SC_RSHIFT_DOWN ELSE SC_RSHIFT_UP>>
   ELSE <<>>)

KodNacisniecia(k) ==
  IF k = PAUSE THEN <<SC_E1, \h1D, \h45, SC_E1, \h9D, \hC5>>
  ELSE IF k = ALTGR THEN <<SC_E0, SC_RALT_DOWN_E0>>
  ELSE IF Rozszerzony(k) THEN FalszywyShift(FALSE) \o <<SC_E0, k - 256>>
  ELSE <<k>>

KodPuszczenia(k) ==
  IF k = PAUSE THEN <<>>
  ELSE IF k = ALTGR THEN <<SC_E0, SC_RALT_UP_E0>>
  ELSE IF Rozszerzony(k) THEN <<SC_E0, k - 256 + SC_RELEASE_BIT>> \o FalszywyShift(TRUE)
  ELSE <<k + SC_RELEASE_BIT>>

(* What a press types, said of the layout and not of the code: a letter is *)
(* a capital one if exactly one of Shift and Caps Lock holds, AltGr turns  *)
(* nine of them into the Polish letters of Unicode in UTF-8, an extended   *)
(* key means the same with and without modifiers.                          *)
UTF8(u) == <<192 + (u \div 64), 128 + (u % 64)>>
PolskieLitery ==  \* the small letter on the key, its Unicode points small and capital
  { <<97, \h105, \h104>>, <<99, \h107, \h106>>, <<101, \h119, \h118>>, <<108, \h142, \h141>>,
    <<110, \h144, \h143>>, <<111, \hF3, \hD3>>, <<115, \h15B, \h15A>>, <<120, \h17A, \h179>>,
    <<122, \h17C, \h17B>> }

Znak(k) ==
  LET mala == Tablica(k)[1]
      litera == mala \in 97 .. 122
      wielka == IF litera THEN ShiftTrzymany # wcisniety_caps ELSE ShiftTrzymany
  IN IF k \in {LSHIFT, RSHIFT, CAPS, PAUSE, ALTGR} THEN <<>>
     ELSE IF Rozszerzony(k) THEN SekwencjaE0(k - 256)
     ELSE IF ALTGR \in trzymane
     THEN IF \E l \in PolskieLitery : l[1] = mala
          THEN LET l == CHOOSE l \in PolskieLitery : l[1] = mala
               IN UTF8(IF wielka THEN l[3] ELSE l[2])
          ELSE <<>>
     ELSE IF mala = 0 THEN <<>> ELSE <<Tablica(k)[IF wielka THEN 2 ELSE 1]>>

(* A key is pressed, or repeats while it is held.                          *)
Nacisnij(k) ==
  /\ port = <<>>
  /\ k = CAPS => k \notin trzymane
  /\ Cardinality(trzymane \cup {k}) <= MAKS_TRZYMANYCH
  /\ port' = KodNacisniecia(k)
  /\ trzymane' = IF k = PAUSE THEN trzymane ELSE trzymane \cup {k}
  /\ wcisniety_caps' = IF k = CAPS THEN ~ wcisniety_caps ELSE wcisniety_caps
  /\ oczekiwane' = Znak(k)
  /\ zgloszone' = <<>>
  /\ UNCHANGED <<modyfikatory, klawisz_rozszerzony_e0, pozostalo_e1>>

Pusc(k) ==
  /\ port = <<>> /\ k \in trzymane
  /\ port' = KodPuszczenia(k)
  /\ trzymane' = trzymane \ {k}
  /\ oczekiwane' = <<>>
  /\ zgloszone' = <<>>
  /\ UNCHANGED <<modyfikatory, klawisz_rozszerzony_e0, pozostalo_e1, wcisniety_caps>>

KlawiaturaNext ==
  \/ obsluga_przerwania_klawiatury
  \/ \E k \in Klawisze : Nacisnij(k) \/ Pusc(k)

KlawiaturaSpec == KlawiaturaInit /\ [][KlawiaturaNext]_dekoder

-----------------------------------------------------------------------------
(* Properties.                                                             *)

(* Between messages the decoder is in step with the keyboard, whatever was *)
(* pressed, held and released in whatever order: no prefix is pending, and *)
(* the modifiers are the keys that are held, the fake Shift codes of the   *)
(* extended keys and the bytes of the Pause key notwithstanding            *)
(* (klawiatura.cpp 393-405 and 497-553).                                   *)
DekoderWStepie ==
  port = <<>> =>
    /\ ~ klawisz_rozszerzony_e0 /\ pozostalo_e1 = 0
    /\ lewy_shift = (LSHIFT \in trzymane)
    /\ prawy_shift = (RSHIFT \in trzymane)
    /\ prawy_alt = (ALTGR \in trzymane)
    /\ caps_lock = wcisniety_caps

(* A press reports the character the layout gives it, whole and once; a    *)
(* release and a modifier report nothing (klawiatura.cpp 246-306 and       *)
(* 318-387).                                                               *)
ZnakWedlugUkladu == port = <<>> => zgloszone = oczekiwane
=============================================================================
