---------------------------- MODULE StertaDowody ----------------------------
(***************************************************************************)
(* Proofs about the kernel heap of module Sterta, for every area, every    *)
(* alignment, every size of header and every sequence of calls, calls of   *)
(* kfree with pointers that were never handed out included.                *)
(***************************************************************************)
EXTENDS Sterta, Lematy, TLAPS

-----------------------------------------------------------------------------
(* Alignment.                                                              *)

LEMMA ZReszta ==
  ASSUME NEW d \in Nat, d > 0, NEW x \in Int
  PROVE  \E q \in Int, r \in 0 .. d - 1 : x = q * d + r /\ x % d = r
OBVIOUS

LEMMA WyrownanyTo ==
  ASSUME StertaZalozenia, NEW x \in Int
  PROVE  Wyrownany(x) <=> \E q \in Int : x = q * WYROWNANIE
<1> USE DEF StertaZalozenia
<1> DEFINE d == WYROWNANIE
<1>1. PICK q \in Int, r \in 0 .. d - 1 : x = q * d + r /\ x % d = r
  BY ZReszta
<1>2. ASSUME NEW p \in Int, x = p * d PROVE r = 0
  <2>1. ASSUME p <= q - 1 PROVE FALSE
    <3>1. p * d <= (q - 1) * d
      BY <2>1
    <3>2. (q - 1) * d = q * d - d /\ q * d \in Int /\ p * d \in Int
      OBVIOUS
    <3>3. QED
      BY <1>1, <1>2, <3>1, <3>2
  <2>2. ASSUME p >= q + 1 PROVE FALSE
    <3>1. p * d >= (q + 1) * d
      BY <2>2
    <3>2. (q + 1) * d = q * d + d /\ q * d \in Int /\ p * d \in Int
      OBVIOUS
    <3>3. QED
      BY <1>1, <1>2, <3>1, <3>2
  <2>3. p = q
    BY <2>1, <2>2
  <2>4. QED
    BY <1>1, <1>2, <2>3
<1>3. r = 0 => x = q * d
  BY <1>1
<1>4. QED
  BY <1>1, <1>2, <1>3 DEF Wyrownany

LEMMA WyrownaneRazem ==
  ASSUME StertaZalozenia, NEW x \in Int, NEW y \in Int, Wyrownany(x), Wyrownany(y)
  PROVE  Wyrownany(x + y) /\ Wyrownany(x - y)
<1>1. PICK p \in Int : x = p * WYROWNANIE
  BY WyrownanyTo
<1>2. PICK q \in Int : y = q * WYROWNANIE
  BY WyrownanyTo
<1>3. x + y = (p + q) * WYROWNANIE /\ x - y = (p - q) * WYROWNANIE
  BY <1>1, <1>2 DEF StertaZalozenia
<1>4. QED
  BY <1>3, WyrownanyTo, p + q \in Int, p - q \in Int, x + y \in Int, x - y \in Int

LEMMA Zaokraglenie ==
  ASSUME StertaZalozenia, NEW x \in Nat
  PROVE  /\ WyrownanyWDol(x) \in Nat /\ WyrownanyWDol(x) <= x
         /\ x < WyrownanyWDol(x) + WYROWNANIE /\ Wyrownany(WyrownanyWDol(x))
         /\ WyrownanyWGore(x) \in Nat /\ x <= WyrownanyWGore(x) /\ Wyrownany(WyrownanyWGore(x))
         /\ WyrownanyWGore(x) = WyrownanyWDol(x + WYROWNANIE - 1)
<1> USE DEF StertaZalozenia
<1>1. ASSUME NEW a \in Nat
      PROVE  /\ WyrownanyWDol(a) \in Nat /\ WyrownanyWDol(a) <= a
             /\ a < WyrownanyWDol(a) + WYROWNANIE /\ Wyrownany(WyrownanyWDol(a))
  <2>1. PICK q \in Int, r \in 0 .. WYROWNANIE - 1 :
          a = q * WYROWNANIE + r /\ a \div WYROWNANIE = q
    OBVIOUS
  <2>2. q >= 0
    <3>1. ASSUME q <= -1 PROVE FALSE
      <4>1. q * WYROWNANIE <= (-1) * WYROWNANIE
        BY <3>1
      <4>2. QED
        BY <2>1, <4>1
    <3>2. QED
      BY <3>1
  <2>3. q * WYROWNANIE \in Nat /\ WyrownanyWDol(a) = q * WYROWNANIE
    BY <2>1, <2>2 DEF WyrownanyWDol
  <2>4. Wyrownany(WyrownanyWDol(a))
    BY <2>1, <2>3, WyrownanyTo
  <2>5. QED
    BY <2>1, <2>3, <2>4
<1>2. WyrownanyWGore(x) = WyrownanyWDol(x + WYROWNANIE - 1) /\ x + WYROWNANIE - 1 \in Nat
  BY DEF WyrownanyWGore, WyrownanyWDol
<1>3. QED
  BY <1>1, <1>2

LEMMA Stale ==
  ASSUME StertaZalozenia
  PROVE  /\ NAGLOWEK \in Nat /\ NAGLOWEK > 0 /\ Wyrownany(NAGLOWEK)
         /\ MINIMALNY_BLOK_UZYTKOWY \in Nat /\ MINIMALNY_BLOK_UZYTKOWY > 0
         /\ Wyrownany(MINIMALNY_BLOK_UZYTKOWY)
BY DEF StertaZalozenia, Wyrownany

-----------------------------------------------------------------------------
(* The walk of the validator is the one its definition describes.          *)

Nast(H, x) == IF x \in DOMAIN H THEN H[x].nastepny ELSE NULLPTR

Przebieg(H, p, n, g) ==
  /\ g[0] = p
  /\ \A i \in 1 .. n : g[i] = Nast(H, g[i - 1])

LEMMA PrzebiegIstnieje ==
  ASSUME NEW H, NEW p, NEW n \in Nat PROVE \E g : Przebieg(H, p, n, g)
<1> DEFINE Zle == { m \in Nat : ~ \E g : Przebieg(H, p, m, g) }
<1> SUFFICES ASSUME Zle # {} PROVE FALSE
  OBVIOUS
<1>1. PICK m \in Zle : \A k \in Zle : m <= k
  <2>1. Zle \subseteq Nat
    OBVIOUS
  <2> HIDE DEF Zle
  <2>2. QED
    BY <2>1, JestNajmniejsza
<1>2. m \in Nat /\ ~ \E g : Przebieg(H, p, m, g)
  OBVIOUS
<1>3. CASE m = 0
  <2>1. Przebieg(H, p, m, [i \in {0} |-> p])
    BY <1>3 DEF Przebieg
  <2>2. QED
    BY <1>2, <2>1
<1>4. CASE m # 0
  <2>1. m - 1 \in Nat /\ ~ (m <= m - 1)
    BY <1>2, <1>4
  <2>2. PICK h : Przebieg(H, p, m - 1, h)
    BY <1>1, <2>1
  <2> DEFINE g == [i \in 0 .. m |-> IF i < m THEN h[i] ELSE Nast(H, h[m - 1])]
  <2>3. g[0] = p
    BY <1>2, <1>4, <2>2 DEF Przebieg
  <2>4. ASSUME NEW i \in 1 .. m PROVE g[i] = Nast(H, g[i - 1])
    <3>1. g[i - 1] = h[i - 1]
      BY <1>2
    <3>2. CASE i = m
      <4>1. g[i] = Nast(H, h[m - 1])
        BY <1>2, <3>2
      <4>2. QED
        BY <3>1, <3>2, <4>1
    <3>3. CASE i # m
      <4>1. i \in 1 .. m - 1 /\ g[i] = h[i]
        BY <1>2, <3>3
      <4>2. h[i] = Nast(H, h[i - 1])
        BY <2>2, <4>1 DEF Przebieg
      <4>3. QED
        BY <3>1, <4>1, <4>2
    <3>4. QED
      BY <3>2, <3>3
  <2> HIDE DEF g
  <2>5. Przebieg(H, p, m, g)
    BY <2>3, <2>4 DEF Przebieg
  <2>6. QED
    BY <1>2, <2>5
<1>5. QED
  BY <1>3, <1>4

LEMMA PrzebiegJedyny ==
  ASSUME NEW H, NEW p, NEW n \in Nat, NEW m \in Nat, m <= n, NEW g, NEW h,
         Przebieg(H, p, n, g), Przebieg(H, p, m, h)
  PROVE  g[m] = h[m]
<1> DEFINE Zle == { i \in 0 .. m : g[i] # h[i] }
<1> SUFFICES ASSUME Zle # {} PROVE FALSE
  OBVIOUS
<1>1. PICK i \in Zle : \A k \in Zle : i <= k
  <2>1. Zle \subseteq Nat
    OBVIOUS
  <2> HIDE DEF Zle
  <2>2. QED
    BY <2>1, JestNajmniejsza
<1>2. i \in 0 .. m /\ g[i] # h[i]
  OBVIOUS
<1>3. i # 0
  BY <1>2 DEF Przebieg
<1>4. i \in 1 .. m /\ i \in 1 .. n /\ i - 1 \in 0 .. m
  BY <1>2, <1>3
<1>5. g[i - 1] = h[i - 1]
  <2>1. i - 1 \notin Zle
    BY <1>1, <1>4
  <2>2. QED
    BY <1>4, <2>1
<1>6. g[i] = Nast(H, g[i - 1]) /\ h[i] = Nast(H, h[i - 1])
  BY <1>4 DEF Przebieg
<1>7. QED
  BY <1>2, <1>5, <1>6

LEMMA CoToObejscie ==
  /\ Obejscie[0] = poczatek_sterty
  /\ \A n \in Nat \ {0} : Obejscie[n] = Nast(blok, Obejscie[n - 1])
<1> DEFINE G(n) == CHOOSE g : Przebieg(blok, poczatek_sterty, n, g)
           f == [n \in Nat |-> G(n)[n]]
           D(b) == [i \in Nat |-> IF i = 0 THEN poczatek_sterty
                                  ELSE IF b[i - 1] \in Naglowki THEN blok[b[i - 1]].nastepny
                                  ELSE NULLPTR]
<1>1. \A n \in Nat : Przebieg(blok, poczatek_sterty, n, G(n))
  BY PrzebiegIstnieje
<1> HIDE DEF G
<1>2. f[0] = poczatek_sterty
  BY <1>1 DEF Przebieg
<1>3. ASSUME NEW n \in Nat, n # 0 PROVE f[n] = Nast(blok, f[n - 1])
  <2>1. n - 1 \in Nat /\ n \in 1 .. n /\ n - 1 <= n
    BY <1>3
  <2>2. G(n)[n] = Nast(blok, G(n)[n - 1])
    BY <1>1, <2>1 DEF Przebieg
  <2>3. G(n)[n - 1] = G(n - 1)[n - 1]
    BY <1>1, <2>1, PrzebiegJedyny
  <2>4. QED
    BY <2>1, <2>2, <2>3
<1>4. f = D(f)
  <2>1. \A n \in Nat : f[n] = D(f)[n]
    <3> SUFFICES ASSUME NEW n \in Nat PROVE f[n] = D(f)[n]
      OBVIOUS
    <3>1. D(f)[n] = IF n = 0 THEN poczatek_sterty ELSE Nast(blok, f[n - 1])
      BY DEF Nast, Naglowki
    <3>2. QED
      BY <1>2, <1>3, <3>1
  <2>2. QED
    BY <2>1
<1> HIDE DEF f
<1> DEFINE T == Obejscie
<1>5. T = D(T)
  <2>1. T = CHOOSE g : g = D(g)
    BY DEF Obejscie
  <2> HIDE DEF T, D
  <2>2. QED
    BY <1>4, <2>1
<1>6. T[0] = poczatek_sterty
  <2>1. D(T)[0] = poczatek_sterty
    OBVIOUS
  <2> HIDE DEF D, T
  <2>2. QED
    BY <1>5, <2>1
<1>7. ASSUME NEW n \in Nat \ {0} PROVE T[n] = Nast(blok, T[n - 1])
  <2>1. D(T)[n] = Nast(blok, T[n - 1])
    BY DEF Nast, Naglowki
  <2> HIDE DEF D, T
  <2>2. QED
    BY <1>5, <2>1
<1>8. QED
  BY <1>6, <1>7

-----------------------------------------------------------------------------
(* A sound list H of blocks of the heap from P to K.                       *)

Rekord == [rozmiar : Nat, czy_wolny : BOOLEAN, nastepny : Nat, poprzedni : Nat]

Zakres(P, K) == P \in Nat /\ K \in Nat /\ P # NULLPTR /\ Wyrownany(P) /\ Wyrownany(K)

Blok(P, K, H, b) ==
  /\ H[b] \in Rekord
  /\ Wyrownany(b) /\ P <= b
  /\ H[b].rozmiar >= MINIMALNY_BLOK_UZYTKOWY /\ Wyrownany(H[b].rozmiar)
  /\ KoniecBloku(H, b) <= K

WPrzod(K, H, b) ==
  IF H[b].nastepny = NULLPTR THEN KoniecBloku(H, b) = K
  ELSE /\ H[b].nastepny = KoniecBloku(H, b) /\ H[b].nastepny \in DOMAIN H
       /\ H[H[b].nastepny].poprzedni = b

WTyl(P, H, b) ==
  IF H[b].poprzedni = NULLPTR THEN b = P
  ELSE H[b].poprzedni \in DOMAIN H /\ H[H[b].poprzedni].nastepny = b

Rozlaczne(H) == \A b, c \in DOMAIN H : b < c => KoniecBloku(H, b) <= c

Lad(P, K, H) ==
  /\ Zakres(P, K)
  /\ P \in DOMAIN H /\ DOMAIN H \subseteq Nat
  /\ \A b \in DOMAIN H : Blok(P, K, H, b) /\ WPrzod(K, H, b) /\ WTyl(P, H, b)
  /\ Rozlaczne(H)

(* A pair of free neighbours begins at b.                                  *)
Para(H, b) ==
  /\ H[b].nastepny # NULLPTR
  /\ H[b].czy_wolny /\ H[H[b].nastepny].czy_wolny

NieObok(H) == \A b \in DOMAIN H : ~ Para(H, b)

(* Where a block ends.                                                     *)
LEMMA Granice ==
  ASSUME StertaZalozenia, NEW P, NEW K, NEW H, Lad(P, K, H), NEW b \in DOMAIN H
  PROVE  /\ P \in Nat /\ K \in Nat /\ P > 0 /\ b \in Nat /\ P <= b /\ b # NULLPTR
         /\ H[b].rozmiar \in Nat /\ H[b].nastepny \in Nat /\ H[b].poprzedni \in Nat
         /\ H[b].czy_wolny \in BOOLEAN
         /\ KoniecBloku(H, b) \in Nat /\ KoniecBloku(H, b) = b + NAGLOWEK + H[b].rozmiar
         /\ b + NAGLOWEK + MINIMALNY_BLOK_UZYTKOWY <= KoniecBloku(H, b)
         /\ KoniecBloku(H, b) <= K
         /\ Wyrownany(b) /\ Wyrownany(KoniecBloku(H, b))
         /\ NULLPTR \notin DOMAIN H
<1>1. /\ P \in Nat /\ K \in Nat /\ P > 0 /\ b \in Nat /\ P <= b /\ b # NULLPTR
      /\ H[b] \in Rekord /\ Wyrownany(b) /\ KoniecBloku(H, b) <= K
      /\ H[b].rozmiar >= MINIMALNY_BLOK_UZYTKOWY /\ Wyrownany(H[b].rozmiar)
  BY DEF Lad, Blok, Zakres, NULLPTR
<1>2. /\ H[b].rozmiar \in Nat /\ H[b].nastepny \in Nat /\ H[b].poprzedni \in Nat
      /\ H[b].czy_wolny \in BOOLEAN
  BY <1>1 DEF Rekord
<1>3. KoniecBloku(H, b) = b + NAGLOWEK + H[b].rozmiar
  BY DEF KoniecBloku
<1>4. /\ NAGLOWEK \in Nat /\ Wyrownany(NAGLOWEK) /\ NAGLOWEK > 0
      /\ MINIMALNY_BLOK_UZYTKOWY \in Nat /\ MINIMALNY_BLOK_UZYTKOWY > 0
  BY Stale
<1>5. Wyrownany(b + NAGLOWEK) /\ b + NAGLOWEK \in Int
  <2>1. b \in Int /\ NAGLOWEK \in Int
    BY <1>1, <1>4
  <2>2. Wyrownany(b + NAGLOWEK)
    BY <1>1, <1>4, <2>1, WyrownaneRazem
  <2>3. QED
    BY <2>1, <2>2
<1>6. Wyrownany(KoniecBloku(H, b))
  <2>1. b + NAGLOWEK \in Int /\ H[b].rozmiar \in Int
    BY <1>2, <1>5
  <2>2. Wyrownany((b + NAGLOWEK) + H[b].rozmiar)
    BY <1>1, <1>5, <2>1, WyrownaneRazem
  <2>3. QED
    BY <1>3, <2>2
<1>7. NULLPTR \notin DOMAIN H
  BY <1>1 DEF Lad, Blok, NULLPTR
<1>8. QED
  BY <1>1, <1>2, <1>3, <1>4, <1>6, <1>7

(* The next block lies behind, the one before lies in front.               *)
LEMMA Sasiedzi ==
  ASSUME StertaZalozenia, NEW P, NEW K, NEW H, Lad(P, K, H), NEW b \in DOMAIN H
  PROVE  /\ H[b].nastepny # NULLPTR => /\ H[b].nastepny \in DOMAIN H /\ H[b].nastepny > b
                                    /\ H[b].nastepny = KoniecBloku(H, b)
                                    /\ H[H[b].nastepny].poprzedni = b
         /\ H[b].poprzedni # NULLPTR => /\ H[b].poprzedni \in DOMAIN H /\ H[b].poprzedni < b
                                     /\ H[H[b].poprzedni].nastepny = b
                                     /\ KoniecBloku(H, H[b].poprzedni) = b
         /\ H[b].nastepny = NULLPTR => KoniecBloku(H, b) = K
         /\ H[b].poprzedni = NULLPTR <=> b = P
<1> USE DEF StertaZalozenia
<1>1. WPrzod(K, H, b) /\ WTyl(P, H, b)
  BY DEF Lad
<1>2. KoniecBloku(H, b) > b /\ b \in Nat /\ b # NULLPTR
  BY Granice
<1>3. ASSUME H[b].poprzedni # NULLPTR
      PROVE  /\ H[b].poprzedni \in DOMAIN H /\ H[b].poprzedni < b
             /\ H[H[b].poprzedni].nastepny = b
             /\ KoniecBloku(H, H[b].poprzedni) = b
  <2>1. PICK p \in DOMAIN H : p = H[b].poprzedni /\ H[p].nastepny = b
    BY <1>1, <1>3 DEF WTyl
  <2>2. WPrzod(K, H, p)
    BY DEF Lad
  <2>3. KoniecBloku(H, p) = b
    BY <1>2, <2>1, <2>2 DEF WPrzod
  <2>4. KoniecBloku(H, p) > p
    BY Granice
  <2>5. QED
    BY <2>1, <2>3, <2>4
<1>4. ASSUME b = P, H[b].poprzedni # NULLPTR PROVE FALSE
  <2>1. H[b].poprzedni \in DOMAIN H /\ H[b].poprzedni < P
    BY <1>3, <1>4
  <2>2. P <= H[b].poprzedni /\ P \in Nat /\ H[b].poprzedni \in Nat
    BY <2>1, Granice
  <2>3. QED
    BY <2>1, <2>2
<1>5. QED
  BY <1>1, <1>2, <1>3, <1>4 DEF WPrzod, WTyl

(* A header of a sound list passes the checks of the code.                 *)
LEMMA NaglowekPoprawny ==
  ASSUME StertaZalozenia, Lad(poczatek_sterty, koniec_sterty, blok), NEW b \in DOMAIN blok
  PROVE  BlokPoprawny(blok, b) /\ OgniwoPoprawne(blok, b)
<1> USE DEF StertaZalozenia
<1>1. ASSUME NEW c \in DOMAIN blok PROVE BlokPoprawny(blok, c) /\ adres_naglowka_w_stercie(c)
  <2>1. /\ c \in Nat /\ poczatek_sterty <= c /\ c + NAGLOWEK <= koniec_sterty /\ Wyrownany(c)
        /\ KoniecBloku(blok, c) <= koniec_sterty
    BY Granice
  <2>2. blok[c].rozmiar >= MINIMALNY_BLOK_UZYTKOWY /\ Wyrownany(blok[c].rozmiar)
    BY DEF Lad, Blok
  <2>3. QED
    BY <2>1, <2>2 DEF BlokPoprawny, adres_naglowka_w_stercie
<1>2. OgniwoPoprawne(blok, b)
  BY <1>1, Sasiedzi DEF OgniwoPoprawne
<1>3. QED
  BY <1>1, <1>2

(* The validator accepts a sound list: the walk goes up by a header and    *)
(* the smallest block at least with every step, so it comes to an end      *)
(* before the limit on the number of blocks.                               *)
LEMMA Walidator ==
  ASSUME StertaZalozenia, Lad(poczatek_sterty, koniec_sterty, blok)
  PROVE  lista_sterty_poprawna
<1> USE DEF StertaZalozenia
<1> DEFINE P == poczatek_sterty
           K == koniec_sterty
           w == Obejscie
           e == NAGLOWEK + MINIMALNY_BLOK_UZYTKOWY
           Dobry(i) == \/ w[i] = NULLPTR
                       \/ /\ w[i] \in DOMAIN blok /\ P + i * e <= w[i]
                          /\ blok[w[i]].poprzedni = IF i = 0 THEN NULLPTR ELSE w[i - 1]
<1>1. w[0] = P /\ \A n \in Nat \ {0} : w[n] = Nast(blok, w[n - 1])
  BY CoToObejscie
<1>2. e \in Nat /\ e > 0 /\ P \in Nat /\ K \in Nat /\ P # NULLPTR /\ P \in DOMAIN blok
  BY DEF Lad, Zakres
<1> HIDE DEF w, e
<1>3. ASSUME NEW i \in Nat, i # 0, Dobry(i - 1) PROVE Dobry(i)
  <2>1. w[i] = Nast(blok, w[i - 1])
    BY <1>1, <1>3
  <2>2. CASE w[i - 1] = NULLPTR
    <3>1. NULLPTR \notin DOMAIN blok
      BY <1>2, Granice
    <3>2. QED
      BY <2>1, <2>2, <3>1 DEF Nast
  <2>3. CASE w[i - 1] # NULLPTR /\ w[i] # NULLPTR
    <3>1. PICK b \in DOMAIN blok : b = w[i - 1] /\ P + (i - 1) * e <= b
      BY <1>3, <2>3
    <3>2. w[i] = blok[b].nastepny
      BY <2>1, <3>1 DEF Nast
    <3>3. w[i] \in DOMAIN blok /\ w[i] = KoniecBloku(blok, b) /\ blok[w[i]].poprzedni = b
      BY <2>3, <3>2, Sasiedzi
    <3>4. b \in Nat /\ b + e <= w[i] /\ w[i] \in Nat
      BY <3>3, Granice DEF e
    <3>5. i * e = (i - 1) * e + e /\ (i - 1) * e \in Int
      BY <1>2
    <3>6. P + i * e <= w[i]
      BY <1>2, <3>1, <3>4, <3>5
    <3>7. QED
      BY <1>3, <3>1, <3>3, <3>6
  <2>4. QED
    BY <2>2, <2>3
<1>4. Dobry(0)
  <2>1. blok[P].poprzedni = NULLPTR
    BY <1>2, Sasiedzi
  <2>2. 0 * e = 0
    BY <1>2
  <2>3. QED
    BY <1>1, <1>2, <2>1, <2>2
<1>5. \A i \in Nat : Dobry(i)
  <2> HIDE DEF Dobry
  <2> DEFINE Zle == { i \in Nat : ~ Dobry(i) }
  <2> SUFFICES ASSUME Zle # {} PROVE FALSE
    OBVIOUS
  <2>1. PICK i \in Zle : \A k \in Zle : i <= k
    <3>1. Zle \subseteq Nat
      OBVIOUS
    <3> HIDE DEF Zle
    <3>2. QED
      BY <3>1, JestNajmniejsza
  <2>2. i \in Nat /\ ~ Dobry(i)
    OBVIOUS
  <2>3. i # 0
    BY <1>4, <2>2
  <2>4. i - 1 \in Nat /\ Dobry(i - 1)
    BY <2>1, <2>2, <2>3
  <2>5. QED
    BY <1>3, <2>2, <2>3, <2>4
<1>6. maks_blokow \in Nat /\ maks_blokow >= 1 /\ w[maks_blokow] = NULLPTR
  <2>0. KoniecBloku(blok, P) <= K /\ P <= KoniecBloku(blok, P) /\ KoniecBloku(blok, P) \in Nat
    BY <1>2, Granice
  <2>1. K - P \in Nat
    BY <1>2, <2>0
  <2>2. PICK q \in Int, r \in 0 .. e - 1 : K - P = q * e + r /\ (K - P) \div e = q
    BY <1>2, <2>1
  <2>3. q >= 0
    <3>1. ASSUME q <= -1 PROVE FALSE
      <4>1. q * e <= (-1) * e
        BY <1>2, <3>1
      <4>2. q * e \in Int
        BY <1>2
      <4>3. QED
        BY <1>2, <2>1, <2>2, <4>1, <4>2
    <3>2. QED
      BY <3>1
  <2>4. maks_blokow = q + 1
    BY <2>2 DEF maks_blokow, e
  <2>5. ASSUME w[q + 1] # NULLPTR PROVE FALSE
    <3>1. PICK b \in DOMAIN blok : P + (q + 1) * e <= b
      BY <1>5, <2>3, <2>5
    <3>2. (q + 1) * e = q * e + e /\ q * e \in Int
      BY <1>2
    <3>3. b <= K /\ b \in Nat
      <4>1. b <= KoniecBloku(blok, b) /\ KoniecBloku(blok, b) <= K /\ b \in Nat
            /\ KoniecBloku(blok, b) \in Nat
        BY Granice
      <4>2. QED
        BY <1>2, <4>1
    <3>4. QED
      BY <1>2, <2>2, <3>1, <3>2, <3>3
  <2>6. QED
    BY <2>3, <2>4, <2>5
<1>7. PICK n \in Nat : w[n] = NULLPTR /\ \A k \in Nat : w[k] = NULLPTR => n <= k
  <2> DEFINE Zero == { i \in Nat : w[i] = NULLPTR }
  <2>1. Zero \subseteq Nat /\ Zero # {}
    BY <1>6
  <2>2. PICK i \in Zero : \A k \in Zero : i <= k
    <3> HIDE DEF Zero
    <3>1. QED
      BY <2>1, JestNajmniejsza
  <2>3. QED
    BY <2>2
<1>8. n \in 1 .. maks_blokow
  BY <1>1, <1>2, <1>6, <1>7
<1>9. ASSUME NEW i \in 0 .. n - 1
      PROVE  /\ BlokPoprawny(blok, w[i])
             /\ blok[w[i]].poprzedni = (IF i = 0 THEN NULLPTR ELSE w[i - 1])
             /\ OgniwoPoprawne(blok, w[i])
  <2>1. w[i] # NULLPTR /\ i \in Nat
    BY <1>7
  <2>2. w[i] \in DOMAIN blok /\ blok[w[i]].poprzedni = (IF i = 0 THEN NULLPTR ELSE w[i - 1])
    BY <1>5, <2>1
  <2>3. QED
    BY <2>2, NaglowekPoprawny
<1>10. sterta_ma_poprawny_zakres
  <2>1. KoniecBloku(blok, P) <= K /\ P < KoniecBloku(blok, P) /\ KoniecBloku(blok, P) \in Nat
    BY <1>2, Granice
  <2>2. QED
    BY <1>2, <2>1 DEF sterta_ma_poprawny_zakres, Lad, Zakres
<1>11. QED
  BY <1>7, <1>8, <1>9, <1>10 DEF lista_sterty_poprawna, w

-----------------------------------------------------------------------------
(* What the operations on the list do to a sound list.                     *)

Zajety(H, x) == x \in DOMAIN H /\ ~ H[x].czy_wolny

(* G is H with the state of b set to v.                                    *)
JakZmiana(H, b, v, G) ==
  /\ DOMAIN G = DOMAIN H
  /\ \A x \in DOMAIN H : /\ G[x].rozmiar = H[x].rozmiar
                         /\ G[x].nastepny = H[x].nastepny
                         /\ G[x].poprzedni = H[x].poprzedni
                         /\ G[x].czy_wolny = IF x = b THEN v ELSE H[x].czy_wolny

(* G is H with the block b cut in two: n bytes of data and a block nowy.   *)
JakPodzial(H, b, n, nowy, G) ==
  /\ nowy \notin DOMAIN H /\ DOMAIN G = DOMAIN H \cup {nowy}
  /\ G[nowy].czy_wolny /\ G[nowy].nastepny = H[b].nastepny
  /\ G[b].czy_wolny = H[b].czy_wolny /\ G[b].rozmiar = n
  /\ \A x \in DOMAIN H : x # b => /\ G[x].rozmiar = H[x].rozmiar
                                  /\ G[x].czy_wolny = H[x].czy_wolny
                                  /\ G[x].nastepny = H[x].nastepny

(* G is H with the block s, the next one after b, made a part of b.        *)
JakScalenie(H, b, s, G) ==
  /\ s \in DOMAIN H /\ s # b /\ DOMAIN G = DOMAIN H \ {s}
  /\ G[b].czy_wolny = H[b].czy_wolny /\ G[b].nastepny = H[s].nastepny
  /\ G[b].poprzedni = H[b].poprzedni
  /\ \A x \in DOMAIN H \ {b, s} : /\ G[x].rozmiar = H[x].rozmiar
                                  /\ G[x].czy_wolny = H[x].czy_wolny
                                  /\ G[x].nastepny = H[x].nastepny
                                  /\ G[x].nastepny # s

(* The order of the list does not depend on which blocks are free.         *)
LEMMA ZmianaStanu ==
  ASSUME StertaZalozenia, NEW P, NEW K, NEW H, Lad(P, K, H), NEW b \in DOMAIN H,
         NEW v \in BOOLEAN, NEW G, G = [H EXCEPT ![b].czy_wolny = v]
  PROVE  Lad(P, K, G) /\ JakZmiana(H, b, v, G)
<1>1. DOMAIN G = DOMAIN H
  OBVIOUS
<1>2. ASSUME NEW x \in DOMAIN H
      PROVE  /\ G[x] \in Rekord
             /\ G[x].rozmiar = H[x].rozmiar /\ G[x].nastepny = H[x].nastepny
             /\ G[x].poprzedni = H[x].poprzedni
             /\ G[x].czy_wolny = IF x = b THEN v ELSE H[x].czy_wolny
  <2>1. H[x] \in Rekord
    BY DEF Lad, Blok
  <2>2. CASE x = b
    <3>1. G[x] = [H[x] EXCEPT !.czy_wolny = v]
      BY <2>2
    <3>2. QED
      BY <2>1, <2>2, <3>1 DEF Rekord
  <2>3. CASE x # b
    <3>1. G[x] = H[x]
      BY <2>3
    <3>2. QED
      BY <2>1, <2>3, <3>1
  <2>4. QED
    BY <2>2, <2>3
<1>3. \A x \in DOMAIN H : KoniecBloku(G, x) = KoniecBloku(H, x)
  BY <1>2 DEF KoniecBloku
<1>4. ASSUME NEW x \in DOMAIN H PROVE Blok(P, K, G, x) /\ WPrzod(K, G, x) /\ WTyl(P, G, x)
  <2>1. Blok(P, K, H, x) /\ WPrzod(K, H, x) /\ WTyl(P, H, x)
    BY DEF Lad
  <2>2. Blok(P, K, G, x)
    BY <1>2, <1>3, <2>1 DEF Blok
  <2>3. WPrzod(K, G, x)
    <3>1. CASE H[x].nastepny = NULLPTR
      BY <1>2, <1>3, <2>1, <3>1 DEF WPrzod
    <3>2. CASE H[x].nastepny # NULLPTR
      <4>1. PICK y \in DOMAIN H : y = H[x].nastepny /\ y = KoniecBloku(H, x) /\ H[y].poprzedni = x
        BY <2>1, <3>2 DEF WPrzod
      <4>2. G[x].nastepny = y /\ KoniecBloku(G, x) = y /\ G[y].poprzedni = x
        BY <1>2, <1>3, <4>1
      <4>3. QED
        BY <1>1, <3>2, <4>1, <4>2 DEF WPrzod
    <3>3. QED
      BY <3>1, <3>2
  <2>4. WTyl(P, G, x)
    BY <1>1, <1>2, <2>1 DEF WTyl
  <2>5. QED
    BY <2>2, <2>3, <2>4
<1>5. Rozlaczne(G)
  BY <1>1, <1>3 DEF Rozlaczne, Lad
<1>6. Lad(P, K, G)
  BY <1>1, <1>4, <1>5 DEF Lad
<1>7. QED
  BY <1>1, <1>2, <1>6 DEF JakZmiana

(* Outside a block.                                                        *)
LEMMA Obok ==
  ASSUME StertaZalozenia, NEW P, NEW K, NEW H, Lad(P, K, H),
         NEW b \in DOMAIN H, NEW x \in DOMAIN H, x # b
  PROVE  \/ KoniecBloku(H, x) <= b /\ x < b
         \/ KoniecBloku(H, b) <= x /\ b < x
<1>1. b \in Nat /\ x \in Nat
  BY Granice
<1>2. x < b => KoniecBloku(H, x) <= b
  BY DEF Lad, Rozlaczne
<1>3. b < x => KoniecBloku(H, b) <= x
  BY DEF Lad, Rozlaczne
<1>4. QED
  BY <1>1, <1>2, <1>3

(* The split of a block.                                                   *)
LEMMA Podzial ==
  ASSUME StertaZalozenia, NEW P, NEW K, NEW H, Lad(P, K, H), NEW b \in DOMAIN H,
         NEW n \in Nat, n >= MINIMALNY_BLOK_UZYTKOWY, Wyrownany(n),
         H[b].rozmiar - n >= NAGLOWEK + MINIMALNY_BLOK_UZYTKOWY,
         NEW G, G = Podzielony(H, b, n), NEW nowy, nowy = b + NAGLOWEK + n
  PROVE  Lad(P, K, G) /\ JakPodzial(H, b, n, nowy, G)
<1> DEFINE e == KoniecBloku(H, b)
           s == H[b].nastepny
<1>1. /\ NAGLOWEK \in Nat /\ NAGLOWEK > 0 /\ Wyrownany(NAGLOWEK)
      /\ MINIMALNY_BLOK_UZYTKOWY \in Nat /\ MINIMALNY_BLOK_UZYTKOWY > 0
  BY Stale
<1>2. /\ P \in Nat /\ K \in Nat /\ P > 0 /\ b \in Nat /\ P <= b /\ b # NULLPTR
      /\ H[b].rozmiar \in Nat /\ s \in Nat /\ H[b].poprzedni \in Nat
      /\ H[b].czy_wolny \in BOOLEAN /\ e \in Nat /\ e = b + NAGLOWEK + H[b].rozmiar
      /\ e <= K /\ Wyrownany(b) /\ Wyrownany(e) /\ NULLPTR \notin DOMAIN H
  BY Granice
<1>3. nowy \in Nat /\ b < nowy /\ nowy < e /\ nowy # NULLPTR
  BY <1>1, <1>2 DEF NULLPTR
<1>4. nowy \notin DOMAIN H
  <2> SUFFICES ASSUME nowy \in DOMAIN H PROVE FALSE
    OBVIOUS
  <2>1. e <= nowy \/ nowy < b
    BY <1>2, <1>3, Obok
  <2>2. QED
    BY <1>2, <1>3, <2>1
<1>5. DOMAIN G = DOMAIN H \cup {nowy}
  BY DEF Podzielony
<1>0. nowy # s /\ b # s /\ nowy # b
  <2>1. s # NULLPTR => s \in DOMAIN H /\ s > b
    BY Sasiedzi
  <2>2. QED
    BY <1>2, <1>3, <1>4, <2>1
<1>6. G[nowy] = [rozmiar |-> H[b].rozmiar - n - NAGLOWEK, czy_wolny |-> TRUE,
                 nastepny |-> s, poprzedni |-> b]
  BY <1>0 DEF Podzielony
<1>7. b # nowy /\ G[b] = [H[b] EXCEPT !.rozmiar = n, !.nastepny = nowy]
  BY <1>0 DEF Podzielony
<1>8. \A x \in DOMAIN H : x # b => G[x] = IF x = s THEN [H[x] EXCEPT !.poprzedni = nowy] ELSE H[x]
  BY <1>4 DEF Podzielony
<1>9. \A x \in DOMAIN H : H[x] \in Rekord
  BY DEF Lad, Blok
<1>10. /\ G[nowy] \in Rekord /\ G[nowy].rozmiar = H[b].rozmiar - n - NAGLOWEK
       /\ G[nowy].czy_wolny = TRUE /\ G[nowy].nastepny = s /\ G[nowy].poprzedni = b
  <2>1. H[b].rozmiar - n - NAGLOWEK \in Nat
    BY <1>1, <1>2
  <2>2. QED
    BY <1>2, <1>6, <2>1 DEF Rekord
<1>11. /\ G[b] \in Rekord /\ G[b].rozmiar = n /\ G[b].nastepny = nowy
       /\ G[b].czy_wolny = H[b].czy_wolny /\ G[b].poprzedni = H[b].poprzedni
  BY <1>3, <1>7, <1>9 DEF Rekord
<1>12. ASSUME NEW x \in DOMAIN H, x # b
       PROVE  /\ G[x] \in Rekord /\ G[x].rozmiar = H[x].rozmiar
              /\ G[x].czy_wolny = H[x].czy_wolny /\ G[x].nastepny = H[x].nastepny
              /\ G[x].poprzedni = IF x = s THEN nowy ELSE H[x].poprzedni
  <2>1. H[x] \in Rekord
    BY <1>9
  <2>2. CASE x = s
    BY <1>3, <1>8, <1>12, <2>1, <2>2 DEF Rekord
  <2>3. CASE x # s
    BY <1>8, <1>12, <2>1, <2>3
  <2>4. QED
    BY <2>2, <2>3
<1> HIDE DEF s
<1>13. KoniecBloku(G, nowy) = e
  BY <1>1, <1>2, <1>10 DEF KoniecBloku
<1>14. KoniecBloku(G, b) = nowy
  BY <1>11 DEF KoniecBloku
<1>15. \A x \in DOMAIN H : x # b => KoniecBloku(G, x) = KoniecBloku(H, x)
  BY <1>12 DEF KoniecBloku
<1>16. /\ s # NULLPTR => s \in DOMAIN H /\ s > b /\ s = e /\ H[s].poprzedni = b
       /\ s = NULLPTR => e = K
       /\ H[b].poprzedni # NULLPTR => /\ H[b].poprzedni \in DOMAIN H /\ H[b].poprzedni < b
                                   /\ H[H[b].poprzedni].nastepny = b
       /\ H[b].poprzedni = NULLPTR <=> b = P
  BY Sasiedzi DEF s
<1> HIDE DEF e
<1>17. Blok(P, K, G, nowy) /\ WPrzod(K, G, nowy) /\ WTyl(P, G, nowy)
  <2>1. Wyrownany(nowy) /\ Wyrownany(e - nowy - NAGLOWEK)
    <3>1. Wyrownany(b + NAGLOWEK)
      BY <1>1, <1>2, WyrownaneRazem, b \in Int, NAGLOWEK \in Int
    <3>2. Wyrownany((b + NAGLOWEK) + n)
      BY <1>1, <1>2, <3>1, WyrownaneRazem, b + NAGLOWEK \in Int, n \in Int
    <3>3. Wyrownany(nowy)
      BY <3>2
    <3>4. Wyrownany(e - nowy)
      BY <1>2, <1>3, <3>3, WyrownaneRazem, e \in Int, nowy \in Int
    <3>5. Wyrownany((e - nowy) - NAGLOWEK)
      BY <1>1, <1>2, <1>3, <3>4, WyrownaneRazem, e - nowy \in Int, NAGLOWEK \in Int
    <3>6. QED
      BY <3>3, <3>5
  <2>2. /\ G[nowy].rozmiar = e - nowy - NAGLOWEK
        /\ G[nowy].rozmiar >= MINIMALNY_BLOK_UZYTKOWY
    BY <1>1, <1>2, <1>10
  <2>3. Blok(P, K, G, nowy)
    BY <1>2, <1>3, <1>10, <1>13, <2>1, <2>2 DEF Blok
  <2>4. WPrzod(K, G, nowy)
    <3>1. CASE s = NULLPTR
      BY <1>10, <1>13, <1>16, <3>1 DEF WPrzod
    <3>2. CASE s # NULLPTR
      <4>1. s \in DOMAIN H /\ s # b /\ s \in DOMAIN G
        BY <1>2, <1>5, <1>16, <3>2
      <4>2. G[s].poprzedni = nowy
        BY <1>12, <4>1
      <4>3. QED
        BY <1>10, <1>13, <1>16, <3>2, <4>1, <4>2 DEF WPrzod
    <3>3. QED
      BY <3>1, <3>2
  <2>5. WTyl(P, G, nowy)
    BY <1>2, <1>5, <1>10, <1>11 DEF WTyl
  <2>6. QED
    BY <2>3, <2>4, <2>5
<1>18. Blok(P, K, G, b) /\ WPrzod(K, G, b) /\ WTyl(P, G, b)
  <2>1. Blok(P, K, G, b)
    BY <1>2, <1>3, <1>11, <1>14 DEF Blok
  <2>2. WPrzod(K, G, b)
    BY <1>3, <1>5, <1>10, <1>11, <1>14 DEF WPrzod
  <2>3. WTyl(P, G, b)
    <3>1. CASE H[b].poprzedni = NULLPTR
      BY <1>11, <1>16, <3>1 DEF WTyl
    <3>2. CASE H[b].poprzedni # NULLPTR
      <4>1. PICK p \in DOMAIN H : p = H[b].poprzedni /\ p # b /\ H[p].nastepny = b
        BY <1>2, <1>16, <3>2
      <4>2. G[p].nastepny = b /\ p \in DOMAIN G
        BY <1>5, <1>12, <4>1
      <4>3. QED
        BY <1>11, <3>2, <4>1, <4>2 DEF WTyl
    <3>3. QED
      BY <3>1, <3>2
  <2>4. QED
    BY <2>1, <2>2, <2>3
<1>19. ASSUME NEW x \in DOMAIN H, x # b
       PROVE  Blok(P, K, G, x) /\ WPrzod(K, G, x) /\ WTyl(P, G, x)
  <2>1. Blok(P, K, H, x) /\ WPrzod(K, H, x) /\ WTyl(P, H, x)
    BY DEF Lad
  <2>2. Blok(P, K, G, x)
    BY <1>12, <1>15, <1>19, <2>1 DEF Blok
  <2>3. WPrzod(K, G, x)
    <3>1. CASE H[x].nastepny = NULLPTR
      BY <1>12, <1>15, <1>19, <2>1, <3>1 DEF WPrzod
    <3>2. CASE H[x].nastepny # NULLPTR
      <4>1. PICK y \in DOMAIN H : /\ y = H[x].nastepny /\ y = KoniecBloku(H, x)
                                  /\ H[y].poprzedni = x
        BY <2>1, <3>2 DEF WPrzod
      <4>2. G[x].nastepny = y /\ KoniecBloku(G, x) = y /\ y \in DOMAIN G
        BY <1>5, <1>12, <1>15, <1>19, <4>1
      <4>3. G[y].poprzedni = x
        <5>1. CASE y = b
          BY <1>11, <4>1, <5>1
        <5>2. CASE y # b
          <6>1. y # s
            BY <1>2, <1>16, <1>19, <3>2, <4>1
          <6>2. QED
            BY <1>12, <4>1, <5>2, <6>1
        <5>3. QED
          BY <5>1, <5>2
      <4>4. QED
        BY <3>2, <4>1, <4>2, <4>3 DEF WPrzod
    <3>3. QED
      BY <3>1, <3>2
  <2>4. WTyl(P, G, x)
    <3>1. CASE x = s
      <4>1. G[x].poprzedni = nowy /\ nowy \in DOMAIN G /\ G[nowy].nastepny = x
        BY <1>5, <1>10, <1>12, <1>19, <3>1
      <4>2. QED
        BY <1>3, <4>1 DEF WTyl
    <3>2. CASE x # s /\ H[x].poprzedni = NULLPTR
      BY <1>12, <1>19, <2>1, <3>2 DEF WTyl
    <3>3. CASE x # s /\ H[x].poprzedni # NULLPTR
      <4>1. PICK y \in DOMAIN H : y = H[x].poprzedni /\ H[y].nastepny = x
        BY <2>1, <3>3 DEF WTyl
      <4>2. y # b
        BY <3>3, <4>1 DEF s
      <4>3. G[x].poprzedni = y /\ y \in DOMAIN G /\ G[y].nastepny = x
        BY <1>5, <1>12, <1>19, <3>3, <4>1, <4>2
      <4>4. QED
        BY <3>3, <4>1, <4>3 DEF WTyl
    <3>4. QED
      BY <3>1, <3>2, <3>3
  <2>5. QED
    BY <2>2, <2>3, <2>4
<1>20. Rozlaczne(G)
  <2> SUFFICES ASSUME NEW x \in DOMAIN G, NEW y \in DOMAIN G, x < y
               PROVE  KoniecBloku(G, x) <= y
    BY DEF Rozlaczne
  <2>0. \A z \in DOMAIN H : z \in Nat /\ KoniecBloku(H, z) \in Nat
    BY Granice
  <2>1. \A z \in DOMAIN H : z # b => (KoniecBloku(H, z) <= b /\ z < b) \/ (e <= z /\ b < z)
    BY Obok DEF e
  <2>2. CASE x = nowy
    <3>1. y \in DOMAIN H /\ y # b
      BY <1>2, <1>3, <1>5, <2>2
    <3>2. QED
      BY <1>2, <1>3, <1>13, <2>0, <2>1, <2>2, <3>1
  <2>3. CASE x = b
    <3>1. CASE y = nowy
      BY <1>3, <1>14, <2>3, <3>1
    <3>2. CASE y # nowy
      <4>1. y \in DOMAIN H /\ y # b
        BY <1>2, <1>5, <2>3, <3>2
      <4>2. QED
        BY <1>2, <1>3, <1>14, <2>0, <2>1, <2>3, <4>1
    <3>3. QED
      BY <3>1, <3>2
  <2>4. CASE x # nowy /\ x # b
    <3>1. x \in DOMAIN H /\ KoniecBloku(G, x) = KoniecBloku(H, x)
      BY <1>5, <1>15, <2>4
    <3>2. CASE y = nowy
      BY <1>2, <1>3, <2>0, <2>1, <2>4, <3>1, <3>2
    <3>3. CASE y # nowy
      BY <1>5, <3>1, <3>3 DEF Lad, Rozlaczne
    <3>4. QED
      BY <3>2, <3>3
  <2>5. QED
    BY <2>2, <2>3, <2>4
<1>21. Lad(P, K, G)
  <2>1. P \in DOMAIN G /\ DOMAIN G \subseteq Nat /\ Zakres(P, K)
    BY <1>3, <1>5 DEF Lad
  <2>2. \A x \in DOMAIN G : Blok(P, K, G, x) /\ WPrzod(K, G, x) /\ WTyl(P, G, x)
    BY <1>5, <1>17, <1>18, <1>19
  <2>3. QED
    BY <1>20, <2>1, <2>2 DEF Lad
<1>22. QED
  BY <1>4, <1>5, <1>10, <1>11, <1>12, <1>21 DEF s, JakPodzial

(* A block absorbs the next one.                                           *)
LEMMA Scalenie ==
  ASSUME StertaZalozenia, NEW P, NEW K, NEW H, Lad(P, K, H), NEW b \in DOMAIN H,
         NEW s, s = H[b].nastepny, s # NULLPTR,
         NEW G, G = Wchloniety(H, b)
  PROVE  Lad(P, K, G) /\ JakScalenie(H, b, s, G)
<1> DEFINE po == H[s].nastepny
           e == KoniecBloku(H, s)
<1>1. /\ NAGLOWEK \in Nat /\ NAGLOWEK > 0 /\ Wyrownany(NAGLOWEK)
      /\ MINIMALNY_BLOK_UZYTKOWY \in Nat /\ MINIMALNY_BLOK_UZYTKOWY > 0
  BY Stale
<1>2. /\ s \in DOMAIN H /\ s > b /\ s = KoniecBloku(H, b) /\ H[s].poprzedni = b
      /\ H[b].poprzedni # NULLPTR => /\ H[b].poprzedni \in DOMAIN H /\ H[b].poprzedni < b
                                  /\ H[H[b].poprzedni].nastepny = b
      /\ H[b].poprzedni = NULLPTR <=> b = P
  BY Sasiedzi
<1>3. /\ P \in Nat /\ K \in Nat /\ P > 0 /\ b \in Nat /\ P <= b /\ b # NULLPTR
      /\ H[b].rozmiar \in Nat /\ H[b].poprzedni \in Nat /\ H[b].czy_wolny \in BOOLEAN
      /\ s = b + NAGLOWEK + H[b].rozmiar /\ Wyrownany(b) /\ NULLPTR \notin DOMAIN H
  BY <1>2, Granice
<1>4. /\ s \in Nat /\ H[s].rozmiar \in Nat /\ po \in Nat /\ e \in Nat
      /\ e = s + NAGLOWEK + H[s].rozmiar /\ e <= K /\ Wyrownany(e)
  BY <1>2, Granice
<1>5. /\ po # NULLPTR => po \in DOMAIN H /\ po > s /\ po = e /\ H[po].poprzedni = s
      /\ po = NULLPTR => e = K
  BY <1>2, Sasiedzi
<1>6. b # s /\ po # b /\ po # s
  BY <1>2, <1>3, <1>4, <1>5
<1>7. DOMAIN G = DOMAIN H \ {s}
  BY DEF Wchloniety
<1>8. G[b] = [H[b] EXCEPT !.rozmiar = @ + NAGLOWEK + H[s].rozmiar, !.nastepny = po]
  BY <1>6 DEF Wchloniety
<1>9. \A x \in DOMAIN H \ {b, s} : G[x] = IF x = po THEN [H[x] EXCEPT !.poprzedni = b] ELSE H[x]
  BY DEF Wchloniety
<1>10. \A x \in DOMAIN H : H[x] \in Rekord
  BY DEF Lad, Blok
<1> HIDE DEF po
<1>11. /\ G[b] \in Rekord /\ G[b].rozmiar = H[b].rozmiar + NAGLOWEK + H[s].rozmiar
       /\ G[b].nastepny = po /\ G[b].czy_wolny = H[b].czy_wolny
       /\ G[b].poprzedni = H[b].poprzedni
  <2>1. H[b].rozmiar + NAGLOWEK + H[s].rozmiar \in Nat
    BY <1>1, <1>3, <1>4
  <2>2. QED
    BY <1>4, <1>8, <1>10, <2>1 DEF Rekord
<1>12. ASSUME NEW x \in DOMAIN H \ {b, s}
       PROVE  /\ G[x] \in Rekord /\ G[x].rozmiar = H[x].rozmiar
              /\ G[x].czy_wolny = H[x].czy_wolny /\ G[x].nastepny = H[x].nastepny
              /\ G[x].poprzedni = IF x = po THEN b ELSE H[x].poprzedni
  <2>1. H[x] \in Rekord
    BY <1>10
  <2>2. CASE x = po
    BY <1>3, <1>9, <2>1, <2>2 DEF Rekord
  <2>3. CASE x # po
    BY <1>9, <2>1, <2>3
  <2>4. QED
    BY <2>2, <2>3
<1>13. KoniecBloku(G, b) = e
  BY <1>1, <1>3, <1>4, <1>11 DEF KoniecBloku
<1>14. \A x \in DOMAIN H \ {b, s} : KoniecBloku(G, x) = KoniecBloku(H, x)
  BY <1>12 DEF KoniecBloku
<1> HIDE DEF e
<1>15. ASSUME NEW x \in DOMAIN H \ {b, s} PROVE H[x].nastepny # s
  <2>1. H[x].nastepny # NULLPTR => H[H[x].nastepny].poprzedni = x
    BY Sasiedzi
  <2>2. QED
    BY <1>2, <2>1
<1>16. Blok(P, K, G, b) /\ WPrzod(K, G, b) /\ WTyl(P, G, b)
  <2>1. Wyrownany(G[b].rozmiar) /\ G[b].rozmiar >= MINIMALNY_BLOK_UZYTKOWY
    <3>1. Wyrownany(e - b)
      BY <1>3, <1>4, WyrownaneRazem, e \in Int, b \in Int
    <3>2. Wyrownany((e - b) - NAGLOWEK)
      BY <1>1, <1>3, <1>4, <3>1, WyrownaneRazem, e - b \in Int, NAGLOWEK \in Int
    <3>3. (e - b) - NAGLOWEK = G[b].rozmiar
      BY <1>1, <1>3, <1>4, <1>11
    <3>4. H[b].rozmiar >= MINIMALNY_BLOK_UZYTKOWY
      BY DEF Lad, Blok
    <3>5. QED
      BY <1>1, <1>3, <1>4, <1>11, <3>2, <3>3, <3>4
  <2>2. Blok(P, K, G, b)
    BY <1>3, <1>4, <1>11, <1>13, <2>1 DEF Blok
  <2>3. WPrzod(K, G, b)
    <3>1. CASE po = NULLPTR
      BY <1>5, <1>11, <1>13, <3>1 DEF WPrzod
    <3>2. CASE po # NULLPTR
      <4>1. po \in DOMAIN H \ {b, s} /\ po \in DOMAIN G
        BY <1>5, <1>6, <1>7, <3>2
      <4>2. G[po].poprzedni = b
        BY <1>12, <4>1
      <4>3. QED
        BY <1>5, <1>11, <1>13, <3>2, <4>1, <4>2 DEF WPrzod
    <3>3. QED
      BY <3>1, <3>2
  <2>4. WTyl(P, G, b)
    <3>1. CASE H[b].poprzedni = NULLPTR
      BY <1>2, <1>11, <3>1 DEF WTyl
    <3>2. CASE H[b].poprzedni # NULLPTR
      <4>1. PICK p \in DOMAIN H \ {b, s} : p = H[b].poprzedni /\ H[p].nastepny = b
        BY <1>2, <1>3, <1>4, <3>2
      <4>2. G[p].nastepny = b /\ p \in DOMAIN G
        BY <1>7, <1>12, <4>1
      <4>3. QED
        BY <1>11, <3>2, <4>1, <4>2 DEF WTyl
    <3>3. QED
      BY <3>1, <3>2
  <2>5. QED
    BY <2>2, <2>3, <2>4
<1>17. ASSUME NEW x \in DOMAIN H \ {b, s}
       PROVE  Blok(P, K, G, x) /\ WPrzod(K, G, x) /\ WTyl(P, G, x)
  <2>1. Blok(P, K, H, x) /\ WPrzod(K, H, x) /\ WTyl(P, H, x)
    BY DEF Lad
  <2>2. Blok(P, K, G, x)
    BY <1>12, <1>14, <2>1 DEF Blok
  <2>3. WPrzod(K, G, x)
    <3>1. CASE H[x].nastepny = NULLPTR
      BY <1>12, <1>14, <2>1, <3>1 DEF WPrzod
    <3>2. CASE H[x].nastepny # NULLPTR
      <4>1. PICK y \in DOMAIN H : /\ y = H[x].nastepny /\ y = KoniecBloku(H, x)
                                  /\ H[y].poprzedni = x
        BY <2>1, <3>2 DEF WPrzod
      <4>2. y # s /\ y \in DOMAIN G
        BY <1>7, <1>15, <4>1
      <4>3. G[x].nastepny = y /\ KoniecBloku(G, x) = y
        BY <1>12, <1>14, <4>1
      <4>4. G[y].poprzedni = x
        <5>1. CASE y = b
          BY <1>11, <4>1, <5>1
        <5>2. CASE y # b
          <6>1. y # po
            BY <1>5, <3>2, <4>1
          <6>2. QED
            BY <1>12, <4>1, <4>2, <5>2, <6>1
        <5>3. QED
          BY <5>1, <5>2
      <4>5. QED
        BY <3>2, <4>1, <4>2, <4>3, <4>4 DEF WPrzod
    <3>3. QED
      BY <3>1, <3>2
  <2>4. WTyl(P, G, x)
    <3>1. CASE x = po
      <4>1. G[x].poprzedni = b /\ b \in DOMAIN G /\ G[b].nastepny = x
        BY <1>6, <1>7, <1>11, <1>12, <3>1
      <4>2. QED
        BY <1>3, <4>1 DEF WTyl
    <3>2. CASE x # po /\ H[x].poprzedni = NULLPTR
      BY <1>12, <2>1, <3>2 DEF WTyl
    <3>3. CASE x # po /\ H[x].poprzedni # NULLPTR
      <4>1. PICK y \in DOMAIN H : y = H[x].poprzedni /\ H[y].nastepny = x
        BY <2>1, <3>3 DEF WTyl
      <4>2. y # b /\ y # s
        BY <3>3, <4>1 DEF po
      <4>3. G[x].poprzedni = y /\ y \in DOMAIN G /\ G[y].nastepny = x
        BY <1>7, <1>12, <3>3, <4>1, <4>2
      <4>4. QED
        BY <3>3, <4>1, <4>3 DEF WTyl
    <3>4. QED
      BY <3>1, <3>2, <3>3
  <2>5. QED
    BY <2>2, <2>3, <2>4
<1>18. Rozlaczne(G)
  <2> SUFFICES ASSUME NEW x \in DOMAIN G, NEW y \in DOMAIN G, x < y
               PROVE  KoniecBloku(G, x) <= y
    BY DEF Rozlaczne
  <2>1. x \in DOMAIN H /\ y \in DOMAIN H /\ x # s /\ y # s /\ x \in Nat /\ y \in Nat
    BY <1>7, Granice
  <2>2. CASE x = b
    <3>1. (KoniecBloku(H, y) <= s /\ y < s) \/ (e <= y /\ s < y)
      BY <1>2, <2>1, Obok DEF e
    <3>2. s <= y
      BY <1>2, <2>1, <2>2 DEF Lad, Rozlaczne
    <3>3. QED
      BY <1>4, <1>13, <2>1, <2>2, <3>1, <3>2
  <2>3. CASE x # b
    BY <1>14, <2>1, <2>3 DEF Lad, Rozlaczne
  <2>4. QED
    BY <2>2, <2>3
<1>19. Lad(P, K, G)
  <2>1. P \in DOMAIN G /\ DOMAIN G \subseteq Nat /\ Zakres(P, K)
    BY <1>2, <1>3, <1>7 DEF Lad
  <2>2. \A x \in DOMAIN G : Blok(P, K, G, x) /\ WPrzod(K, G, x) /\ WTyl(P, G, x)
    BY <1>7, <1>16, <1>17
  <2>3. QED
    BY <1>18, <2>1, <2>2 DEF Lad
<1>20. QED
  BY <1>2, <1>6, <1>7, <1>11, <1>12, <1>15, <1>19 DEF po, JakScalenie

(* A call of polacz_z_nastepnym: no busy block changes, and of the pairs   *)
(* of free neighbours the one at b, if there was one, gives way to the one *)
(* behind it.                                                              *)
LEMMA Laczenie ==
  ASSUME StertaZalozenia, NEW P, NEW K, NEW H, Lad(P, K, H), NEW b \in DOMAIN H,
         NEW G, G = polacz_z_nastepnym(H, b)
  PROVE  /\ Lad(P, K, G) /\ b \in DOMAIN G /\ DOMAIN G \subseteq DOMAIN H
         /\ G[b].czy_wolny = H[b].czy_wolny /\ G[b].poprzedni = H[b].poprzedni
         /\ \A x : Zajety(G, x) <=> Zajety(H, x)
         /\ \A x : Zajety(G, x) => G[x].rozmiar = H[x].rozmiar
         /\ \A x \in DOMAIN G : Para(G, x) => \/ x # b /\ Para(H, x)
                                              \/ /\ x = b /\ H[b].nastepny \in DOMAIN H
                                                 /\ Para(H, H[b].nastepny)
<1> DEFINE s == H[b].nastepny
<1>1. s # NULLPTR => s \in DOMAIN H /\ s = KoniecBloku(H, b) /\ H[s].poprzedni = b
  BY Sasiedzi
<1>2. CASE Para(H, b)
  <2>1. s # NULLPTR /\ H[b].czy_wolny /\ H[s].czy_wolny
    BY <1>2 DEF Para
  <2>2. G = Wchloniety(H, b)
    BY <1>1, <2>1 DEF polacz_z_nastepnym
  <2>3. Lad(P, K, G) /\ JakScalenie(H, b, s, G)
    <3>1. s = H[b].nastepny
      OBVIOUS
    <3> HIDE DEF s
    <3>2. QED
      BY <2>1, <2>2, <3>1, Scalenie
  <2> HIDE DEF s
  <2>4. \A x : Zajety(G, x) <=> Zajety(H, x)
    BY <2>1, <2>3 DEF Zajety, JakScalenie
  <2>5. \A x : Zajety(G, x) => G[x].rozmiar = H[x].rozmiar
    BY <2>1, <2>3 DEF Zajety, JakScalenie
  <2>6. ASSUME NEW y \in DOMAIN G PROVE G[y].czy_wolny = H[y].czy_wolny /\ y \in DOMAIN H
    BY <2>3 DEF JakScalenie
  <2>7. ASSUME NEW x \in DOMAIN G, Para(G, x)
        PROVE  (x # b /\ Para(H, x)) \/ (x = b /\ s \in DOMAIN H /\ Para(H, s))
    <3>1. G[x].nastepny # NULLPTR => G[x].nastepny \in DOMAIN G
      BY <2>3, Sasiedzi
    <3>2. /\ G[x].nastepny # NULLPTR /\ G[x].nastepny \in DOMAIN G /\ H[x].czy_wolny
          /\ H[G[x].nastepny].czy_wolny
      BY <2>6, <2>7, <3>1 DEF Para
    <3>3. CASE x = b
      BY <2>1, <2>3, <3>2, <3>3 DEF Para, JakScalenie
    <3>4. CASE x # b
      <4>1. G[x].nastepny = H[x].nastepny
        BY <2>3, <3>4 DEF JakScalenie
      <4>2. QED
        BY <3>2, <3>4, <4>1 DEF Para
    <3>5. QED
      BY <3>3, <3>4
  <2>8. QED
    BY <2>3, <2>4, <2>5, <2>7 DEF s, JakScalenie
<1>3. CASE ~ Para(H, b)
  <2>1. G = H
    BY <1>3 DEF polacz_z_nastepnym, Para
  <2>2. QED
    BY <1>3, <2>1
<1>4. QED
  BY <1>2, <1>3

(* The busy blocks of G are those of H without b, and with b.              *)
BezZajetego(H, b, G) ==
  /\ \A x : Zajety(G, x) <=> Zajety(H, x) /\ x # b
  /\ \A x : Zajety(G, x) => G[x].rozmiar = H[x].rozmiar

ZZajetym(H, b, n, G) ==
  /\ \A x : Zajety(G, x) <=> Zajety(H, x) \/ x = b
  /\ \A x : Zajety(H, x) => G[x].rozmiar = H[x].rozmiar
  /\ G[b].rozmiar >= n

(* kfree of a busy block b.                                                *)
LEMMA Zwolnienie ==
  ASSUME StertaZalozenia, NEW P, NEW K, Lad(P, K, blok), NieObok(blok), NEW b \in DOMAIN blok,
         NEW G, G = Zwolniony(b)
  PROVE  Lad(P, K, G) /\ NieObok(G) /\ BezZajetego(blok, b, G)
<1> DEFINE H1 == [blok EXCEPT ![b].czy_wolny = TRUE]
           H2 == polacz_z_nastepnym(H1, b)
           p == H2[b].poprzedni
<1>1. Lad(P, K, H1) /\ JakZmiana(blok, b, TRUE, H1)
  BY ZmianaStanu
<1> HIDE DEF H1
<1> USE DEF JakZmiana
<1>2. \A x : Zajety(H1, x) <=> Zajety(blok, x) /\ x # b
  BY <1>1 DEF Zajety
<1>3. \A x : Zajety(H1, x) => H1[x].rozmiar = blok[x].rozmiar
  BY <1>1 DEF Zajety
<1>4. b \in DOMAIN H1
  BY <1>1
<1>5. ASSUME NEW x \in DOMAIN H1, Para(H1, x)
      PROVE  x = b \/ (x = H1[b].poprzedni /\ x # NULLPTR)
  <2> SUFFICES ASSUME x # b PROVE x = H1[b].poprzedni /\ x # NULLPTR
    OBVIOUS
  <2>1. H1[x].nastepny # NULLPTR /\ H1[x].czy_wolny /\ H1[H1[x].nastepny].czy_wolny
    BY <1>5 DEF Para
  <2>2. H1[x].nastepny \in DOMAIN H1 /\ H1[H1[x].nastepny].poprzedni = x /\ x # NULLPTR
    BY <1>1, <2>1, Sasiedzi, Granice
  <2>3. H1[x].nastepny = b
    <3> SUFFICES ASSUME H1[x].nastepny # b PROVE FALSE
      OBVIOUS
    <3>1. Para(blok, x)
      BY <1>1, <2>1, <2>2 DEF Para
    <3>2. QED
      BY <1>1, <3>1 DEF NieObok
  <2>4. QED
    BY <2>2, <2>3
<1>6. /\ Lad(P, K, H2) /\ b \in DOMAIN H2 /\ DOMAIN H2 \subseteq DOMAIN H1
      /\ H2[b].czy_wolny = H1[b].czy_wolny /\ H2[b].poprzedni = H1[b].poprzedni
      /\ \A x : Zajety(H2, x) <=> Zajety(H1, x)
      /\ \A x : Zajety(H2, x) => H2[x].rozmiar = H1[x].rozmiar
      /\ \A x \in DOMAIN H2 : Para(H2, x) => \/ x # b /\ Para(H1, x)
                                             \/ /\ x = b /\ H1[b].nastepny \in DOMAIN H1
                                                /\ Para(H1, H1[b].nastepny)
  BY <1>1, <1>4, Laczenie
<1> HIDE DEF H2
<1>7. \A x \in DOMAIN H2 : Para(H2, x) => x = p /\ x # NULLPTR
  <2> SUFFICES ASSUME NEW x \in DOMAIN H2, Para(H2, x) PROVE x = p /\ x # NULLPTR
    OBVIOUS
  <2>1. CASE x # b /\ Para(H1, x)
    BY <1>5, <1>6, <2>1
  <2>2. CASE x = b /\ H1[b].nastepny \in DOMAIN H1 /\ Para(H1, H1[b].nastepny)
    <3> DEFINE s == H1[b].nastepny
    <3>1. s = b \/ s = H1[b].poprzedni
      BY <1>5, <2>2
    <3>2. s # NULLPTR /\ s > b /\ b \in Nat /\ s \in Nat
      BY <1>1, <1>4, <2>2, Sasiedzi, Granice
    <3>3. H1[b].poprzedni # NULLPTR => H1[b].poprzedni < b
      BY <1>1, <1>4, Sasiedzi
    <3>4. QED
      BY <3>1, <3>2, <3>3
  <2>3. QED
    BY <1>6, <2>1, <2>2
<1>8. G = IF p # NULLPTR /\ p \in DOMAIN H2 THEN polacz_z_nastepnym(H2, p) ELSE H2
  BY DEF Zwolniony, H1, H2
<1>9. CASE p = NULLPTR
  <2>1. G = H2
    BY <1>8, <1>9
  <2>2. NieObok(G)
    BY <1>7, <1>9, <2>1 DEF NieObok
  <2>3. QED
    BY <1>2, <1>3, <1>6, <2>1, <2>2 DEF BezZajetego
<1>10. CASE p # NULLPTR
  <2>1. p \in DOMAIN H2 /\ H2[p].nastepny = b /\ p # b
    <3>1. p \in DOMAIN H2 /\ H2[p].nastepny = b /\ p < b
      BY <1>6, <1>10, Sasiedzi
    <3>2. p \in Nat /\ b \in Nat
      BY <1>6, <3>1, Granice
    <3>3. QED
      BY <3>1, <3>2
  <2>2. G = polacz_z_nastepnym(H2, p)
    BY <1>8, <1>10, <2>1
  <2> HIDE DEF p
  <2>3. /\ Lad(P, K, G) /\ DOMAIN G \subseteq DOMAIN H2
        /\ \A x : Zajety(G, x) <=> Zajety(H2, x)
        /\ \A x : Zajety(G, x) => G[x].rozmiar = H2[x].rozmiar
        /\ \A x \in DOMAIN G : Para(G, x) => \/ x # p /\ Para(H2, x)
                                             \/ /\ x = p /\ H2[p].nastepny \in DOMAIN H2
                                                /\ Para(H2, H2[p].nastepny)
    BY <1>6, <2>1, <2>2, Laczenie
  <2>4. NieObok(G)
    BY <1>7, <2>1, <2>3 DEF NieObok
  <2>5. QED
    BY <1>2, <1>3, <1>6, <2>3, <2>4 DEF BezZajetego
<1>11. QED
  BY <1>9, <1>10

(* kmalloc takes the free block b for n bytes.                             *)
LEMMA Przydzial ==
  ASSUME StertaZalozenia, NEW P, NEW K, Lad(P, K, blok), NieObok(blok), NEW b \in DOMAIN blok,
         blok[b].czy_wolny, NEW n \in Nat, n >= MINIMALNY_BLOK_UZYTKOWY, Wyrownany(n),
         blok[b].rozmiar >= n, NEW G, G = [PoPodziale(b, n) EXCEPT ![b].czy_wolny = FALSE]
  PROVE  Lad(P, K, G) /\ NieObok(G) /\ ZZajetym(blok, b, n, G)
<1> DEFINE H == PoPodziale(b, n)
           nowy == b + NAGLOWEK + n
<1>1. /\ Lad(P, K, H) /\ b \in DOMAIN H /\ H[b].czy_wolny
      /\ H[b].rozmiar >= n
      /\ \A x : Zajety(H, x) <=> Zajety(blok, x)
      /\ \A x : Zajety(blok, x) => H[x].rozmiar = blok[x].rozmiar
      /\ \A x \in DOMAIN H : Para(H, x) => x = b \/ H[x].nastepny = b
  <2>1. CASE WartoDzielic(b, n)
    <3>1. H = Podzielony(blok, b, n) /\ nowy = b + NAGLOWEK + n
      BY <2>1 DEF PoPodziale
    <3>2. blok[b].rozmiar - n >= NAGLOWEK + MINIMALNY_BLOK_UZYTKOWY
      BY <2>1 DEF WartoDzielic
    <3> HIDE DEF H, nowy
    <3>3. Lad(P, K, H) /\ JakPodzial(blok, b, n, nowy, H)
      BY <3>1, <3>2, Podzial
    <3> USE DEF JakPodzial
    <3>4. \A x : Zajety(H, x) <=> Zajety(blok, x)
      BY <3>3 DEF Zajety
    <3>5. \A x : Zajety(blok, x) => H[x].rozmiar = blok[x].rozmiar
      BY <3>3 DEF Zajety
    <3>6. ASSUME NEW x \in DOMAIN H, Para(H, x), x # b, H[x].nastepny # b PROVE FALSE
      <4>1. /\ H[x].nastepny # NULLPTR /\ H[x].czy_wolny /\ H[H[x].nastepny].czy_wolny
        BY <3>6 DEF Para
      <4>2. PICK y \in DOMAIN blok : x = y \/ (x = nowy /\ y = b)
        BY <3>3, <3>6
      <4>3. blok[y].nastepny = H[x].nastepny /\ blok[y].czy_wolny
        BY <3>3, <3>6, <4>1, <4>2
      <4>4. H[x].nastepny \in DOMAIN blok
        BY <4>1, <4>3, Sasiedzi
      <4>5. blok[H[x].nastepny].czy_wolny
        BY <3>3, <3>6, <4>1, <4>4
      <4>6. Para(blok, y)
        BY <4>1, <4>3, <4>5 DEF Para
      <4>7. QED
        BY <4>6 DEF NieObok
    <3>7. H[b].rozmiar >= n
      BY <3>3
    <3>8. QED
      BY <3>3, <3>4, <3>5, <3>6, <3>7
  <2>2. CASE ~ WartoDzielic(b, n)
    <3>1. H = blok
      BY <2>2 DEF PoPodziale
    <3>2. QED
      BY <3>1 DEF NieObok
  <2>3. QED
    BY <2>1, <2>2
<1> HIDE DEF H
<1>2. G = [H EXCEPT ![b].czy_wolny = FALSE]
  BY DEF H
<1>3. Lad(P, K, G) /\ JakZmiana(H, b, FALSE, G)
  BY <1>1, <1>2, ZmianaStanu
<1> USE DEF JakZmiana
<1>4. \A x : Zajety(G, x) <=> Zajety(blok, x) \/ x = b
  BY <1>1, <1>3 DEF Zajety
<1>5. \A x : Zajety(blok, x) => G[x].rozmiar = blok[x].rozmiar
  <2> SUFFICES ASSUME NEW x, Zajety(blok, x) PROVE G[x].rozmiar = blok[x].rozmiar
    OBVIOUS
  <2>1. Zajety(H, x) /\ H[x].rozmiar = blok[x].rozmiar
    BY <1>1
  <2>2. x \in DOMAIN H
    BY <2>1 DEF Zajety
  <2>3. QED
    BY <1>3, <2>1, <2>2
<1>6. NieObok(G)
  <2> SUFFICES ASSUME NEW x \in DOMAIN G, Para(G, x) PROVE FALSE
    BY DEF NieObok
  <2>1. G[x].nastepny # NULLPTR /\ G[x].czy_wolny /\ G[G[x].nastepny].czy_wolny
    BY DEF Para
  <2>2. G[x].nastepny \in DOMAIN G
    <3> HIDE DEF JakZmiana
    <3>1. QED
      BY <1>3, <2>1, Sasiedzi
  <2>3. x # b /\ G[x].nastepny # b
    BY <1>3, <2>1, <2>2
  <2>4. Para(H, x)
    BY <1>3, <2>1, <2>2, <2>3 DEF Para
  <2>5. QED
    BY <1>1, <1>3, <2>3, <2>4
<1>7. QED
  BY <1>1, <1>3, <1>4, <1>5, <1>6 DEF ZZajetym

-----------------------------------------------------------------------------
(* The sizes.                                                              *)

LEMMA IlePotrzeba ==
  ASSUME StertaZalozenia, NEW r \in Nat
  PROVE  /\ Potrzebne(r) \in Nat /\ Potrzebne(r) >= r
         /\ Potrzebne(r) >= MINIMALNY_BLOK_UZYTKOWY /\ Wyrownany(Potrzebne(r))
         /\ DaSieWyrownac(r) => wyrownaj_rozmiar(r) = Potrzebne(r)
         /\ ~ DaSieWyrownac(r) => r + NAGLOWEK >= UINT64_MAX
<1>1. /\ MINIMALNY_BLOK_UZYTKOWY \in Nat /\ Wyrownany(MINIMALNY_BLOK_UZYTKOWY)
      /\ WYROWNANIE \in Nat /\ WYROWNANIE > 0 /\ UINT64_MAX \in Nat
      /\ NAGLOWEK \in Nat /\ NAGLOWEK > 0 /\ NAGLOWEK % WYROWNANIE = 0
  BY Stale DEF StertaZalozenia
<1>2. /\ WyrownanyWGore(r) \in Nat /\ r <= WyrownanyWGore(r) /\ Wyrownany(WyrownanyWGore(r))
      /\ WyrownanyWGore(r) = WyrownanyWDol(r + WYROWNANIE - 1)
  BY Zaokraglenie
<1>3. /\ Potrzebne(r) \in Nat /\ Potrzebne(r) >= r
      /\ Potrzebne(r) >= MINIMALNY_BLOK_UZYTKOWY /\ Wyrownany(Potrzebne(r))
  BY <1>1, <1>2 DEF Potrzebne
<1>4. ASSUME DaSieWyrownac(r) PROVE wyrownaj_rozmiar(r) = Potrzebne(r)
  <2>1. r + WYROWNANIE - 1 \in Nat /\ r + WYROWNANIE - 1 < UINT64_MAX + 1
    BY <1>1, <1>4 DEF DaSieWyrownac
  <2>2. (r + WYROWNANIE - 1) % (UINT64_MAX + 1) = r + WYROWNANIE - 1
    BY <1>1, <2>1, ResztaMala, UINT64_MAX + 1 \in Nat, UINT64_MAX + 1 > 0
  <2>3. QED
    BY <1>2, <2>2 DEF wyrownaj_rozmiar, Potrzebne
<1>5. NAGLOWEK >= WYROWNANIE
  <2>1. NAGLOWEK < WYROWNANIE => NAGLOWEK % WYROWNANIE = NAGLOWEK
    BY <1>1, ResztaMala
  <2>2. QED
    BY <1>1, <2>1
<1>6. ~ DaSieWyrownac(r) => r + NAGLOWEK >= UINT64_MAX
  BY <1>1, <1>5 DEF DaSieWyrownac
<1>7. QED
  BY <1>3, <1>4, <1>6

(* A free range of the heap lies in one free block, as two free blocks are *)
(* never neighbours: the first block that begins at or before the range    *)
(* holds it.                                                               *)
LEMMA MiejsceToBlok ==
  ASSUME StertaZalozenia, NEW P, NEW K, Lad(P, K, blok), NieObok(blok),
         NEW n \in Nat, NEW a \in Nat, P <= a, n > 0, a + NAGLOWEK + n <= K,
         (a .. a + NAGLOWEK + n - 1) \cap Zajete = {}
  PROVE  Pasujace(n) # {}
<1> SUFFICES ASSUME Pasujace(n) = {} PROVE FALSE
  OBVIOUS
<1>1. NAGLOWEK \in Nat /\ NAGLOWEK > 0
  BY Stale
<1>2. P \in Nat /\ K \in Nat /\ P \in DOMAIN blok
  BY DEF Lad, Zakres
<1>3. \A x \in DOMAIN blok : x \in Nat
  BY DEF Lad
<1> DEFINE T == { x \in DOMAIN blok : x <= a }
<1>4. PICK b \in T : \A y \in T : b >= y
  <2>1. T \subseteq 0 .. a /\ T # {}
    BY <1>2, <1>3
  <2> HIDE DEF T
  <2>2. QED
    BY <2>1, JestNajwieksza
<1>5. b \in DOMAIN blok /\ b <= a /\ \A y \in DOMAIN blok : y <= a => b >= y
  BY <1>4
<1> HIDE DEF T
<1> DEFINE e == KoniecBloku(blok, b)
           s == blok[b].nastepny
<1>6. /\ b \in Nat /\ blok[b].rozmiar \in Nat /\ blok[b].czy_wolny \in BOOLEAN
      /\ e \in Nat /\ e = b + NAGLOWEK + blok[b].rozmiar /\ e <= K
  BY <1>5, Granice
<1>7. /\ s # NULLPTR => s \in DOMAIN blok /\ s > b /\ s = e
      /\ s = NULLPTR => e = K
  BY <1>5, Sasiedzi
<1> HIDE DEF e, s
<1>8. e > a
  <2> SUFFICES ASSUME e <= a PROVE FALSE
    BY <1>6
  <2>1. e # K
    BY <1>1, <1>2, <1>6
  <2>2. s \in DOMAIN blok /\ s > b /\ s <= a
    BY <1>7, <2>1
  <2>3. QED
    BY <1>3, <1>5, <1>6, <2>2
<1>9. ASSUME NEW c \in DOMAIN blok, NEW x \in a .. a + NAGLOWEK + n - 1,
             c <= x, x < KoniecBloku(blok, c)
      PROVE  blok[c].czy_wolny
  <2> SUFFICES ASSUME ~ blok[c].czy_wolny PROVE FALSE
    OBVIOUS
  <2>1. c \in Nat /\ KoniecBloku(blok, c) \in Nat /\ x \in Int
    BY Granice
  <2>2. x \in c .. KoniecBloku(blok, c) - 1
    BY <1>9, <2>1
  <2>3. x \in Zajete
    BY <2>2 DEF Zajete, Naglowki
  <2>4. QED
    BY <2>3
<1>10. blok[b].czy_wolny
  <2>1. a \in a .. a + NAGLOWEK + n - 1
    BY <1>1
  <2>2. QED
    BY <1>5, <1>8, <1>9, <2>1 DEF e
<1>11. blok[b].rozmiar < n
  BY <1>5, <1>6, <1>10 DEF Pasujace, Naglowki
<1>12. e < a + NAGLOWEK + n /\ e # K
  BY <1>1, <1>2, <1>5, <1>6, <1>11
<1>13. s \in DOMAIN blok /\ s = e /\ s # NULLPTR
  BY <1>7, <1>12
<1>14. blok[s].czy_wolny
  <2>1. s \in a .. a + NAGLOWEK + n - 1
    BY <1>1, <1>6, <1>8, <1>12, <1>13
  <2>2. s < KoniecBloku(blok, s) /\ s <= s
    <3>1. s \in Nat /\ s + NAGLOWEK + MINIMALNY_BLOK_UZYTKOWY <= KoniecBloku(blok, s)
          /\ KoniecBloku(blok, s) \in Nat /\ MINIMALNY_BLOK_UZYTKOWY \in Nat
      BY <1>13, Granice, Stale
    <3>2. QED
      BY <1>1, <3>1
  <2>3. QED
    BY <1>9, <1>13, <2>1, <2>2
<1>15. Para(blok, b)
  BY <1>10, <1>13, <1>14 DEF Para, s
<1>16. QED
  BY <1>5, <1>15 DEF NieObok

-----------------------------------------------------------------------------
(* The inductive invariant: before the boot gives the heap its area there  *)
(* is nothing; afterwards the list is sound and has no free neighbours.    *)

TypSterty ==
  /\ \A w \in DOMAIN uzywane : w \in Nat /\ uzywane[w] \in Nat
  /\ wynik_kmalloc.rozmiar \in Nat

StanListy ==
  IF poczatek_sterty = NULLPTR THEN DOMAIN blok = {} /\ DOMAIN uzywane = {}
  ELSE /\ Lad(poczatek_sterty, koniec_sterty, blok) /\ NieObok(blok)
       /\ koniec_sterty <= UINT64_MAX

InwSterty == TypSterty /\ StanListy /\ KazdyBlokMaWlasciciela /\ OdmowaTylkoBezMiejsca

LEMMA InwStertyPoczatek ==
  ASSUME StertaZalozenia, StertaInit PROVE InwSterty
BY DEF StertaInit, InwSterty, TypSterty, StanListy, KazdyBlokMaWlasciciela, OdmowaTylkoBezMiejsca,
       BEZ_WYNIKU, NULLPTR, Naglowki

(* A pointer to the data of a block is aligned.                            *)
LEMMA WskaznikWyrownany ==
  ASSUME StertaZalozenia, NEW P, NEW K, NEW H, Lad(P, K, H), NEW w \in Nat,
         w - NAGLOWEK \in DOMAIN H
  PROVE  Wyrownany(w)
<1>1. w - NAGLOWEK \in Nat /\ Wyrownany(w - NAGLOWEK)
  BY Granice
<1>2. NAGLOWEK \in Int /\ Wyrownany(NAGLOWEK) /\ w \in Int /\ w - NAGLOWEK \in Int
  BY <1>1, Stale
<1>3. Wyrownany((w - NAGLOWEK) + NAGLOWEK)
  BY <1>1, <1>2, WyrownaneRazem
<1>4. (w - NAGLOWEK) + NAGLOWEK = w
  BY <1>2
<1>5. QED
  BY <1>3, <1>4

(* The boot.                                                               *)
LEMMA PoStarcie ==
  ASSUME StertaZalozenia, InwSterty, NEW o \in Obszary, inicjalizuj_sterte_jadra(o)
  PROVE  InwSterty'
<1> DEFINE poczatek == WyrownanyWGore(o.adres)
           koniec == WyrownanyWDol(o.adres + o.rozmiar)
<1>1. DOMAIN blok = {} /\ DOMAIN uzywane = {} /\ poczatek_sterty = NULLPTR
  BY DEF InwSterty, StanListy, inicjalizuj_sterte_jadra
<1>2. wynik_kmalloc' = BEZ_WYNIKU /\ uzywane' = uzywane
  BY DEF inicjalizuj_sterte_jadra
<1>3. TypSterty'
  BY <1>1, <1>2 DEF TypSterty, BEZ_WYNIKU
<1>4. OdmowaTylkoBezMiejsca'
  BY <1>2 DEF OdmowaTylkoBezMiejsca, BEZ_WYNIKU
<1>5. CASE UNCHANGED <<zakres, blok>>
  BY <1>1, <1>2, <1>3, <1>4, <1>5
     DEF InwSterty, StanListy, KazdyBlokMaWlasciciela, Naglowki, zakres
<1>6. CASE ~ UNCHANGED <<zakres, blok>>
  <2>1. /\ poczatek_sterty' = poczatek /\ koniec_sterty' = koniec
        /\ blok' = [b \in {poczatek} |->
                      [rozmiar |-> koniec - poczatek - NAGLOWEK, czy_wolny |-> TRUE,
                       nastepny |-> NULLPTR, poprzedni |-> NULLPTR]]
        /\ o.adres # NULLPTR
        /\ ~ (koniec - poczatek < NAGLOWEK + MINIMALNY_BLOK_UZYTKOWY)
    BY <1>6 DEF inicjalizuj_sterte_jadra
  <2>2. o.adres \in Nat /\ o.rozmiar \in Nat /\ o.adres + o.rozmiar <= UINT64_MAX
        /\ UINT64_MAX \in Nat
    BY DEF StertaZalozenia
  <2>3. /\ poczatek \in Nat /\ o.adres <= poczatek /\ Wyrownany(poczatek)
        /\ koniec \in Nat /\ koniec <= o.adres + o.rozmiar /\ Wyrownany(koniec)
    BY <2>2, Zaokraglenie, o.adres + o.rozmiar \in Nat
  <2>4. /\ NAGLOWEK \in Nat /\ NAGLOWEK > 0 /\ Wyrownany(NAGLOWEK)
        /\ MINIMALNY_BLOK_UZYTKOWY \in Nat /\ MINIMALNY_BLOK_UZYTKOWY > 0
    BY Stale
  <2> DEFINE R == koniec - poczatek - NAGLOWEK
  <2> HIDE DEF poczatek, koniec
  <2>5. /\ R \in Nat /\ R >= MINIMALNY_BLOK_UZYTKOWY
        /\ poczatek # NULLPTR /\ koniec <= UINT64_MAX
    BY <2>1, <2>2, <2>3, <2>4 DEF NULLPTR
  <2>6. Wyrownany(R)
    <3>1. Wyrownany(koniec - poczatek)
      BY <2>3, WyrownaneRazem, koniec \in Int, poczatek \in Int
    <3>2. QED
      BY <2>3, <2>4, <3>1, WyrownaneRazem, koniec - poczatek \in Int, NAGLOWEK \in Int
  <2>7. /\ DOMAIN blok' = {poczatek} /\ blok'[poczatek] \in Rekord
        /\ blok'[poczatek].rozmiar = R /\ blok'[poczatek].czy_wolny = TRUE
        /\ blok'[poczatek].nastepny = NULLPTR /\ blok'[poczatek].poprzedni = NULLPTR
    BY <2>1, <2>5 DEF Rekord, NULLPTR
  <2> HIDE DEF R
  <2>8. KoniecBloku(blok', poczatek) = koniec
    BY <2>3, <2>4, <2>7 DEF KoniecBloku, R
  <2>9. /\ Blok(poczatek, koniec, blok', poczatek) /\ WPrzod(koniec, blok', poczatek)
        /\ WTyl(poczatek, blok', poczatek)
    BY <2>3, <2>5, <2>6, <2>7, <2>8 DEF Blok, WPrzod, WTyl
  <2>10. Rozlaczne(blok')
    BY <2>3, <2>7 DEF Rozlaczne
  <2>11. Lad(poczatek, koniec, blok')
    BY <2>3, <2>5, <2>7, <2>9, <2>10 DEF Lad, Zakres
  <2>12. NieObok(blok')
    BY <2>7 DEF NieObok, Para
  <2>13. StanListy'
    BY <2>1, <2>5, <2>11, <2>12 DEF StanListy
  <2>14. KazdyBlokMaWlasciciela'
    BY <1>1, <1>2, <2>7 DEF KazdyBlokMaWlasciciela, Naglowki
  <2>15. QED
    BY <1>3, <1>4, <2>13, <2>14 DEF InwSterty
<1>7. QED
  BY <1>5, <1>6

(* An allocation.                                                          *)
LEMMA PoPrzydziale ==
  ASSUME StertaZalozenia, InwSterty, NEW r \in Nat, kmalloc(r)
  PROVE  InwSterty'
<1> DEFINE n == wyrownaj_rozmiar(r)
           Odmowa == r = 0 \/ ~ lista_sterty_poprawna \/ ~ DaSieWyrownac(r) \/ Pasujace(n) = {}
<1>1. poczatek_sterty' = poczatek_sterty /\ koniec_sterty' = koniec_sterty
  BY DEF kmalloc, zakres
<1>2. TypSterty /\ StanListy /\ KazdyBlokMaWlasciciela
  BY DEF InwSterty
<1>3. /\ Potrzebne(r) \in Nat /\ Potrzebne(r) >= r
      /\ Potrzebne(r) >= MINIMALNY_BLOK_UZYTKOWY /\ Wyrownany(Potrzebne(r))
      /\ DaSieWyrownac(r) => n = Potrzebne(r)
      /\ ~ DaSieWyrownac(r) => r + NAGLOWEK >= UINT64_MAX
  BY IlePotrzeba
<1>4. CASE Odmowa
  <2>1. wynik_kmalloc' = [rozmiar |-> r, adres |-> NULLPTR] /\ blok' = blok /\ uzywane' = uzywane
    BY <1>4 DEF kmalloc
  <2>2. TypSterty' /\ StanListy'
    BY <1>1, <1>2, <2>1 DEF TypSterty, StanListy
  <2>3. KazdyBlokMaWlasciciela'
    BY <1>2, <2>1 DEF KazdyBlokMaWlasciciela, Naglowki
  <2>4. OdmowaTylkoBezMiejsca'
    <3>1. ASSUME r > 0, poczatek_sterty # NULLPTR, NEW a \in poczatek_sterty .. koniec_sterty,
                 a + NAGLOWEK + Potrzebne(r) <= koniec_sterty,
                 (a .. a + NAGLOWEK + Potrzebne(r) - 1) \cap Zajete = {}
          PROVE  FALSE
      <4>1. /\ Lad(poczatek_sterty, koniec_sterty, blok) /\ NieObok(blok)
            /\ koniec_sterty <= UINT64_MAX
        BY <3>1, <1>2 DEF StanListy
      <4>2. /\ poczatek_sterty \in Nat /\ koniec_sterty \in Nat /\ poczatek_sterty > 0
            /\ NAGLOWEK \in Nat /\ UINT64_MAX \in Nat
        BY <3>1, <4>1 DEF Lad, Zakres, NULLPTR, StertaZalozenia
      <4>3. lista_sterty_poprawna
        BY <4>1, Walidator
      <4>4. a \in Nat /\ poczatek_sterty <= a
        BY <3>1, <4>2
      <4>5. DaSieWyrownac(r)
        BY <3>1, <1>3, <4>1, <4>2, <4>4
      <4>6. Pasujace(Potrzebne(r)) = {}
        BY <3>1, <1>3, <1>4, <4>3, <4>5
      <4>7. Potrzebne(r) > 0
        BY <3>1, <1>3
      <4>8. QED
        BY <3>1, <1>3, <4>1, <4>4, <4>6, <4>7, MiejsceToBlok
    <3>2. Zajete' = Zajete
      BY <2>1 DEF Zajete, Naglowki, KoniecBloku
    <3>3. wynik_kmalloc'.rozmiar = r /\ wynik_kmalloc'.adres = NULLPTR
      BY <2>1
    <3> HIDE DEF n, Odmowa
    <3>4. QED
      BY <1>1, <3>1, <3>2, <3>3 DEF OdmowaTylkoBezMiejsca
  <2>5. QED
    BY <2>2, <2>3, <2>4 DEF InwSterty
<1>5. CASE ~ Odmowa
  <2>1. PICK b \in Pasujace(n) :
          /\ blok' = [PoPodziale(b, n) EXCEPT ![b].czy_wolny = FALSE]
          /\ uzywane' = Dopisane(uzywane, b + NAGLOWEK, r)
          /\ wynik_kmalloc' = [rozmiar |-> r, adres |-> b + NAGLOWEK]
    BY <1>5 DEF kmalloc
  <2>2. /\ b \in DOMAIN blok /\ blok[b].czy_wolny /\ blok[b].rozmiar >= n
    BY DEF Pasujace, Naglowki
  <2>3. /\ Lad(poczatek_sterty, koniec_sterty, blok) /\ NieObok(blok)
        /\ koniec_sterty <= UINT64_MAX /\ poczatek_sterty # NULLPTR
    BY <1>2, <2>2 DEF StanListy
  <2>4. n \in Nat /\ n >= MINIMALNY_BLOK_UZYTKOWY /\ Wyrownany(n) /\ n >= r
    BY <1>3, <1>5
  <2> HIDE DEF n
  <2>5. /\ Lad(poczatek_sterty, koniec_sterty, blok') /\ NieObok(blok')
        /\ ZZajetym(blok, b, n, blok')
    BY <2>1, <2>2, <2>3, <2>4, Przydzial
  <2> USE DEF ZZajetym
  <2>6. StanListy'
    BY <1>1, <2>3, <2>5 DEF StanListy
  <2>7. b \in Nat /\ NAGLOWEK \in Nat /\ NAGLOWEK > 0 /\ b + NAGLOWEK # NULLPTR
        /\ blok'[b].rozmiar \in Nat
    <3>1. b \in Nat /\ NAGLOWEK \in Nat /\ NAGLOWEK > 0
      BY <2>2, <2>3, Granice, Stale
    <3>2. b \in DOMAIN blok'
      BY <2>5 DEF Zajety
    <3>3. blok'[b].rozmiar \in Nat
      BY <2>5, <3>2, Granice
    <3>4. QED
      BY <3>1, <3>3 DEF NULLPTR
  <2>8. /\ DOMAIN uzywane' = DOMAIN uzywane \cup {b + NAGLOWEK}
        /\ \A w \in DOMAIN uzywane' : uzywane'[w] = IF w = b + NAGLOWEK THEN r ELSE uzywane[w]
    BY <2>1 DEF Dopisane
  <2>9. TypSterty'
    <3>1. wynik_kmalloc'.rozmiar = r
      BY <2>1
    <3>2. QED
      BY <1>2, <2>7, <2>8, <3>1 DEF TypSterty
  <2>10. KazdyBlokMaWlasciciela'
    <3>1. /\ \A w \in DOMAIN uzywane : /\ Zajety(blok, w - NAGLOWEK)
                                       /\ uzywane[w] <= blok[w - NAGLOWEK].rozmiar
          /\ \A c : Zajety(blok, c) => c + NAGLOWEK \in DOMAIN uzywane
      BY <1>2 DEF KazdyBlokMaWlasciciela, Zajety, Naglowki
    <3>2. ASSUME NEW w \in DOMAIN uzywane'
          PROVE  Zajety(blok', w - NAGLOWEK) /\ uzywane'[w] <= blok'[w - NAGLOWEK].rozmiar
      <4>1. CASE w = b + NAGLOWEK
        <5>1. w - NAGLOWEK = b
          BY <2>7, <4>1
        <5>2. r <= blok'[b].rozmiar
          BY <2>4, <2>5, <2>7
        <5>3. QED
          BY <2>5, <2>8, <4>1, <5>1, <5>2
      <4>2. CASE w # b + NAGLOWEK
        BY <2>5, <2>8, <3>1, <4>2
      <4>3. QED
        BY <4>1, <4>2
    <3>3. \A c : Zajety(blok', c) => c + NAGLOWEK \in DOMAIN uzywane'
      BY <2>5, <2>8, <3>1
    <3>4. QED
      <4>1. ASSUME NEW w \in DOMAIN uzywane' PROVE Wyrownany(w)
        <5>1. w \in Nat
          BY <2>9 DEF TypSterty
        <5>2. w - NAGLOWEK \in DOMAIN blok'
          BY <3>2 DEF Zajety
        <5>3. QED
          BY <2>5, <5>1, <5>2, WskaznikWyrownany
      <4>2. QED
        BY <3>2, <3>3, <4>1 DEF KazdyBlokMaWlasciciela, Zajety, Naglowki
  <2>11. OdmowaTylkoBezMiejsca'
    BY <2>1, <2>7 DEF OdmowaTylkoBezMiejsca
  <2>12. QED
    BY <2>6, <2>9, <2>10, <2>11 DEF InwSterty
<1>6. QED
  BY <1>4, <1>5

(* A call of kfree, with a pointer of whatever value.                      *)
LEMMA PoZwolnieniu ==
  ASSUME StertaZalozenia, InwSterty, NEW w \in Nat, kfree(w)
  PROVE  InwSterty'
<1>1. /\ poczatek_sterty' = poczatek_sterty /\ koniec_sterty' = koniec_sterty
      /\ wynik_kmalloc' = BEZ_WYNIKU
      /\ uzywane' = Restrict(uzywane, DOMAIN uzywane \ {w})
  BY DEF kfree, zakres
<1>2. TypSterty /\ StanListy /\ KazdyBlokMaWlasciciela
  BY DEF InwSterty
<1>3. /\ DOMAIN uzywane' = DOMAIN uzywane \ {w}
      /\ \A v \in DOMAIN uzywane' : uzywane'[v] = uzywane[v]
  BY <1>1 DEF Restrict
<1>4. TypSterty'
  BY <1>1, <1>2, <1>3 DEF TypSterty, BEZ_WYNIKU
<1>5. OdmowaTylkoBezMiejsca'
  BY <1>1 DEF OdmowaTylkoBezMiejsca, BEZ_WYNIKU
<1>6. /\ \A v \in DOMAIN uzywane : /\ Zajety(blok, v - NAGLOWEK)
                                   /\ uzywane[v] <= blok[v - NAGLOWEK].rozmiar
      /\ \A c : Zajety(blok, c) => c + NAGLOWEK \in DOMAIN uzywane
  BY <1>2 DEF KazdyBlokMaWlasciciela, Zajety, Naglowki
<1>7. CASE poczatek_sterty = NULLPTR
  <2>1. DOMAIN blok = {} /\ DOMAIN uzywane = {}
    BY <1>2, <1>7 DEF StanListy
  <2>2. blok' = blok
    BY <1>7 DEF kfree, lista_sterty_poprawna, sterta_ma_poprawny_zakres
  <2>3. StanListy' /\ KazdyBlokMaWlasciciela'
    BY <1>1, <1>3, <1>7, <2>1, <2>2 DEF StanListy, KazdyBlokMaWlasciciela, Naglowki
  <2>4. QED
    BY <1>4, <1>5, <2>3 DEF InwSterty
<1>8. CASE poczatek_sterty # NULLPTR
  <2> DEFINE b == w - NAGLOWEK
  <2>1. /\ Lad(poczatek_sterty, koniec_sterty, blok) /\ NieObok(blok)
        /\ koniec_sterty <= UINT64_MAX
    BY <1>2, <1>8 DEF StanListy
  <2>2. lista_sterty_poprawna
    BY <2>1, Walidator
  <2>3. NAGLOWEK \in Nat /\ NAGLOWEK > 0 /\ b \in Int /\ b + NAGLOWEK = w
    BY Stale
  <2>4. \A c \in DOMAIN blok : c \in Nat
    BY <2>1 DEF Lad
  <2>5. Zajety(blok, b) => w # NULLPTR
    BY <2>3, <2>4 DEF Zajety, NULLPTR
  <2>6. /\ Lad(poczatek_sterty, koniec_sterty, blok') /\ NieObok(blok')
        /\ BezZajetego(blok, b, blok')
    <3>1. CASE Zajety(blok, b)
      <4>1. blok' = Zwolniony(b) /\ b \in DOMAIN blok
        BY <2>2, <2>5, <3>1 DEF kfree, MoznaZwolnic, Zajety, Naglowki
      <4> HIDE DEF b
      <4>2. QED
        BY <2>1, <4>1, Zwolnienie
    <3>2. CASE ~ Zajety(blok, b)
      <4>1. blok' = blok
        BY <3>2 DEF kfree, MoznaZwolnic, Zajety, Naglowki
      <4>2. BezZajetego(blok, b, blok')
        BY <3>2, <4>1 DEF BezZajetego
      <4>3. QED
        BY <2>1, <4>1, <4>2
    <3>3. QED
      BY <3>1, <3>2
  <2>7. StanListy'
    BY <1>1, <1>8, <2>1, <2>6 DEF StanListy
  <2>8. ASSUME NEW v \in DOMAIN uzywane'
        PROVE  /\ Zajety(blok', v - NAGLOWEK) /\ uzywane'[v] <= blok'[v - NAGLOWEK].rozmiar
               /\ Wyrownany(v)
    <3>1. v \in DOMAIN uzywane /\ v # w /\ v \in Nat
      BY <1>2, <1>3 DEF TypSterty
    <3>2. v - NAGLOWEK # b
      BY <2>3, <3>1
    <3>3. Zajety(blok', v - NAGLOWEK)
      BY <1>6, <2>6, <3>1, <3>2 DEF BezZajetego
    <3>4. uzywane'[v] <= blok'[v - NAGLOWEK].rozmiar
      BY <1>3, <1>6, <2>6, <3>1, <3>3 DEF BezZajetego
    <3>5. v - NAGLOWEK \in DOMAIN blok'
      BY <3>3 DEF Zajety
    <3>6. Wyrownany(v)
      BY <2>6, <3>1, <3>5, WskaznikWyrownany
    <3>7. QED
      BY <3>3, <3>4, <3>6
  <2>9. ASSUME NEW c, Zajety(blok', c) PROVE c + NAGLOWEK \in DOMAIN uzywane'
    <3>1. Zajety(blok, c) /\ c # b
      BY <2>6, <2>9 DEF BezZajetego
    <3>2. c + NAGLOWEK \in DOMAIN uzywane /\ c \in Nat
      BY <1>6, <2>4, <3>1 DEF Zajety
    <3>3. c + NAGLOWEK # w
      BY <2>3, <3>1, <3>2
    <3>4. QED
      BY <1>3, <3>2, <3>3
  <2>10. KazdyBlokMaWlasciciela'
    BY <2>8, <2>9 DEF KazdyBlokMaWlasciciela, Zajety, Naglowki
  <2>11. QED
    BY <1>4, <1>5, <2>7, <2>10 DEF InwSterty
<1>9. QED
  BY <1>7, <1>8

LEMMA InwStertyKrok ==
  ASSUME StertaZalozenia, InwSterty, [StertaNext]_sterta PROVE InwSterty'
<1>1. ASSUME NEW o \in Obszary, inicjalizuj_sterte_jadra(o) PROVE InwSterty'
  BY <1>1, PoStarcie
<1>2. ASSUME NEW r \in Rozmiary, kmalloc(r) PROVE InwSterty'
  <2>1. r \in Nat
    BY DEF StertaZalozenia
  <2>2. QED
    BY <1>2, <2>1, PoPrzydziale
<1>3. ASSUME NEW r \in Rozmiary, operator_new(r) PROVE InwSterty'
  <2> DEFINE q == IF r = 0 THEN 1 ELSE r
  <2>1. kmalloc(q)
    BY <1>3 DEF operator_new
  <2>2. q \in Nat
    BY DEF StertaZalozenia
  <2> HIDE DEF q
  <2>3. QED
    BY <2>1, <2>2, PoPrzydziale
<1>4. ASSUME NEW w \in Wskazniki, kfree(w) PROVE InwSterty'
  <2>1. w \in Nat
    BY DEF StertaZalozenia
  <2>2. QED
    BY <1>4, <2>1, PoZwolnieniu
<1>5. CASE UNCHANGED sterta
  <2>1. /\ poczatek_sterty' = poczatek_sterty /\ koniec_sterty' = koniec_sterty
        /\ blok' = blok /\ uzywane' = uzywane /\ wynik_kmalloc' = wynik_kmalloc
    BY <1>5 DEF sterta, zakres
  <2>2. QED
    BY <2>1 DEF InwSterty, TypSterty, StanListy, KazdyBlokMaWlasciciela, OdmowaTylkoBezMiejsca,
                Zajete, Naglowki, KoniecBloku
<1>6. QED
  BY <1>1, <1>2, <1>3, <1>4, <1>5 DEF StertaNext

LEMMA InwStertyDajeListe ==
  ASSUME StertaZalozenia, InwSterty PROVE ListaSpojna
<1>1. CASE poczatek_sterty = NULLPTR
  BY <1>1 DEF InwSterty, StanListy, ListaSpojna, Naglowki
<1>2. CASE poczatek_sterty # NULLPTR
  <2>1. Lad(poczatek_sterty, koniec_sterty, blok) /\ NieObok(blok)
    BY <1>2 DEF InwSterty, StanListy
  <2>2. ASSUME NEW b \in DOMAIN blok
        PROVE  /\ BlokPoprawny(blok, b) /\ OgniwoPoprawne(blok, b)
               /\ IF blok[b].poprzedni = NULLPTR THEN b = poczatek_sterty
                  ELSE /\ blok[b].poprzedni \in DOMAIN blok
                       /\ blok[blok[b].poprzedni].nastepny = b
                       /\ ~ (blok[b].czy_wolny /\ blok[blok[b].poprzedni].czy_wolny)
    <3>1. BlokPoprawny(blok, b) /\ OgniwoPoprawne(blok, b)
      BY <2>1, NaglowekPoprawny
    <3>2. /\ blok[b].poprzedni # NULLPTR => /\ blok[b].poprzedni \in DOMAIN blok
                                         /\ blok[blok[b].poprzedni].nastepny = b
          /\ blok[b].poprzedni = NULLPTR <=> b = poczatek_sterty
      BY <2>1, Sasiedzi
    <3>3. b # NULLPTR
      BY <2>1, Granice
    <3>4. QED
      BY <2>1, <3>1, <3>2, <3>3 DEF NieObok, Para
  <2>3. \A b, c \in DOMAIN blok : b < c => KoniecBloku(blok, b) <= c
    BY <2>1 DEF Lad, Rozlaczne
  <2>4. poczatek_sterty \in DOMAIN blok /\ lista_sterty_poprawna
    BY <2>1, Walidator DEF Lad
  <2>5. QED
    BY <2>2, <2>3, <2>4 DEF ListaSpojna, Naglowki
<1>3. QED
  BY <1>1, <1>2

-----------------------------------------------------------------------------
(* The theorems.                                                           *)

(* Whatever is allocated and freed, in whatever order and with whatever    *)
(* pointers, the list of blocks stays sound, no two free blocks lie side   *)
(* by side, and the validator that guards every call (heap.cpp 245-332)    *)
(* accepts the list: its limit on the number of blocks is never reached.   *)
THEOREM ListaPozostajeSpojna == StertaZalozenia => (StertaSpec => []ListaSpojna)
<1> SUFFICES ASSUME StertaZalozenia PROVE StertaSpec => []ListaSpojna
  OBVIOUS
<1>1. StertaInit => InwSterty
  BY InwStertyPoczatek
<1>2. InwSterty /\ [StertaNext]_sterta => InwSterty'
  BY InwStertyKrok
<1>3. InwSterty => ListaSpojna
  BY InwStertyDajeListe
<1>4. QED
  BY <1>1, <1>2, <1>3, PTL DEF StertaSpec

(* Pointers in use and busy blocks correspond one to one, and each block   *)
(* holds what was asked for: kfree (heap.cpp 776-789) of a pointer that is *)
(* no longer, or never was, in use changes nothing.                        *)
THEOREM WlascicielJestJeden == StertaZalozenia => (StertaSpec => []KazdyBlokMaWlasciciela)
<1> SUFFICES ASSUME StertaZalozenia PROVE StertaSpec => []KazdyBlokMaWlasciciela
  OBVIOUS
<1>1. StertaInit => InwSterty
  BY InwStertyPoczatek
<1>2. InwSterty /\ [StertaNext]_sterta => InwSterty'
  BY InwStertyKrok
<1>3. InwSterty => KazdyBlokMaWlasciciela
  BY DEF InwSterty
<1>4. QED
  BY <1>1, <1>2, <1>3, PTL DEF StertaSpec

(* kmalloc refuses a request only if no free range of the heap could hold  *)
(* it: the merges of kfree (heap.cpp 791-814) leave no free range in two   *)
(* pieces, and the check of wyrownaj_rozmiar against overflow refuses only *)
(* what could not fit anyway.                                              *)
THEOREM OdmowaJestUzasadniona == StertaZalozenia => (StertaSpec => []OdmowaTylkoBezMiejsca)
<1> SUFFICES ASSUME StertaZalozenia PROVE StertaSpec => []OdmowaTylkoBezMiejsca
  OBVIOUS
<1>1. StertaInit => InwSterty
  BY InwStertyPoczatek
<1>2. InwSterty /\ [StertaNext]_sterta => InwSterty'
  BY InwStertyKrok
<1>3. InwSterty => OdmowaTylkoBezMiejsca
  BY DEF InwSterty
<1>4. QED
  BY <1>1, <1>2, <1>3, PTL DEF StertaSpec

=============================================================================
