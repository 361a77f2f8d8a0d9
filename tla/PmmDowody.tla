------------------------------ MODULE PmmDowody ------------------------------
(***************************************************************************)
(* Proofs about module Pmm, for every frame size, every number of frames,  *)
(* every memory map and every set of reserved ranges.                      *)
(***************************************************************************)
EXTENDS Pmm, Lematy, TLAPS

(* Division rounds down: a quotient stays below a bound the dividend keeps.*)
LEMMA IlorazPonizej ==
  ASSUME NEW a \in Nat, NEW d \in Nat, d > 0, NEW m \in Nat, a <= m * d
  PROVE  a \div d \in Nat /\ a \div d <= m
<1>1. PICK q \in Int, r \in 0 .. d - 1 : a = q * d + r /\ a \div d = q
  OBVIOUS
<1>2. q >= 0
  <2>1. ASSUME q <= -1 PROVE FALSE
    <3>1. q * d <= (-1) * d
      BY <2>1
    <3>2. QED
      BY <1>1, <3>1
  <2>2. QED
    BY <2>1
<1>3. q <= m
  <2>1. ASSUME q >= m + 1 PROVE FALSE
    <3>1. q * d >= (m + 1) * d
      BY <2>1
    <3>2. (m + 1) * d = m * d + d
      OBVIOUS
    <3>3. QED
      BY <1>1, <3>1, <3>2
  <2>2. QED
    BY <2>1
<1>4. QED
  BY <1>1, <1>2, <1>3

(* Rounding a multiple of the frame size up changes nothing.               *)
LEMMA WielokrotnoscWGore ==
  ASSUME NEW d \in Nat, d > 0, NEW m \in Nat
  PROVE  (m * d + d - 1) \div d = m
<1>1. m * d + d - 1 \in Int /\ m * d \in Int
  OBVIOUS
<1>2. PICK q \in Int, r \in 0 .. d - 1 : m * d + d - 1 = q * d + r /\ (m * d + d - 1) \div d = q
  BY <1>1
<1>3. q * d <= m * d + d - 1 /\ q * d >= m * d
  BY <1>1, <1>2
<1>4. q <= m
  <2>1. ASSUME q >= m + 1 PROVE FALSE
    <3>1. q * d >= (m + 1) * d
      BY <2>1
    <3>2. (m + 1) * d = m * d + d
      OBVIOUS
    <3>3. QED
      BY <1>1, <1>3, <3>1, <3>2
  <2>2. QED
    BY <2>1
<1>5. q >= m
  <2>1. ASSUME q <= m - 1 PROVE FALSE
    <3>1. q * d <= (m - 1) * d
      BY <2>1
    <3>2. (m - 1) * d = m * d - d
      OBVIOUS
    <3>3. QED
      BY <1>1, <1>3, <3>1, <3>2
  <2>2. QED
    BY <2>1
<1>6. QED
  BY <1>2, <1>4, <1>5

(* Every range the memory map names becomes frames of the bitmap.          *)
LEMMA ZakresWMapie ==
  ASSUME NEW z, z.poczatek \in Nat, z.dlugosc \in Nat
  PROVE  dodaj_dostepny_zakres(z) \subseteq Ramki
<1> USE PmmZalozenia DEF PmmZalozenia
<1>1. CASE z.dlugosc = 0 \/ z.poczatek >= MAKS_ADRES
  BY <1>1 DEF dodaj_dostepny_zakres
<1>2. CASE ~ (z.dlugosc = 0 \/ z.poczatek >= MAKS_ADRES)
  <2>0. MAKS_ADRES \in Nat
    BY DEF MAKS_ADRES
  <2>1. Koniec(z) \in Nat /\ Koniec(z) <= MAKS_ADRES
    BY <1>2, <2>0 DEF Koniec
  <2>2. WDol(Koniec(z)) \in Nat /\ WDol(Koniec(z)) <= MAX_RAMEK
    <3> DEFINE k == Koniec(z)
    <3>1. k \in Nat /\ k <= MAX_RAMEK * ROZMIAR_STRONY
      BY <2>1 DEF MAKS_ADRES
    <3> HIDE DEF k
    <3>2. k \div ROZMIAR_STRONY \in Nat /\ k \div ROZMIAR_STRONY <= MAX_RAMEK
      BY <3>1, IlorazPonizej
    <3>3. QED
      BY <3>2 DEF WDol, k
  <2>3. WGore(z.poczatek) \in Nat
    <3> DEFINE a == z.poczatek + ROZMIAR_STRONY - 1
    <3>1. a \in Nat /\ a <= a * ROZMIAR_STRONY
      OBVIOUS
    <3> HIDE DEF a
    <3>2. a \div ROZMIAR_STRONY \in Nat
      BY <3>1, IlorazPonizej
    <3>3. QED
      BY <3>2 DEF WGore, a
  <2>4. dodaj_dostepny_zakres(z) = WGore(z.poczatek) .. WDol(Koniec(z)) - 1
    BY <1>2 DEF dodaj_dostepny_zakres
  <2>5. QED
    BY <2>2, <2>3, <2>4 DEF Ramki
<1>3. QED
  BY <1>1, <1>2

(* The reservation of the low memory covers all its frames.                *)
LEMMA NiskieZajete ==
  ASSUME NEW r \in Ramki, r < NISKIE_RAMKI
  PROVE  r \in zarezerwuj_zakres_na_stale(NiskaPamiec)
<1> USE PmmZalozenia DEF PmmZalozenia
<1> DEFINE d == NISKIE_RAMKI * ROZMIAR_STRONY
<1>1. d \in Nat /\ d > 0 /\ MAKS_ADRES \in Nat /\ MAKS_ADRES > 0
  BY DEF MAKS_ADRES
<1>2. NiskaPamiec.poczatek = 0 /\ NiskaPamiec.dlugosc = d
  BY DEF NiskaPamiec
<1>3. Koniec(NiskaPamiec) \in {d, MAKS_ADRES}
  BY <1>1, <1>2 DEF Koniec
<1>4. WGore(Koniec(NiskaPamiec)) \in {NISKIE_RAMKI, MAX_RAMEK}
  BY <1>3, WielokrotnoscWGore DEF WGore, MAKS_ADRES
<1>5. WDol(0) = 0
  BY DEF WDol
<1>6. zarezerwuj_zakres_na_stale(NiskaPamiec) = 0 .. WGore(Koniec(NiskaPamiec)) - 1
  BY <1>1, <1>2, <1>5 DEF zarezerwuj_zakres_na_stale
<1>7. QED
  BY <1>4, <1>6 DEF Ramki

-----------------------------------------------------------------------------
(* Before the initialisation nothing is handed out; blocks lie below the   *)
(* limit, where ZwolnijCiagleRamki accepts them; no managed frame is low.  *)
InwPmm ==
  /\ TypeOK
  /\ KazdaRamkaRaz
  /\ ~ pmm_zainicjalizowany => wydane = {} /\ wynik = NIC
  /\ \A b \in wydane : b[1] + b[2] <= MAX_RAMEK_ALOKOWALNYCH
  /\ \A r \in mapa_dostepnosci : r >= NISKIE_RAMKI
  /\ OdmowaTylkoBezRamek

LEMMA PmmInit == Init => InwPmm
<1> SUFFICES ASSUME Init PROVE InwPmm
  OBVIOUS
<1> USE PmmZalozenia DEF PmmZalozenia
<1>1. TypeOK
  <2>1. pmm_zainicjalizowany \in BOOLEAN
    BY Zenon DEF Init
  <2>2. NIC \in (0 .. MAKS_CIAG) \X Ramki
    BY DEF Ramki, NIC, NULL
  <2>3. QED
    BY <2>1, <2>2 DEF Init, TypeOK, Ramki
<1>2. KazdaRamkaRaz
  BY DEF Init, KazdaRamkaRaz, Trzymane
<1>3. OdmowaTylkoBezRamek
  BY DEF Init, OdmowaTylkoBezRamek, NIC, NULL
<1>4. QED
  BY <1>1, <1>2, <1>3 DEF InwPmm, Init

LEMMA PmmInicjalizacja == InwPmm /\ InicjalizujPMM => InwPmm'
<1> SUFFICES ASSUME InwPmm, NEW mapa \in Mapy, NEW rez \in Rezerwacje,
                    ~ pmm_zainicjalizowany,
                    UNCHANGED <<wydane, wynik>>,
                    LET ram == UNION { dodaj_dostepny_zakres(z) : z \in mapa }
                        zajete == UNION { zarezerwuj_zakres_na_stale(z) : z \in rez \cup {NiskaPamiec} }
                    IN \/ UNCHANGED <<mapy, najwyzsza_znaleziona_ramka, ostatnia_alokacja,
                                      pmm_zainicjalizowany, opis>>
                       \/ /\ ram # {}
                          /\ mapa_dostepnosci' = ram \ zajete
                          /\ mapa_bitowa' = ram \ zajete
                          /\ \E r \in ram : /\ Najwieksza(r, ram)
                                            /\ najwyzsza_znaleziona_ramka' = r + 1
                          /\ ostatnia_alokacja' = NISKIE_RAMKI
                          /\ pmm_zainicjalizowany' = TRUE
                          /\ opis' = [ram |-> mapa, rezerwacje |-> rez]
             PROVE  InwPmm'
  BY Zenon DEF InicjalizujPMM
<1> USE PmmZalozenia DEF PmmZalozenia
<1> DEFINE ram == UNION { dodaj_dostepny_zakres(z) : z \in mapa }
           zajete == UNION { zarezerwuj_zakres_na_stale(z) : z \in rez \cup {NiskaPamiec} }
<1>1. wydane = {} /\ wynik = NIC /\ wydane' = {} /\ wynik' = NIC
  BY DEF InwPmm
<1>2. Trzymane = {} /\ Trzymane' = {}
  BY <1>1 DEF Trzymane
<1>3. OdmowaTylkoBezRamek'
  BY <1>1 DEF OdmowaTylkoBezRamek, NIC, NULL
<1>4. CASE UNCHANGED <<mapy, najwyzsza_znaleziona_ramka, ostatnia_alokacja,
                       pmm_zainicjalizowany, opis>>
  BY <1>1, <1>2, <1>3, <1>4 DEF InwPmm, TypeOK, KazdaRamkaRaz, mapy
<1>5. ASSUME mapa_dostepnosci' = ram \ zajete, mapa_bitowa' = ram \ zajete,
             NEW r \in ram, najwyzsza_znaleziona_ramka' = r + 1,
             ostatnia_alokacja' = NISKIE_RAMKI, pmm_zainicjalizowany' = TRUE
      PROVE  InwPmm'
  <2>1. ram \subseteq Ramki
    BY ZakresWMapie
  <2>2. zarezerwuj_zakres_na_stale(NiskaPamiec) \subseteq zajete
    OBVIOUS
  <2> HIDE DEF ram, zajete
  <2>3. TypeOK'
    <3>1. pmm_zainicjalizowany' \in BOOLEAN
      BY <1>5, Zenon
    <3>2. wydane' \subseteq Ramki \X (1 .. MAKS_CIAG) /\ wynik' \in (0 .. MAKS_CIAG) \X Ramki
      BY <1>1 DEF Ramki, NIC, NULL
    <3>3. mapa_dostepnosci' \subseteq Ramki /\ mapa_bitowa' \subseteq Ramki
      BY <1>5, <2>1
    <3>4. najwyzsza_znaleziona_ramka' \in 0 .. MAX_RAMEK /\ ostatnia_alokacja' \in Nat
      <4>1. r \in Int /\ 0 <= r /\ r <= MAX_RAMEK - 1
        BY <1>5, <2>1 DEF Ramki
      <4>2. QED
        BY <1>5, <4>1
    <3>5. QED
      BY <3>1, <3>2, <3>3, <3>4 DEF TypeOK
  <2>4. KazdaRamkaRaz'
    BY <1>1, <1>2, <1>5 DEF KazdaRamkaRaz
  <2>5. \A q \in mapa_dostepnosci' : q >= NISKIE_RAMKI
    <3>1. SUFFICES ASSUME NEW q \in ram, q \notin zajete, q < NISKIE_RAMKI PROVE FALSE
      BY <1>5, <2>1 DEF Ramki
    <3>2. QED
      BY <2>1, <2>2, <3>1, NiskieZajete
  <2>6. QED
    BY <1>1, <1>3, <1>5, <2>3, <2>4, <2>5 DEF InwPmm
<1>6. QED
  BY <1>4, <1>5

(* A free run below the limit becomes a block.                             *)
LEMMA WydanieInw ==
  ASSUME InwPmm, pmm_zainicjalizowany, NEW s \in Ramki, NEW n \in 1 .. MAKS_CIAG,
         s + n <= Limit, Ciag(s, n) \subseteq Wolne,
         mapa_bitowa' = mapa_bitowa \ Ciag(s, n),
         ostatnia_alokacja' = Zawin(s + n),
         wydane' = wydane \cup {<<s, n>>}, wynik' = <<n, s>>, UNCHANGED stale
  PROVE  InwPmm'
<1> USE PmmZalozenia DEF PmmZalozenia
<1>1. /\ mapa_dostepnosci' = mapa_dostepnosci /\ pmm_zainicjalizowany' = pmm_zainicjalizowany
      /\ najwyzsza_znaleziona_ramka' = najwyzsza_znaleziona_ramka
  BY DEF stale
<1>2. Trzymane' = Trzymane \cup Ciag(s, n)
  <2>1. <<s, n>>[1] = s /\ <<s, n>>[2] = n
    OBVIOUS
  <2>2. ASSUME NEW q PROVE q \in Trzymane <=> \E b \in wydane : q \in Ciag(b[1], b[2])
    BY DEF Trzymane
  <2>3. ASSUME NEW q PROVE q \in Trzymane' <=> \E b \in wydane' : q \in Ciag(b[1], b[2])
    BY DEF Trzymane
  <2>4. ASSUME NEW q PROVE q \in Trzymane' <=> q \in Trzymane \/ q \in Ciag(s, n)
    BY <2>1, <2>2, <2>3
  <2>5. QED
    BY <2>4
<1>3. s \in Ciag(s, n)
  BY DEF Ciag, Ramki
<1>4. TypeOK'
  <2>1. ostatnia_alokacja' \in Nat
    BY DEF Zawin, InwPmm, TypeOK, Ramki
  <2>2. wydane' \subseteq Ramki \X (1 .. MAKS_CIAG) /\ wynik' \in (0 .. MAKS_CIAG) \X Ramki
    BY DEF InwPmm, TypeOK
  <2>3. QED
    BY <1>1, <2>1, <2>2 DEF InwPmm, TypeOK
<1>5. \A b \in wydane : Ciag(b[1], b[2]) \cap Ciag(s, n) = {}
  BY DEF InwPmm, KazdaRamkaRaz, Trzymane, Wolne
<1>6. KazdaRamkaRaz'
  <2>1. \A b, c \in wydane' : b # c => Ciag(b[1], b[2]) \cap Ciag(c[1], c[2]) = {}
    <3>1. <<s, n>>[1] = s /\ <<s, n>>[2] = n
      OBVIOUS
    <3>2. QED
      BY <1>5, <3>1 DEF InwPmm, KazdaRamkaRaz
  <2>2. mapa_bitowa' \cap Trzymane' = {}
    BY <1>2 DEF InwPmm, KazdaRamkaRaz
  <2>3. mapa_dostepnosci' = mapa_bitowa' \cup Trzymane'
    BY <1>1, <1>2 DEF InwPmm, KazdaRamkaRaz, Wolne
  <2>4. QED
    BY <2>1, <2>2, <2>3 DEF KazdaRamkaRaz
<1>7. \A b \in wydane' : b[1] + b[2] <= MAX_RAMEK_ALOKOWALNYCH
  <2>1. <<s, n>>[1] + <<s, n>>[2] <= MAX_RAMEK_ALOKOWALNYCH
    BY DEF Limit, InwPmm, TypeOK, Ramki
  <2>2. QED
    BY <2>1 DEF InwPmm
<1>8. s # NULL
  BY <1>3 DEF InwPmm, Wolne, NULL, Ramki
<1>9. OdmowaTylkoBezRamek'
  BY <1>8 DEF OdmowaTylkoBezRamek
<1>10. QED
  BY <1>1, <1>4, <1>6, <1>7, <1>9 DEF InwPmm

(* A refusal changes nothing but the answer and the cursor.                *)
LEMMA OdmowaInw ==
  ASSUME InwPmm, pmm_zainicjalizowany, NEW n \in 1 .. MAKS_CIAG,
         ~ \E s \in 0 .. Limit - n : Ciag(s, n) \subseteq Wolne,
         wynik' = <<n, NULL>>, ostatnia_alokacja' \in Nat,
         UNCHANGED <<mapa_bitowa, wydane>>, UNCHANGED stale
  PROVE  InwPmm'
<1> USE PmmZalozenia DEF PmmZalozenia
<1>1. /\ mapa_dostepnosci' = mapa_dostepnosci /\ pmm_zainicjalizowany' = pmm_zainicjalizowany
      /\ najwyzsza_znaleziona_ramka' = najwyzsza_znaleziona_ramka
      /\ mapa_bitowa' = mapa_bitowa /\ wydane' = wydane
  BY DEF stale
<1>2. TypeOK'
  BY <1>1 DEF InwPmm, TypeOK, Ramki, NULL
<1>3. KazdaRamkaRaz'
  BY <1>1 DEF InwPmm, KazdaRamkaRaz, Trzymane
<1>4. Limit' = Limit /\ Wolne' = Wolne
  BY <1>1 DEF Limit, Wolne
<1>5. OdmowaTylkoBezRamek'
  BY <1>4 DEF OdmowaTylkoBezRamek
<1>6. QED
  BY <1>1, <1>2, <1>3, <1>5 DEF InwPmm

LEMMA AlokacjaInw ==
  InwPmm /\ (ZaalokujRamke \/ \E n \in 1 .. MAKS_CIAG : ZaalokujCiagleRamki(n)) => InwPmm'
<1> USE PmmZalozenia DEF PmmZalozenia
<1>1. ASSUME InwPmm, ZaalokujRamke PROVE InwPmm'
  <2>0. pmm_zainicjalizowany /\ UNCHANGED stale /\ 1 \in 1 .. MAKS_CIAG
    BY <1>1 DEF ZaalokujRamke
  <2>1. Limit \in Nat /\ Limit <= MAX_RAMEK /\ Wolne \subseteq Ramki
    BY <1>1 DEF Limit, InwPmm, TypeOK, Wolne
  <2>2. ASSUME NEW r \in Ramki, r \in Przebieg1 \cup Przebieg2, WydajRamke(r) PROVE InwPmm'
    <3>1. r \in Wolne /\ r + 1 <= Limit
      BY <1>1, <2>1, <2>2 DEF Przebieg1, Przebieg2, Zawin, Ramki, InwPmm, TypeOK
    <3>2. Ciag(r, 1) = {r}
      BY DEF Ciag, Ramki
    <3>3. QED
      BY <1>1, <2>0, <2>2, <3>1, <3>2, WydanieInw DEF WydajRamke
  <2>3. ASSUME Przebieg1 = {}, Przebieg2 = {}, wynik' = <<1, NULL>>,
               ostatnia_alokacja' = Zawin(ostatnia_alokacja),
               UNCHANGED <<mapa_bitowa, wydane>>
        PROVE  InwPmm'
    <3>1. ostatnia_alokacja' \in Nat
      BY <1>1, <2>3 DEF Zawin, InwPmm, TypeOK
    <3>2. ASSUME NEW s \in 0 .. Limit - 1, Ciag(s, 1) \subseteq Wolne PROVE FALSE
      <4>1. s \in Wolne
        BY <3>2 DEF Ciag
      <4>2. s \in Przebieg1 \cup Przebieg2
        BY <1>1, <2>1, <4>1 DEF Przebieg1, Przebieg2, Zawin, InwPmm, TypeOK
      <4>3. QED
        BY <2>3, <4>2
    <3>3. QED
      BY <1>1, <2>0, <2>3, <3>1, <3>2, OdmowaInw
  <2>4. QED
    BY <1>1, <2>2, <2>3 DEF ZaalokujRamke, Najmniejsza
<1>2. ASSUME InwPmm, NEW n \in 1 .. MAKS_CIAG, ZaalokujCiagleRamki(n) PROVE InwPmm'
  <2>0. pmm_zainicjalizowany /\ UNCHANGED stale
    BY <1>2 DEF ZaalokujCiagleRamki
  <2>1. Limit \in Nat
    BY <1>2 DEF Limit, InwPmm, TypeOK
  <2>2. ASSUME NEW s \in Ramki, Najmniejsza(s, WolneCiagi(n)),
               mapa_bitowa' = mapa_bitowa \ Ciag(s, n), ostatnia_alokacja' = Zawin(s + n),
               wydane' = wydane \cup {<<s, n>>}, wynik' = <<n, s>>
        PROVE  InwPmm'
    <3>1. s + n <= Limit /\ Ciag(s, n) \subseteq Wolne
      BY <2>1, <2>2 DEF Najmniejsza, WolneCiagi, Ramki
    <3>2. QED
      BY <1>2, <2>0, <2>2, <3>1, WydanieInw
  <2>3. ASSUME WolneCiagi(n) = {}, wynik' = <<n, NULL>>,
               UNCHANGED <<mapa_bitowa, ostatnia_alokacja, wydane>>
        PROVE  InwPmm'
    <3>1. ASSUME NEW s \in 0 .. Limit - n, Ciag(s, n) \subseteq Wolne PROVE FALSE
      <4>1. s \in Wolne
        BY <3>1 DEF Ciag
      <4>2. s >= NISKIE_RAMKI
        BY <1>2, <4>1 DEF InwPmm, Wolne
      <4>3. s \in WolneCiagi(n)
        BY <2>1, <3>1, <4>2 DEF WolneCiagi
      <4>4. QED
        BY <2>3, <4>3
    <3>2. ostatnia_alokacja' \in Nat
      BY <1>2, <2>3 DEF InwPmm, TypeOK
    <3>3. QED
      BY <1>2, <2>0, <2>3, <3>1, <3>2, OdmowaInw
  <2>4. QED
    BY <1>2, <2>2, <2>3 DEF ZaalokujCiagleRamki
<1>3. QED
  BY <1>1, <1>2

(* The bitmap that a call of either free leaves: a block of wydane goes    *)
(* back as a whole, anything else is refused.                              *)
LEMMA ZwolnienieInw ==
  ASSUME InwPmm, pmm_zainicjalizowany, NEW s \in Ramki, NEW n \in 1 .. MAKS_CIAG,
         \/ /\ <<s, n>> \in wydane
            /\ mapa_bitowa' = mapa_bitowa \cup Ciag(s, n)
         \/ /\ <<s, n>> \notin wydane
            /\ mapa_bitowa' = mapa_bitowa,
         ostatnia_alokacja' \in Nat,
         wydane' = wydane \ {<<s, n>>}, wynik' = NIC, UNCHANGED stale
  PROVE  InwPmm'
<1> USE PmmZalozenia DEF PmmZalozenia
<1>1. /\ mapa_dostepnosci' = mapa_dostepnosci /\ pmm_zainicjalizowany' = pmm_zainicjalizowany
      /\ najwyzsza_znaleziona_ramka' = najwyzsza_znaleziona_ramka
  BY DEF stale
<1>2. OdmowaTylkoBezRamek'
  BY DEF OdmowaTylkoBezRamek, NIC, NULL
<1>3. CASE <<s, n>> \in wydane /\ mapa_bitowa' = mapa_bitowa \cup Ciag(s, n)
  <2>1. <<s, n>>[1] = s /\ <<s, n>>[2] = n
    OBVIOUS
  <2>2. ASSUME NEW q PROVE q \in Trzymane <=> \E b \in wydane : q \in Ciag(b[1], b[2])
    BY DEF Trzymane
  <2>3. ASSUME NEW q PROVE q \in Trzymane' <=> \E b \in wydane' : q \in Ciag(b[1], b[2])
    BY DEF Trzymane
  <2>4. \A b \in wydane' : Ciag(b[1], b[2]) \cap Ciag(s, n) = {}
    BY <1>3, <2>1 DEF InwPmm, KazdaRamkaRaz
  <2>5. ASSUME NEW q PROVE q \in Trzymane' <=> q \in Trzymane /\ q \notin Ciag(s, n)
    BY <1>3, <2>1, <2>2, <2>3, <2>4
  <2>6. Ciag(s, n) \subseteq Trzymane
    BY <1>3, <2>1, <2>2
  <2>7. TypeOK'
    <3>1. Ciag(s, n) \subseteq Ramki
      BY <2>6 DEF InwPmm, TypeOK, KazdaRamkaRaz
    <3>2. NIC \in (0 .. MAKS_CIAG) \X Ramki
      BY DEF Ramki, NIC, NULL
    <3>3. QED
      BY <1>1, <1>3, <3>1, <3>2 DEF InwPmm, TypeOK
  <2>8. KazdaRamkaRaz'
    <3>1. mapa_bitowa' \cap Trzymane' = {}
      BY <1>3, <2>5 DEF InwPmm, KazdaRamkaRaz
    <3>2. mapa_dostepnosci' = mapa_bitowa' \cup Trzymane'
      BY <1>1, <1>3, <2>5, <2>6 DEF InwPmm, KazdaRamkaRaz
    <3>3. QED
      BY <3>1, <3>2 DEF InwPmm, KazdaRamkaRaz
  <2>9. QED
    BY <1>1, <1>2, <2>7, <2>8 DEF InwPmm
<1>4. CASE <<s, n>> \notin wydane /\ mapa_bitowa' = mapa_bitowa
  <2>1. wydane' = wydane
    BY <1>4
  <2>2. NIC \in (0 .. MAKS_CIAG) \X Ramki
    BY DEF Ramki, NIC, NULL
  <2>3. TypeOK'
    BY <1>1, <1>4, <2>1, <2>2 DEF InwPmm, TypeOK
  <2>4. KazdaRamkaRaz'
    BY <1>1, <1>4, <2>1 DEF InwPmm, KazdaRamkaRaz, Trzymane
  <2>5. QED
    BY <1>1, <1>2, <2>1, <2>3, <2>4 DEF InwPmm
<1>5. QED
  BY <1>3, <1>4

LEMMA ZwalnianieInw ==
  InwPmm /\ \/ \E r \in Ramki : ZwolnijRamke(r)
            \/ \E s \in Ramki, n \in 1 .. MAKS_CIAG : ZwolnijCiagleRamki(s, n)
    => InwPmm'
<1> USE PmmZalozenia DEF PmmZalozenia
<1>1. ASSUME InwPmm, NEW s \in Ramki PROVE CofnijKursor(s) \in Nat
  BY <1>1 DEF CofnijKursor, InwPmm, TypeOK, Ramki
<1>2. ASSUME InwPmm, NEW s, NEW n, <<s, n>> \in wydane, NEW r \in Ciag(s, n) PROVE ~ Odmawia(r)
  <2>1. r \in Trzymane
    <3>1. <<s, n>>[1] = s /\ <<s, n>>[2] = n
      OBVIOUS
    <3>2. QED
      BY <1>2, <3>1 DEF Trzymane
  <2>2. QED
    BY <1>2, <2>1 DEF Odmawia, InwPmm, KazdaRamkaRaz
<1>3. ASSUME InwPmm, NEW r \in Ramki, ZwolnijRamke(r) PROVE InwPmm'
  <2>1. Ciag(r, 1) = {r}
    BY DEF Ciag, Ramki
  <2>2. /\ pmm_zainicjalizowany /\ 1 \in 1 .. MAKS_CIAG /\ UNCHANGED stale
        /\ wydane' = wydane \ {<<r, 1>>} /\ wynik' = NIC
    BY <1>3 DEF ZwolnijRamke
  <2>3. ostatnia_alokacja' \in Nat
    BY <1>1, <1>3 DEF ZwolnijRamke, InwPmm, TypeOK
  <2>4. CASE <<r, 1>> \in wydane
    <3>1. mapa_bitowa' = mapa_bitowa \cup Ciag(r, 1)
      BY <1>2, <1>3, <2>1, <2>4 DEF ZwolnijRamke
    <3>2. QED
      BY <1>3, <2>2, <2>3, <2>4, <3>1, ZwolnienieInw
  <2>5. CASE <<r, 1>> \notin wydane
    <3>1. r \notin Trzymane
      BY <1>3, <2>5 DEF ZwolnijRamke
    <3>2. Odmawia(r)
      BY <1>3, <3>1 DEF Odmawia, InwPmm, KazdaRamkaRaz
    <3>3. mapa_bitowa' = mapa_bitowa
      BY <1>3, <3>2 DEF ZwolnijRamke
    <3>4. QED
      BY <1>3, <2>2, <2>3, <2>5, <3>3, ZwolnienieInw
  <2>6. QED
    BY <2>4, <2>5
<1>4. ASSUME InwPmm, NEW s \in Ramki, NEW n \in 1 .. MAKS_CIAG, ZwolnijCiagleRamki(s, n)
      PROVE  InwPmm'
  <2>2. /\ pmm_zainicjalizowany /\ UNCHANGED stale
        /\ wydane' = wydane \ {<<s, n>>} /\ wynik' = NIC
    BY <1>4 DEF ZwolnijCiagleRamki
  <2>3. ostatnia_alokacja' \in Nat
    BY <1>1, <1>4 DEF ZwolnijCiagleRamki, InwPmm, TypeOK
  <2>4. CASE <<s, n>> \in wydane
    <3>1. s + n <= MAX_RAMEK_ALOKOWALNYCH
      <4>1. <<s, n>>[1] = s /\ <<s, n>>[2] = n
        OBVIOUS
      <4>2. QED
        BY <1>4, <2>4, <4>1 DEF InwPmm
    <3>2. ~ OdmawiaCiagu(s, n)
      BY <1>2, <1>4, <2>4, <3>1 DEF OdmawiaCiagu, Ramki
    <3>3. mapa_bitowa' = mapa_bitowa \cup Ciag(s, n)
      BY <1>4, <3>2 DEF ZwolnijCiagleRamki
    <3>4. QED
      BY <1>4, <2>2, <2>3, <2>4, <3>3, ZwolnienieInw
  <2>5. CASE <<s, n>> \notin wydane
    <3>1. PICK r \in Ciag(s, n) : r \notin Trzymane
      BY <1>4, <2>5 DEF ZwolnijCiagleRamki
    <3>2. Odmawia(r)
      BY <1>4, <3>1 DEF Odmawia, InwPmm, KazdaRamkaRaz
    <3>3. mapa_bitowa' = mapa_bitowa
      BY <1>4, <3>1, <3>2 DEF ZwolnijCiagleRamki, OdmawiaCiagu
    <3>4. QED
      BY <1>4, <2>2, <2>3, <2>5, <3>3, ZwolnienieInw
  <2>6. QED
    BY <2>4, <2>5
<1>5. QED
  BY <1>3, <1>4

-----------------------------------------------------------------------------
(* The inductive invariant holds in every reachable state of the PMM.      *)
THEOREM NiezmiennikPmm == Spec => []InwPmm
<1>1. InwPmm /\ [Next]_vars => InwPmm'
  <2>1. ASSUME InwPmm, UNCHANGED vars PROVE InwPmm'
    <3>1. Limit' = Limit /\ Wolne' = Wolne /\ Trzymane' = Trzymane
      BY <2>1 DEF vars, Limit, Wolne, Trzymane
    <3>2. QED
      BY <2>1, <3>1 DEF vars, InwPmm, TypeOK, KazdaRamkaRaz, OdmowaTylkoBezRamek
  <2>2. QED
    BY <2>1, PmmInicjalizacja, AlokacjaInw, ZwalnianieInw DEF Next
<1>2. QED
  BY <1>1, PmmInit, PTL DEF Spec

(* The bitmaps, the cursor and the answers keep their types.               *)
THEOREM PmmTypy == Spec => []TypeOK
<1>1. InwPmm => TypeOK
  BY DEF InwPmm
<1>2. QED
  BY <1>1, NiezmiennikPmm, PTL

(* No frame is handed out twice and none leaks, for every memory map and   *)
(* whatever stray or repeated calls of ZwolnijRamke and ZwolnijCiagleRamki *)
(* are made.                                                               *)
THEOREM RamkaMaJednegoWlasciciela == Spec => []KazdaRamkaRaz
<1>1. InwPmm => KazdaRamkaRaz
  BY DEF InwPmm
<1>2. QED
  BY <1>1, NiezmiennikPmm, PTL

(* ZaalokujRamke and ZaalokujCiagleRamki answer nullptr only when no free  *)
(* run of the requested length exists, wherever the cursor stands.         *)
THEOREM OdmowaUzasadniona == Spec => []OdmowaTylkoBezRamek
<1>1. InwPmm => OdmowaTylkoBezRamek
  BY DEF InwPmm
<1>2. QED
  BY <1>1, NiezmiennikPmm, PTL

-----------------------------------------------------------------------------
(* Frames and bytes.                                                       *)

(* A frame below the rounded down quotient ends below the address.         *)
LEMMA RamkaPodAdresem ==
  ASSUME NEW d \in Nat, d > 0, NEW a \in Nat, NEW r \in Int
  PROVE  r + 1 <= a \div d <=> (r + 1) * d <= a
<1>1. PICK q \in Int, t \in 0 .. d - 1 : a = q * d + t /\ a \div d = q
  OBVIOUS
<1>2. ASSUME r + 1 <= q PROVE (r + 1) * d <= a
  <2>1. (r + 1) * d <= q * d
    BY <1>2
  <2>2. QED
    BY <1>1, <2>1
<1>3. ASSUME r >= q PROVE (r + 1) * d > a
  <2>1. r * d >= q * d
    BY <1>3
  <2>2. (r + 1) * d = r * d + d
    OBVIOUS
  <2>3. r * d \in Int /\ q * d \in Int
    OBVIOUS
  <2>4. QED
    BY <1>1, <2>1, <2>2, <2>3
<1>4. (r + 1) * d \in Int
  OBVIOUS
<1>5. QED
  BY <1>1, <1>2, <1>3, <1>4

(* A frame at or above the rounded up quotient begins at or above the      *)
(* address.                                                                *)
LEMMA RamkaNadAdresem ==
  ASSUME NEW d \in Nat, d > 0, NEW a \in Nat, NEW r \in Int
  PROVE  (a + d - 1) \div d <= r <=> a <= r * d
<1>1. a + d - 1 \in Nat
  OBVIOUS
<1>2. r + 1 <= (a + d - 1) \div d <=> (r + 1) * d <= a + d - 1
  BY <1>1, RamkaPodAdresem
<1>3. (r + 1) * d = r * d + d /\ r * d \in Int
  OBVIOUS
<1>4. (a + d - 1) \div d \in Int
  BY <1>1
<1>5. QED
  BY <1>2, <1>3, <1>4

Bajty(r) == r * ROZMIAR_STRONY .. (r + 1) * ROZMIAR_STRONY - 1
WZakresie(b, z) == z.poczatek <= b /\ b < z.poczatek + z.dlugosc

(* The end of a range that begins below the limit.                         *)
LEMMA KoniecZakresu ==
  ASSUME NEW z, z.poczatek \in Nat, z.dlugosc \in Nat, z.poczatek < MAKS_ADRES
  PROVE  /\ MAKS_ADRES \in Nat /\ Koniec(z) \in Nat
         /\ Koniec(z) <= MAKS_ADRES /\ Koniec(z) <= z.poczatek + z.dlugosc
         /\ \A b \in Nat : WZakresie(b, z) /\ b < MAKS_ADRES => b < Koniec(z)
<1>1. MAKS_ADRES \in Nat
  BY PmmZalozenia DEF PmmZalozenia, MAKS_ADRES
<1>2. QED
  BY <1>1 DEF Koniec, WZakresie

(* Every byte of a frame of dodaj_dostepny_zakres lies in the range.       *)
LEMMA RamkaWZakresie ==
  ASSUME NEW z, z.poczatek \in Nat, z.dlugosc \in Nat,
         NEW r \in dodaj_dostepny_zakres(z), NEW b \in Bajty(r)
  PROVE  WZakresie(b, z)
<1> USE PmmZalozenia DEF PmmZalozenia
<1> DEFINE d == ROZMIAR_STRONY
           k == Koniec(z)
           p == z.poczatek
<1>0. MAKS_ADRES \in Nat
  BY DEF MAKS_ADRES
<1>1. p < MAKS_ADRES /\ r \in (p + d - 1) \div d .. k \div d - 1
  BY <1>0 DEF dodaj_dostepny_zakres, WGore, WDol
<1>2. k \in Nat /\ k <= p + z.dlugosc
  BY <1>1, KoniecZakresu
<1>3. p \in Nat /\ d \in Nat /\ d > 0
  OBVIOUS
<1>4. b \in r * d .. (r + 1) * d - 1
  BY DEF Bajty
<1> HIDE DEF k, p, d
<1>5. r \in Int /\ (p + d - 1) \div d <= r /\ r + 1 <= k \div d
  <2>1. (p + d - 1) \div d \in Int /\ k \div d \in Int
    BY <1>2, <1>3
  <2>2. QED
    BY <1>1, <2>1
<1>6. p <= r * d
  BY <1>3, <1>5, RamkaNadAdresem
<1>7. (r + 1) * d <= k
  BY <1>2, <1>3, <1>5, RamkaPodAdresem
<1>8. r * d \in Int /\ (r + 1) * d \in Int
  BY <1>3, <1>5
<1>9. p <= b /\ b < p + z.dlugosc
  BY <1>2, <1>3, <1>4, <1>6, <1>7, <1>8
<1>10. QED
  BY <1>9 DEF WZakresie, p

(* A frame with a byte of a reserved range is reserved.                    *)
LEMMA RamkaZarezerwowana ==
  ASSUME NEW z, z.poczatek \in Nat, z.dlugosc \in Nat,
         NEW r \in Ramki, NEW b \in Bajty(r), WZakresie(b, z)
  PROVE  r \in zarezerwuj_zakres_na_stale(z)
<1> USE PmmZalozenia DEF PmmZalozenia
<1> DEFINE d == ROZMIAR_STRONY
           k == Koniec(z)
           p == z.poczatek
<1>1. r \in Int /\ 0 <= r /\ r + 1 <= MAX_RAMEK /\ d \in Nat /\ d > 0 /\ p \in Nat
  BY DEF Ramki
<1>2. b \in r * d .. (r + 1) * d - 1 /\ r * d \in Int /\ (r + 1) * d \in Int
  BY <1>1 DEF Bajty
<1>3. r * d >= 0 /\ (r + 1) * d = r * d + d
  BY <1>1
<1>4. (r + 1) * d <= MAX_RAMEK * d
  BY <1>1
<1>5. b \in Nat /\ b < MAKS_ADRES /\ MAKS_ADRES \in Nat
  <2>1. MAKS_ADRES = MAX_RAMEK * d /\ MAX_RAMEK * d \in Nat
    BY DEF MAKS_ADRES
  <2> HIDE DEF d
  <2>2. QED
    BY <1>2, <1>3, <1>4, <2>1
<1>6. p <= b /\ z.dlugosc # 0 /\ p < MAKS_ADRES
  BY <1>1, <1>5 DEF WZakresie
<1>7. k \in Nat /\ b < k
  BY <1>5, <1>6, KoniecZakresu
<1> HIDE DEF k, d, p
<1>8. p \div d <= r /\ p \div d \in Int
  <2>1. p < (r + 1) * d
    BY <1>1, <1>2, <1>6
  <2>2. ~ (r + 1 <= p \div d)
    BY <1>1, <1>2, <2>1, RamkaPodAdresem
  <2>3. QED
    BY <1>1, <2>2
<1>9. r < (k + d - 1) \div d /\ (k + d - 1) \div d \in Int
  <2>1. ~ (k <= r * d)
    BY <1>2, <1>7
  <2>2. ~ ((k + d - 1) \div d <= r)
    BY <1>1, <1>7, <2>1, RamkaNadAdresem
  <2>3. (k + d - 1) \div d \in Int
    BY <1>1, <1>7
  <2>4. QED
    BY <1>1, <2>2, <2>3
<1>10. r \in p \div d .. (k + d - 1) \div d - 1
  BY <1>1, <1>8, <1>9
<1>11. QED
  BY <1>5, <1>6, <1>10 DEF zarezerwuj_zakres_na_stale, WGore, WDol, k, d, p

(* Only the initialisation changes the managed frames.                     *)
LEMMA InicjalizacjaToRam == RamkiToRam /\ InicjalizujPMM => RamkiToRam'
<1> SUFFICES ASSUME RamkiToRam, NEW mapa \in Mapy, NEW rez \in Rezerwacje,
                    LET ram == UNION { dodaj_dostepny_zakres(z) : z \in mapa }
                        zajete == UNION { zarezerwuj_zakres_na_stale(z) : z \in rez \cup {NiskaPamiec} }
                    IN /\ mapa_dostepnosci' = ram \ zajete
                       /\ opis' = [ram |-> mapa, rezerwacje |-> rez]
             PROVE  RamkiToRam'
  <2>1. ASSUME UNCHANGED <<mapa_dostepnosci, opis>>, RamkiToRam PROVE RamkiToRam'
    BY <2>1 DEF RamkiToRam
  <2>2. QED
    BY <2>1 DEF InicjalizujPMM, mapy
<1> USE PmmZalozenia DEF PmmZalozenia
<1>1. \A z \in mapa \cup rez : z.poczatek \in Nat /\ z.dlugosc \in Nat
  OBVIOUS
<1>2. opis'.ram = mapa /\ opis'.rezerwacje = rez
  OBVIOUS
<1>3. SUFFICES ASSUME NEW r \in mapa_dostepnosci'
               PROVE  /\ r >= NISKIE_RAMKI
                      /\ \A b \in Bajty(r) :
                           /\ \E z \in mapa : WZakresie(b, z)
                           /\ \A z \in rez : ~ WZakresie(b, z)
  BY <1>2 DEF RamkiToRam, Bajty, WZakresie
<1>4. PICK z \in mapa : r \in dodaj_dostepny_zakres(z)
  OBVIOUS
<1>5. \A y \in rez \cup {NiskaPamiec} : r \notin zarezerwuj_zakres_na_stale(y)
  OBVIOUS
<1>6. r \in Ramki
  BY <1>1, <1>4, ZakresWMapie
<1>7. r >= NISKIE_RAMKI
  BY <1>5, <1>6, NiskieZajete DEF Ramki
<1>8. \A b \in Bajty(r) : WZakresie(b, z)
  BY <1>1, <1>4, RamkaWZakresie
<1>9. \A b \in Bajty(r) : \A y \in rez : ~ WZakresie(b, y)
  BY <1>1, <1>5, <1>6, RamkaZarezerwowana
<1>10. QED
  BY <1>7, <1>8, <1>9

(* Every byte of a managed frame is RAM that nobody reserved, for every    *)
(* memory map and every set of reserved ranges: the ends of the ranges are *)
(* rounded the right way and cut at the limit (pmm.cpp 105-117 and         *)
(* 1258-1260).                                                             *)
THEOREM ZarzadzaTylkoRamem == Spec => []RamkiToRam
<1>1. Init => RamkiToRam
  BY DEF Init, RamkiToRam
<1>2. RamkiToRam /\ [Next]_vars => RamkiToRam'
  <2>1. ASSUME RamkiToRam, UNCHANGED <<mapa_dostepnosci, opis>> PROVE RamkiToRam'
    BY <2>1 DEF RamkiToRam
  <2>2. ASSUME Next, ~ InicjalizujPMM PROVE UNCHANGED <<mapa_dostepnosci, opis>>
    BY <2>2 DEF Next, ZaalokujRamke, ZaalokujCiagleRamki, ZwolnijRamke,
                ZwolnijCiagleRamki, stale
  <2>3. QED
    BY <2>1, <2>2, InicjalizacjaToRam DEF vars
<1>3. QED
  BY <1>1, <1>2, PTL DEF Spec

-----------------------------------------------------------------------------
(* The loop of ZaalokujCiagleRamki.  D(g) is one turn of it: what it finds *)
(* from s on, if g says what it finds further on.  The first free run is a *)
(* solution of g = D(g), and the only one.                                 *)

Dziedzina == 0 .. MAX_RAMEK + MAKS_CIAG + 1
Wolny(W, s, n) == Ciag(s, n) \subseteq W
PoPrzeszkodzie(W, s, n) == Min(Ciag(s, n) \ W) + 1
WolneOd(W, lim, n, s) == { t \in s .. lim - n : Wolny(W, t, n) }
PierwszyOd(W, lim, n, s) ==
  IF WolneOd(W, lim, n, s) = {} THEN NULL
  ELSE CHOOSE t : Najmniejsza(t, WolneOd(W, lim, n, s))

(* The first frame in the way of a run: the loop moves on, and skips no    *)
(* free run.                                                               *)
LEMMA Przeszkoda ==
  ASSUME NEW W, NEW lim \in 0 .. MAX_RAMEK, NEW n \in 1 .. MAKS_CIAG, NEW s \in Dziedzina,
         s <= lim - n, ~ Wolny(W, s, n)
  PROVE  /\ PoPrzeszkodzie(W, s, n) \in Dziedzina /\ PoPrzeszkodzie(W, s, n) > s
         /\ WolneOd(W, lim, n, s) = WolneOd(W, lim, n, PoPrzeszkodzie(W, s, n))
<1> USE PmmZalozenia DEF PmmZalozenia
<1> DEFINE P == Ciag(s, n) \ W
<1>1. P # {} /\ P \subseteq Nat /\ s \in Nat
  BY DEF Wolny, Ciag, Dziedzina
<1>2. PICK x \in P : \A y \in P : x <= y
  BY <1>1, JestNajmniejsza
<1> DEFINE m == Min(P)
<1>3. m \in P /\ \A y \in P : m <= y
  BY <1>2 DEF Min
<1>4. m \in Nat /\ s <= m /\ m <= s + n - 1 /\ m \notin W
  BY <1>1, <1>3 DEF Ciag
<1>5. PoPrzeszkodzie(W, s, n) = m + 1
  BY DEF PoPrzeszkodzie
<1> HIDE DEF P, m
<1>6. m + 1 \in Dziedzina /\ m + 1 > s
  BY <1>1, <1>4 DEF Dziedzina
<1>7. ASSUME NEW t \in s .. lim - n, Wolny(W, t, n) PROVE t >= m + 1
  <2>1. CASE t <= m
    <3>1. m \in Ciag(t, n)
      BY <1>1, <1>4, <2>1 DEF Ciag
    <3>2. QED
      BY <1>4, <1>7, <3>1 DEF Wolny
  <2>2. QED
    BY <1>1, <1>4, <2>1
<1>8. WolneOd(W, lim, n, s) = WolneOd(W, lim, n, m + 1)
  BY <1>1, <1>4, <1>7 DEF WolneOd
<1>9. QED
  BY <1>5, <1>6, <1>8

(* What the loop returns.                                                  *)
LEMMA CoZnajdujePetla ==
  ASSUME NEW W, NEW lim \in 0 .. MAX_RAMEK, NEW n \in 1 .. MAKS_CIAG, NEW T,
         T = CHOOSE g : g = [s \in Dziedzina |->
               IF s > lim - n THEN NULL
               ELSE IF Wolny(W, s, n) THEN s ELSE g[PoPrzeszkodzie(W, s, n)]],
         NEW s \in Dziedzina
  PROVE  T[s] = PierwszyOd(W, lim, n, s)
<1> USE PmmZalozenia DEF PmmZalozenia
<1> DEFINE D(g) == [q \in Dziedzina |->
              IF q > lim - n THEN NULL
              ELSE IF Wolny(W, q, n) THEN q ELSE g[PoPrzeszkodzie(W, q, n)]]
           f == [q \in Dziedzina |-> PierwszyOd(W, lim, n, q)]
<1>0. \A q \in Dziedzina : q \in Nat
  BY DEF Dziedzina
<1>1. ASSUME NEW q \in Dziedzina, q > lim - n PROVE f[q] = NULL
  <2>1. WolneOd(W, lim, n, q) = {}
    BY <1>0, <1>1 DEF WolneOd
  <2>2. QED
    BY <2>1 DEF PierwszyOd
<1>2. ASSUME NEW q \in Dziedzina, ~ (q > lim - n), Wolny(W, q, n) PROVE f[q] = q
  <2>1. Najmniejsza(q, WolneOd(W, lim, n, q))
    BY <1>0, <1>2 DEF WolneOd, Najmniejsza
  <2>2. \A t : Najmniejsza(t, WolneOd(W, lim, n, q)) => t = q
    BY <1>0, <2>1 DEF WolneOd, Najmniejsza
  <2>3. WolneOd(W, lim, n, q) # {}
    BY <2>1 DEF Najmniejsza
  <2>4. (CHOOSE t : Najmniejsza(t, WolneOd(W, lim, n, q))) = q
    BY <2>1, <2>2
  <2>5. QED
    BY <2>3, <2>4 DEF PierwszyOd
<1>3. ASSUME NEW q \in Dziedzina, ~ (q > lim - n), ~ Wolny(W, q, n)
      PROVE  /\ PoPrzeszkodzie(W, q, n) \in Dziedzina /\ PoPrzeszkodzie(W, q, n) > q
             /\ f[q] = f[PoPrzeszkodzie(W, q, n)]
  <2>1. q <= lim - n
    BY <1>0, <1>3
  <2>2. /\ PoPrzeszkodzie(W, q, n) \in Dziedzina /\ PoPrzeszkodzie(W, q, n) > q
        /\ WolneOd(W, lim, n, q) = WolneOd(W, lim, n, PoPrzeszkodzie(W, q, n))
    BY <1>3, <2>1, Przeszkoda
  <2>3. QED
    BY <2>2 DEF PierwszyOd
<1> HIDE DEF f
<1>4. f = D(f)
  <2>1. f = [q \in Dziedzina |-> f[q]]
    BY DEF f
  <2>2. \A q \in Dziedzina : f[q] = D(f)[q]
    BY <1>1, <1>2, <1>3
  <2>3. QED
    BY <2>1, <2>2
<1>5. T = D(T)
  <2>1. T = CHOOSE g : g = D(g)
    OBVIOUS
  <2> HIDE DEF D
  <2>2. QED
    BY <1>4, <2>1
<1>6. \A q \in Dziedzina :
        T[q] = IF q > lim - n THEN NULL
               ELSE IF Wolny(W, q, n) THEN q ELSE T[PoPrzeszkodzie(W, q, n)]
  <2>1. \A q \in Dziedzina :
          D(T)[q] = IF q > lim - n THEN NULL
                    ELSE IF Wolny(W, q, n) THEN q ELSE T[PoPrzeszkodzie(W, q, n)]
    OBVIOUS
  <2> HIDE DEF D
  <2>2. QED
    BY <1>5, <2>1
<1>7. \A q \in Dziedzina : T[q] = f[q]
  <2> DEFINE Zle == { q \in Dziedzina : T[q] # f[q] }
  <2> SUFFICES ASSUME Zle # {} PROVE FALSE
    OBVIOUS
  <2>1. MAX_RAMEK + MAKS_CIAG + 1 \in Nat /\ Zle \subseteq 0 .. MAX_RAMEK + MAKS_CIAG + 1
    BY DEF Dziedzina
  <2>2. PICK x \in Zle : \A y \in Zle : x >= y
    <3> HIDE DEF Zle
    <3>1. QED
      BY <2>1, JestNajwieksza
  <2>3. x \in Dziedzina /\ T[x] # f[x]
    OBVIOUS
  <2>4. ~ (x > lim - n) /\ ~ Wolny(W, x, n)
    BY <1>1, <1>2, <1>6, <2>3
  <2>5. /\ PoPrzeszkodzie(W, x, n) \in Dziedzina /\ PoPrzeszkodzie(W, x, n) > x
        /\ f[x] = f[PoPrzeszkodzie(W, x, n)]
    BY <1>3, <2>3, <2>4
  <2>6. PoPrzeszkodzie(W, x, n) \notin Zle
    BY <1>0, <2>2, <2>3, <2>5
  <2>7. QED
    BY <1>6, <2>3, <2>4, <2>5, <2>6
<1>8. QED
  BY <1>7 DEF f

(* The loop that skips behind the first frame in the way returns the first *)
(* free run, and NULL only when there is none: for every bitmap, limit and *)
(* length (pmm.cpp 1332-1347).                                             *)
THEOREM PetlaJestPierwszymDopasowaniem == Spec => []PetlaZnajdujePierwszyCiag
<1> USE PmmZalozenia DEF PmmZalozenia
<1>1. ASSUME TypeOK, NEW n \in 1 .. MAKS_CIAG
      PROVE  IF WolneCiagi(n) = {} THEN PetlaPoCiagach(n) = NULL
             ELSE Najmniejsza(PetlaPoCiagach(n), WolneCiagi(n))
  <2>1. Limit \in 0 .. MAX_RAMEK
    BY <1>1 DEF TypeOK, Limit
  <2>2. NISKIE_RAMKI \in Dziedzina
    BY DEF Dziedzina
  <2>3. PetlaPoCiagach(n) = PierwszyOd(Wolne, Limit, n, NISKIE_RAMKI)
    <3> DEFINE T == CHOOSE g : g = [s \in Dziedzina |->
                 IF s > Limit - n THEN NULL
                 ELSE IF Wolny(Wolne, s, n) THEN s ELSE g[PoPrzeszkodzie(Wolne, s, n)]]
    <3>1. PetlaPoCiagach(n) = T[NISKIE_RAMKI]
      BY DEF PetlaPoCiagach, Dziedzina, Wolny, PoPrzeszkodzie
    <3>2. T[NISKIE_RAMKI] = PierwszyOd(Wolne, Limit, n, NISKIE_RAMKI)
      BY <2>1, <2>2, CoZnajdujePetla
    <3>3. QED
      BY <3>1, <3>2
  <2>4. WolneOd(Wolne, Limit, n, NISKIE_RAMKI) = WolneCiagi(n)
    BY DEF WolneOd, WolneCiagi, Wolny
  <2>5. CASE WolneCiagi(n) = {}
    BY <2>3, <2>4, <2>5 DEF PierwszyOd
  <2>6. CASE WolneCiagi(n) # {}
    <3>1. WolneCiagi(n) \subseteq Nat
      BY <2>1 DEF WolneCiagi
    <3>2. \E t : Najmniejsza(t, WolneCiagi(n))
      BY <2>6, <3>1, JestNajmniejsza DEF Najmniejsza
    <3>3. PetlaPoCiagach(n) = CHOOSE t : Najmniejsza(t, WolneCiagi(n))
      BY <2>3, <2>4, <2>6 DEF PierwszyOd
    <3>4. QED
      BY <2>6, <3>2, <3>3
  <2>7. QED
    BY <2>5, <2>6
<1>2. TypeOK => PetlaZnajdujePierwszyCiag
  BY <1>1 DEF PetlaZnajdujePierwszyCiag
<1>3. QED
  BY <1>2, PmmTypy, PTL

=============================================================================
