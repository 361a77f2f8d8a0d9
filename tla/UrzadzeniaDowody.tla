-------------------------- MODULE UrzadzeniaDowody --------------------------
(***************************************************************************)
(* Proofs about the devices: the AHCI disk, the rings of the network card, *)
(* the key buffer and the decoder of scan codes.  They share no state;     *)
(* each part has its own invariant and holds for every value of its own    *)
(* constants.                                                              *)
(***************************************************************************)
EXTENDS BuforKlawiatury, Klawiatura, Ahci, E1000, Lematy, SequenceTheorems

-----------------------------------------------------------------------------
(***************************************************************************)
(* Proofs about the AHCI driver, for every disk, every set of contents and *)
(* any number of operations that give up.                                  *)
(*                                                                         *)
(* DyskZgodny says nothing of the time an operation is under way, so it is *)
(* not inductive.  The invariant adds whose command the controller has     *)
(* (Wlasna), that the buffer of a command not yet moved is the one it was  *)
(* given with (BuforKomendy), what a write that may still be carried out   *)
(* is allowed to leave behind (DaneKomendy), and what the driver will find *)
(* when it sees the slot free (PrzedOdpowiedzia).                          *)
(***************************************************************************)

TrescSektora == Dane \cup {ZERO}

Typy ==
  /\ krok \in {"wolny", "przygotowana", "czekaj"}
  /\ praca \in {"nic", "zlecona", "przeslana", "zatrzymany"}
  /\ ci \in BOOLEAN /\ tfes \in BOOLEAN /\ nadpisany \in BOOLEAN
  /\ bufor \in TrescSektora
  /\ dysk \in [Sektory -> TrescSektora] /\ dozwolone \in [Sektory -> SUBSET Dane]
  /\ op \in [zapis : BOOLEAN, lba : Sektory \cup {0}, dane : TrescSektora]
  /\ krok # "wolny" => op \in Operacje
  /\ zakonczenie = "udana" => op.lba \in Sektory
  /\ praca # "nic" => komenda \in Operacje

(* The slot is taken exactly while the controller has a command, and the   *)
(* one of a driver that waits is its own; a command that failed is known.  *)
Wlasna ==
  /\ ci <=> praca # "nic"
  /\ krok = "czekaj" /\ praca # "nic" => komenda = op
  /\ krok = "czekaj" /\ praca = "zatrzymany" => tfes

BuforKomendy ==
  /\ krok = "przygotowana" => praca # "zlecona" /\ bufor = op.dane
  /\ praca = "zlecona" /\ komenda.zapis => bufor = komenda.dane

DaneKomendy ==
  /\ krok = "przygotowana" /\ op.zapis => op.dane \in dozwolone[op.lba]
  /\ praca = "zlecona" /\ komenda.zapis => komenda.dane \in dozwolone[komenda.lba]
  /\ \A s \in Sektory : dysk[s] \in dozwolone[s]

PrzedOdpowiedzia ==
  /\ krok = "czekaj" /\ praca \in {"przeslana", "nic"} =>
        IF op.zapis THEN dysk[op.lba] = op.dane ELSE bufor = dysk[op.lba]
  /\ zakonczenie = "udana" => krok = "wolny" /\ praca = "nic" /\ dysk[op.lba] = op.dane

InwDysku ==
  /\ Typy /\ Wlasna
  /\ ~ nadpisany => BuforKomendy /\ DaneKomendy /\ PrzedOdpowiedzia
-----------------------------------------------------------------------------
(* An operation is a write of some data or a read, of a sector of the disk.*)
LEMMA CoToOperacja ==
  ASSUME NEW o \in Operacje
  PROVE  /\ o \in [zapis : BOOLEAN, lba : Sektory \cup {0}, dane : TrescSektora]
         /\ o.lba \in Sektory /\ o.dane \in TrescSektora /\ o.zapis \in BOOLEAN
         /\ o.zapis => o.dane \in Dane
BY DEF Operacje, TrescSektora, ZERO

LEMMA InwNaPoczatku == AhciInit => InwDysku
<1> SUFFICES ASSUME AhciInit PROVE InwDysku
  OBVIOUS
<1>1. Typy
  BY DEF AhciInit, Typy, Puste, ZERO, TrescSektora
<1>2. Wlasna
  BY DEF AhciInit, Wlasna
<1>3. BuforKomendy /\ DaneKomendy /\ PrzedOdpowiedzia
  BY DEF AhciInit, BuforKomendy, DaneKomendy, PrzedOdpowiedzia
<1>4. QED
  BY <1>1, <1>2, <1>3 DEF InwDysku

LEMMA InwPoKroku == InwDysku /\ [AhciNext]_dyskAhci => InwDysku'
<1> SUFFICES ASSUME InwDysku, [AhciNext]_dyskAhci PROVE InwDysku'
  OBVIOUS
<1> USE DEF InwDysku
<1>1. CASE UNCHANGED dyskAhci
  BY <1>1 DEF dyskAhci, sterownik, kontroler, Typy, Wlasna, BuforKomendy, DaneKomendy,
              PrzedOdpowiedzia
<1>2. ASSUME NEW o \in Operacje, Przygotuj(o) PROVE InwDysku'
  <2> USE <1>2, CoToOperacja DEF Przygotuj, kontroler
  <2>1. Typy'
    BY DEF Typy
  <2>2. Wlasna'
    BY DEF Wlasna
  <2>3. ASSUME ~ nadpisany' PROVE BuforKomendy' /\ DaneKomendy' /\ PrzedOdpowiedzia'
    <3>1. ~ nadpisany /\ praca # "zlecona"
      BY <2>3 DEF Typy
    <3>2. BuforKomendy' /\ PrzedOdpowiedzia'
      BY <3>1 DEF BuforKomendy, PrzedOdpowiedzia
    <3>3. DaneKomendy'
      BY <3>1 DEF DaneKomendy, Typy
    <3>4. QED
      BY <3>2, <3>3
  <2>4. QED
    BY <2>1, <2>2, <2>3
<1>3. CASE Odmowa
  <2> USE <1>3 DEF Odmowa, KoniecOperacji, kontroler
  <2>1. Typy' /\ Wlasna'
    BY DEF Typy, Wlasna
  <2>2. ~ nadpisany' => BuforKomendy' /\ DaneKomendy' /\ PrzedOdpowiedzia'
    BY DEF BuforKomendy, DaneKomendy, PrzedOdpowiedzia
  <2>3. QED
    BY <2>1, <2>2
<1>4. CASE Uruchom
  <2> USE <1>4 DEF Uruchom, Zlec
  <2>1. Typy' /\ Wlasna'
    BY DEF Typy, Wlasna
  <2>2. ~ nadpisany' => BuforKomendy' /\ DaneKomendy' /\ PrzedOdpowiedzia'
    BY DEF BuforKomendy, DaneKomendy, PrzedOdpowiedzia
  <2>3. QED
    BY <2>1, <2>2
<1>5. CASE Udana
  <2> USE <1>5 DEF Udana, KoniecOperacji, kontroler
  <2>1. op \in Operacje /\ praca = "nic"
    BY DEF Typy, Wlasna
  <2>2. op'.lba = op.lba /\ op' \in [zapis : BOOLEAN, lba : Sektory \cup {0}, dane : TrescSektora]
    BY <2>1, CoToOperacja DEF Typy
  <2>3. dozwolone' \in [Sektory -> SUBSET Dane]
    BY <2>1, CoToOperacja DEF Typy
  <2>4. Typy' /\ Wlasna'
    BY <2>1, <2>2, <2>3, CoToOperacja DEF Typy, Wlasna
  <2>5. ASSUME ~ nadpisany PROVE BuforKomendy' /\ DaneKomendy' /\ PrzedOdpowiedzia'
    <3>1. dysk[op.lba] = op'.dane
      BY <2>1, <2>5 DEF PrzedOdpowiedzia, Typy
    <3>2. \A s \in Sektory : dysk[s] \in dozwolone'[s]
      BY <2>1, <2>5 DEF PrzedOdpowiedzia, DaneKomendy, Typy
    <3>3. QED
      BY <2>1, <2>2, <3>1, <3>2 DEF BuforKomendy, DaneKomendy, PrzedOdpowiedzia
  <2>6. QED
    BY <2>4, <2>5
<1>6. CASE BladZadania
  <2> USE <1>6 DEF BladZadania, KoniecOperacji, kontroler
  <2>1. Typy' /\ Wlasna'
    BY DEF Typy, Wlasna
  <2>2. ~ nadpisany' => BuforKomendy' /\ DaneKomendy' /\ PrzedOdpowiedzia'
    BY DEF BuforKomendy, DaneKomendy, PrzedOdpowiedzia
  <2>3. QED
    BY <2>1, <2>2
<1>7. CASE LimitCzasu
  <2> USE <1>7 DEF LimitCzasu, KoniecOperacji, kontroler
  <2>1. Typy' /\ Wlasna'
    BY DEF Typy, Wlasna
  <2>2. ~ nadpisany' => BuforKomendy' /\ DaneKomendy' /\ PrzedOdpowiedzia'
    BY DEF BuforKomendy, DaneKomendy, PrzedOdpowiedzia
  <2>3. QED
    BY <2>1, <2>2
<1>8. CASE Przeslij
  <2> USE <1>8 DEF Przeslij, sterownik
  <2>1. komenda \in Operacje
    BY DEF Typy
  <2>2. Typy' /\ Wlasna'
    BY <2>1, CoToOperacja DEF Typy, Wlasna
  <2>3. ASSUME ~ nadpisany PROVE BuforKomendy' /\ DaneKomendy' /\ PrzedOdpowiedzia'
    <3>1. krok # "przygotowana" /\ zakonczenie # "udana"
      BY <2>3 DEF BuforKomendy, PrzedOdpowiedzia
    <3>2. DaneKomendy'
      BY <2>1, <2>3, <3>1, CoToOperacja DEF BuforKomendy, DaneKomendy, Typy
    <3>3. PrzedOdpowiedzia'
      BY <2>1, <2>3, <3>1, CoToOperacja DEF BuforKomendy, PrzedOdpowiedzia, Wlasna, Typy
    <3>4. QED
      BY <3>1, <3>2, <3>3 DEF BuforKomendy
  <2>4. QED
    BY <2>2, <2>3
<1>9. CASE Zakoncz
  <2> USE <1>9 DEF Zakoncz, sterownik
  <2>1. Typy' /\ Wlasna'
    BY DEF Typy, Wlasna
  <2>2. ~ nadpisany' => BuforKomendy' /\ DaneKomendy' /\ PrzedOdpowiedzia'
    BY DEF BuforKomendy, DaneKomendy, PrzedOdpowiedzia
  <2>3. QED
    BY <2>1, <2>2
<1>10. CASE Zawiedz
  <2> USE <1>10 DEF Zawiedz, sterownik
  <2>1. Typy' /\ Wlasna'
    BY DEF Typy, Wlasna
  <2>2. ~ nadpisany' => BuforKomendy' /\ DaneKomendy' /\ PrzedOdpowiedzia'
    BY DEF BuforKomendy, DaneKomendy, PrzedOdpowiedzia
  <2>3. QED
    BY <2>1, <2>2
<1>11. QED
  BY <1>1, <1>2, <1>3, <1>4, <1>5, <1>6, <1>7, <1>8, <1>9, <1>10 DEF AhciNext

(* An operation that answered with success has done what it says, and a    *)
(* sector holds what was last written with success or what a failed write  *)
(* tried to store, whatever operations gave up, failed or were refused in  *)
(* between, as long as no buffer was filled anew under a command given up  *)
(* (ahci.cpp 1877-1979 and 2310-2527).                                     *)
THEOREM OperacjeRobiaCoMowia == AhciSpec => []DyskZgodny
<1>1. InwDysku => DyskZgodny
  BY DEF InwDysku, DyskZgodny, Wykonana, DaneKomendy, PrzedOdpowiedzia
<1>2. QED
  BY <1>1, InwNaPoczatku, InwPoKroku, PTL DEF AhciSpec

-----------------------------------------------------------------------------
(***************************************************************************)
(* Proofs about the rings of the network card, for rings of any size.      *)
(*                                                                         *)
(* The invariant names the descriptors by their distance from the head     *)
(* (module Lematy): the ones nearer than the number of frames under way    *)
(* are the card's.  A sending ring that was filled while nothing was sent  *)
(* is a case of its own (Zapelniony): it stays as it is for ever.          *)
(***************************************************************************)

NTX == E1000_NUM_TX_DESC
NRX == E1000_NUM_RX_DESC

TypyNadawania ==
  /\ tdh \in TX /\ tdt \in TX /\ tx_aktualny = tdt
  /\ tx_dd \in [TX -> BOOLEAN] /\ tx_ramka \in [TX -> RamkiSieci \cup {BRAK}]
  /\ doNadania \in Seq(RamkiSieci)

Zapelniony ==
  /\ Len(doNadania) = NTX /\ tdh = tdt
  /\ \A d \in TX : ~ tx_dd[d]

WToku ==
  /\ Len(doNadania) = Odleglosc(tdh, tdt, NTX)
  /\ Zawiera(tx_ramka, tdh, NTX, doNadania)
  /\ \A d \in TX : tx_dd[d] <=> Odleglosc(tdh, d, NTX) >= Len(doNadania)

InwNadawania == TypyNadawania /\ (Zapelniony \/ WToku)

TypyOdbioru ==
  /\ rx_aktualny \in RX /\ rdh \in RX /\ rdt \in RX
  /\ rx_dd \in [RX -> BOOLEAN] /\ rx_ramka \in [RX -> RamkiSieci \cup {BRAK}]
  /\ odebrane \in Seq(RamkiSieci)

Odbierane ==
  /\ Len(odebrane) = Odleglosc(rx_aktualny, rdh, NRX)
  /\ Zawiera(rx_ramka, rx_aktualny, NRX, odebrane)
  /\ \A d \in RX : rx_dd[d] <=> Odleglosc(rx_aktualny, d, NRX) < Len(odebrane)
  /\ rx_aktualny = Przesun(rdt, 1, NRX)
  /\ odbiorca \in {"stos", "oddaj"} => odebrane # <<>>

InwOdbioru == TypyOdbioru /\ Odbierane
-----------------------------------------------------------------------------
(* The sending ring.                                                       *)

LEMMA NadawanieInit == KartaZalozenia /\ E1000Init => InwNadawania
<1> SUFFICES ASSUME KartaZalozenia, E1000Init PROVE InwNadawania
  OBVIOUS
<1>1. NTX \in Nat /\ NTX > 0 /\ TX = 0 .. NTX - 1 /\ 0 \in TX
  BY DEF KartaZalozenia, NTX, TX
<1>2. TypyNadawania
  BY <1>1 DEF E1000Init, TypyNadawania, BRAK
<1>3. \A d \in TX : Odleglosc(0, d, NTX) \in 0 .. NTX - 1
  BY <1>1, CoToOdleglosc
<1>4. Odleglosc(0, 0, NTX) = 0
  BY <1>1, CoToOdleglosc
<1>5. WToku
  BY <1>1, <1>3, <1>4 DEF E1000Init, WToku, Zawiera
<1>6. QED
  BY <1>2, <1>5 DEF InwNadawania

(* A frame is filled in: the slot at the tail is the one behind the last   *)
(* frame, since it is done.                                                *)
LEMMA WysylanieInw ==
  ASSUME KartaZalozenia, InwNadawania, NEW f \in RamkiSieci, e1000_wyslij_pakiet(f)
  PROVE  InwNadawania'
<1> DEFINE t == tdt
           nast == Przesun(t, 1, NTX)
<1>1. /\ NTX \in Nat /\ NTX > 0 /\ TX = 0 .. NTX - 1 /\ tdh \in TX /\ t \in TX
      /\ doNadania \in Seq(RamkiSieci) /\ Len(doNadania) \in Nat
      /\ tx_dd \in [TX -> BOOLEAN] /\ tx_ramka \in [TX -> RamkiSieci \cup {BRAK}]
  BY DEF KartaZalozenia, NTX, TX, InwNadawania, TypyNadawania
<1>2. /\ tx_dd[t] /\ tx_dd' = [tx_dd EXCEPT ![t] = FALSE]
      /\ tx_ramka' = [tx_ramka EXCEPT ![t] = f]
      /\ tx_aktualny' = nast /\ tdt' = nast /\ tdh' = tdh
      /\ doNadania' = Append(doNadania, f)
  BY DEF e1000_wyslij_pakiet, Wolny, Przesun, NTX, InwNadawania, TypyNadawania
<1>3. WToku
  BY <1>1, <1>2 DEF InwNadawania, Zapelniony
<1>4. nast \in TX /\ Odleglosc(tdh, t, NTX) \in 0 .. NTX - 1
  BY <1>1, KrokOdleglosci, CoToOdleglosc
<1>5. TypyNadawania'
  BY <1>1, <1>2, <1>4 DEF TypyNadawania
<1>6. Len(doNadania) < NTX /\ Przesun(tdh, Len(doNadania), NTX) = t
  BY <1>1, <1>3, <1>4, TamIZPowrotem DEF WToku
<1>7. Len(doNadania') = Len(doNadania) + 1
  BY <1>1, <1>2
<1>8. Odleglosc(tdh, nast, NTX)
        = IF Odleglosc(tdh, t, NTX) = NTX - 1 THEN 0 ELSE Odleglosc(tdh, t, NTX) + 1
  BY <1>1, KrokOdleglosci
<1>9. \A d \in TX : /\ Odleglosc(tdh, d, NTX) \in 0 .. NTX - 1
                    /\ Odleglosc(tdh, d, NTX) = Odleglosc(tdh, t, NTX) => d = t
  <2> SUFFICES ASSUME NEW d \in TX
               PROVE  /\ Odleglosc(tdh, d, NTX) \in 0 .. NTX - 1
                      /\ Odleglosc(tdh, d, NTX) = Odleglosc(tdh, t, NTX) => d = t
    OBVIOUS
  <2>1. Odleglosc(tdh, d, NTX) \in 0 .. NTX - 1
    BY <1>1, CoToOdleglosc
  <2>2. ASSUME Odleglosc(tdh, d, NTX) = Odleglosc(tdh, t, NTX) PROVE d = t
    BY <1>1, <2>2, RozneOdleglosci
  <2>3. QED
    BY <2>1, <2>2
<1>10. \A d \in TX : tx_dd'[d] <=> Odleglosc(tdh, d, NTX) >= Len(doNadania')
  <2> SUFFICES ASSUME NEW d \in TX
               PROVE  tx_dd'[d] <=> Odleglosc(tdh, d, NTX) >= Len(doNadania')
    OBVIOUS
  <2>1. /\ Odleglosc(tdh, d, NTX) \in Int /\ Odleglosc(tdh, t, NTX) = Len(doNadania)
        /\ tx_dd[d] <=> Odleglosc(tdh, d, NTX) >= Len(doNadania)
    <3>1. Odleglosc(tdh, d, NTX) \in Int
      BY <1>1, <1>9
    <3>2. QED
      BY <1>3, <3>1 DEF WToku
  <2>2. CASE d = t
    BY <1>1, <1>2, <1>7, <2>1, <2>2
  <2>3. CASE d # t
    <3>1. tx_dd'[d] <=> tx_dd[d]
      BY <1>1, <1>2, <2>3
    <3>2. Odleglosc(tdh, d, NTX) # Len(doNadania)
      <4>1. Odleglosc(tdh, d, NTX) = Odleglosc(tdh, t, NTX) => d = t
        BY <1>9
      <4>2. QED
        BY <2>1, <2>3, <4>1
    <3>3. QED
      BY <1>1, <1>7, <2>1, <3>1, <3>2
  <2>4. QED
    BY <2>2, <2>3
<1>11. CASE Len(doNadania) = NTX - 1
  <2>1. nast = tdh
    <3>1. Odleglosc(tdh, t, NTX) = NTX - 1
      BY <1>3, <1>11 DEF WToku
    <3>2. QED
      BY <1>1, <3>1, KrokOdleglosci
  <2>2. \A d \in TX : ~ tx_dd'[d]
    <3> SUFFICES ASSUME NEW d \in TX PROVE ~ tx_dd'[d]
      OBVIOUS
    <3>1. Odleglosc(tdh, d, NTX) \in 0 .. NTX - 1 /\ Len(doNadania') = NTX
      <4>1. Len(doNadania') = NTX
        BY <1>1, <1>7, <1>11
      <4>2. QED
        BY <1>9, <4>1
    <3>2. ~ (Odleglosc(tdh, d, NTX) >= Len(doNadania'))
      BY <1>1, <3>1
    <3>3. QED
      BY <1>10, <3>2
  <2>3. Zapelniony'
    BY <1>1, <1>2, <1>7, <1>11, <2>1, <2>2 DEF Zapelniony
  <2>4. QED
    BY <1>5, <2>3 DEF InwNadawania
<1>12. CASE Len(doNadania) # NTX - 1
  <2>1. Len(doNadania') = Odleglosc(tdh, nast, NTX)
    BY <1>3, <1>7, <1>8, <1>12 DEF WToku
  <2>2. Zawiera(tx_ramka', tdh, NTX, doNadania')
    BY <1>1, <1>2, <1>3, <1>6, Dopisanie DEF WToku
  <2>3. WToku'
    BY <1>2, <1>10, <2>1, <2>2 DEF WToku
  <2>4. QED
    BY <1>5, <2>3 DEF InwNadawania
<1>13. QED
  BY <1>11, <1>12

(* The card sends the frame at its head: the first one.                    *)
LEMMA NadanieInw ==
  ASSUME KartaZalozenia, InwNadawania, KartaNadaje
  PROVE  InwNadawania'
<1> DEFINE g == Przesun(tdh, 1, NTX)
<1>1. /\ NTX \in Nat /\ NTX > 0 /\ TX = 0 .. NTX - 1 /\ tdh \in TX /\ tdt \in TX
      /\ doNadania \in Seq(RamkiSieci) /\ Len(doNadania) \in Nat
      /\ tx_dd \in [TX -> BOOLEAN] /\ tx_ramka \in [TX -> RamkiSieci \cup {BRAK}]
  BY DEF KartaZalozenia, NTX, TX, InwNadawania, TypyNadawania
<1>2. WToku /\ tdh # tdt
  BY DEF InwNadawania, Zapelniony, KartaNadaje
<1>3. Len(doNadania) \in 1 .. NTX - 1 /\ doNadania # <<>>
  <2>1. Odleglosc(tdh, tdt, NTX) # 0
    BY <1>1, <1>2, KrokOdleglosci
  <2>2. Odleglosc(tdh, tdt, NTX) \in 0 .. NTX - 1
    BY <1>1, CoToOdleglosc
  <2>3. QED
    BY <1>1, <1>2, <2>1, <2>2 DEF WToku
<1>4. /\ tx_dd' = [tx_dd EXCEPT ![tdh] = TRUE]
      /\ tx_ramka' = [tx_ramka EXCEPT ![tdh] = BRAK]
      /\ tx_aktualny' = tx_aktualny /\ tdt' = tdt /\ tdh' = g
      /\ doNadania' = Tail(doNadania)
  BY <1>3 DEF KartaNadaje, Przesun, NTX
<1>5. g \in TX
  BY <1>1, KrokOdleglosci
<1>6. TypyNadawania'
  BY <1>1, <1>3, <1>4, <1>5 DEF InwNadawania, TypyNadawania
<1>7. Len(doNadania') = Len(doNadania) - 1
  BY <1>1, <1>3, <1>4
<1>8. \A d \in TX : /\ Odleglosc(tdh, d, NTX) \in 0 .. NTX - 1
                    /\ Odleglosc(g, d, NTX)
                         = IF d = tdh THEN NTX - 1 ELSE Odleglosc(tdh, d, NTX) - 1
  <2> SUFFICES ASSUME NEW d \in TX
               PROVE  /\ Odleglosc(tdh, d, NTX) \in 0 .. NTX - 1
                      /\ Odleglosc(g, d, NTX)
                           = IF d = tdh THEN NTX - 1 ELSE Odleglosc(tdh, d, NTX) - 1
    OBVIOUS
  <2>1. Odleglosc(tdh, d, NTX) \in 0 .. NTX - 1
    BY <1>1, CoToOdleglosc
  <2>2. (Odleglosc(tdh, d, NTX) = 0) <=> tdh = d
    BY <1>1, KrokOdleglosci
  <2>3. Odleglosc(g, d, NTX)
          = IF Odleglosc(tdh, d, NTX) = 0 THEN NTX - 1 ELSE Odleglosc(tdh, d, NTX) - 1
    BY <1>1, KrokOdleglosci
  <2>4. QED
    BY <2>1, <2>2, <2>3
<1>9. Len(doNadania') = Odleglosc(g, tdt, NTX)
  BY <1>1, <1>2, <1>7, <1>8 DEF WToku
<1>10. \A d \in TX : tx_dd'[d] <=> Odleglosc(g, d, NTX) >= Len(doNadania')
  <2> SUFFICES ASSUME NEW d \in TX
               PROVE  tx_dd'[d] <=> Odleglosc(g, d, NTX) >= Len(doNadania')
    OBVIOUS
  <2>1. tx_dd[d] <=> Odleglosc(tdh, d, NTX) >= Len(doNadania)
    BY <1>2 DEF WToku
  <2>2. CASE d = tdh
    BY <1>1, <1>3, <1>4, <1>7, <1>8, <2>2
  <2>3. CASE d # tdh
    <3>1. tx_dd'[d] <=> tx_dd[d]
      BY <1>1, <1>4, <2>3
    <3>2. Odleglosc(g, d, NTX) = Odleglosc(tdh, d, NTX) - 1 /\ Odleglosc(tdh, d, NTX) \in Int
      <4>1. /\ Odleglosc(tdh, d, NTX) \in 0 .. NTX - 1
            /\ Odleglosc(g, d, NTX)
                 = IF d = tdh THEN NTX - 1 ELSE Odleglosc(tdh, d, NTX) - 1
        BY <1>8
      <4>2. QED
        BY <1>1, <2>3, <4>1
    <3>3. QED
      BY <1>1, <1>7, <2>1, <3>1, <3>2
  <2>4. QED
    BY <2>2, <2>3
<1>11. Zawiera(tx_ramka', g, NTX, doNadania')
  <2>1. Zawiera(tx_ramka, tdh, NTX, doNadania) /\ Len(doNadania) <= NTX
    BY <1>1, <1>2, <1>3 DEF WToku
  <2>2. Zawiera([tx_ramka EXCEPT ![tdh] = BRAK], g, NTX, Tail(doNadania))
    BY <1>1, <1>3, <2>1, Zdjecie
  <2>3. QED
    BY <1>4, <2>2
<1>12. WToku'
  BY <1>4, <1>9, <1>10, <1>11 DEF WToku
<1>13. QED
  BY <1>6, <1>12 DEF InwNadawania

LEMMA NadawanieNext == KartaZalozenia /\ InwNadawania /\ [E1000Next]_karta => InwNadawania'
<1> SUFFICES ASSUME KartaZalozenia, InwNadawania, [E1000Next]_karta PROVE InwNadawania'
  OBVIOUS
<1>1. ASSUME UNCHANGED <<tx_aktualny, tx_dd, tx_ramka, tdh, tdt, doNadania>>
      PROVE  InwNadawania'
  BY <1>1 DEF InwNadawania, TypyNadawania, Zapelniony, WToku
<1>2. ASSUME NEW f \in RamkiSieci \ Zle, e1000_wyslij_pakiet(f) PROVE InwNadawania'
  BY <1>2, WysylanieInw
<1>3. CASE KartaNadaje
  BY <1>3, NadanieInw
<1>4. CASE KoniecCzekania \/ ZmianaLacza
  BY <1>1, <1>4 DEF KoniecCzekania, ZmianaLacza
<1>5. CASE ZacznijOdbior \/ Przekaz \/ obsluz_pakiet_sieciowy \/ Oddaj \/ KoniecOdbioru
  BY <1>1, <1>5 DEF ZacznijOdbior, Przekaz, obsluz_pakiet_sieciowy, Oddaj, KoniecOdbioru,
                    nadawanie
<1>6. ASSUME NEW f \in RamkiSieci, KartaOdbiera(f) PROVE InwNadawania'
  BY <1>1, <1>6 DEF KartaOdbiera, nadawanie
<1>7. CASE UNCHANGED karta
  BY <1>1, <1>7 DEF karta, nadawanie
<1>8. QED
  BY <1>2, <1>3, <1>4, <1>5, <1>6, <1>7 DEF E1000Next

-----------------------------------------------------------------------------
(* The receiving ring.                                                     *)

LEMMA OdbiorInit == KartaZalozenia /\ E1000Init => InwOdbioru
<1> SUFFICES ASSUME KartaZalozenia, E1000Init PROVE InwOdbioru
  OBVIOUS
<1>1. NRX \in Nat /\ NRX > 0 /\ RX = 0 .. NRX - 1 /\ 0 \in RX /\ NRX - 1 \in RX
  BY DEF KartaZalozenia, NRX, RX
<1>2. TypyOdbioru
  BY <1>1 DEF E1000Init, TypyOdbioru, BRAK, NRX
<1>3. \A d \in RX : Odleglosc(0, d, NRX) \in 0 .. NRX - 1
  BY <1>1, CoToOdleglosc
<1>4. Odleglosc(0, 0, NRX) = 0
  BY <1>1, CoToOdleglosc
<1>5. Przesun(NRX - 1, 1, NRX) = 0
  BY <1>1, CoToPrzesun, 1 \in 0 .. NRX
<1>6. \A d \in RX : rx_dd[d] <=> Odleglosc(rx_aktualny, d, NRX) < Len(odebrane)
  BY <1>1, <1>3 DEF E1000Init
<1>7. Odbierane
  BY <1>1, <1>4, <1>5, <1>6 DEF E1000Init, Odbierane, Zawiera, NRX
<1>8. QED
  BY <1>2, <1>7 DEF InwOdbioru

(* The card stores a frame: behind the last one, and not in the slot that  *)
(* the driver gave back last.                                              *)
LEMMA OdebranieInw ==
  ASSUME KartaZalozenia, InwOdbioru, NEW f \in RamkiSieci, KartaOdbiera(f)
  PROVE  InwOdbioru'
<1> DEFINE a == rx_aktualny
           g == Przesun(rdh, 1, NRX)
           m == Len(odebrane)
<1>1. /\ NRX \in Nat /\ NRX > 0 /\ RX = 0 .. NRX - 1 /\ a \in RX /\ rdh \in RX /\ rdt \in RX
      /\ odebrane \in Seq(RamkiSieci) /\ m \in Nat
      /\ rx_dd \in [RX -> BOOLEAN] /\ rx_ramka \in [RX -> RamkiSieci \cup {BRAK}]
  BY DEF KartaZalozenia, NRX, RX, InwOdbioru, TypyOdbioru
<1>2. /\ rdh # rdt
      /\ rx_dd' = [rx_dd EXCEPT ![rdh] = TRUE] /\ rx_ramka' = [rx_ramka EXCEPT ![rdh] = f]
      /\ rdh' = g /\ odebrane' = Append(odebrane, f)
      /\ rx_aktualny' = a /\ rdt' = rdt /\ odbiorca' = odbiorca
  BY DEF KartaOdbiera, Przesun, NRX
<1>3. Odbierane
  BY DEF InwOdbioru
<1>4. m \in 0 .. NRX - 1 /\ Przesun(a, m, NRX) = rdh
  BY <1>1, <1>3, CoToOdleglosc, TamIZPowrotem DEF Odbierane
<1>5. m < NRX - 1
  <2>1. Odleglosc(a, rdt, NRX) = NRX - 1
    BY <1>1, <1>3, KrokOdleglosci DEF Odbierane
  <2>2. Odleglosc(a, rdh, NRX) # Odleglosc(a, rdt, NRX)
    BY <1>1, <1>2, RozneOdleglosci
  <2>3. QED
    BY <1>1, <1>3, <1>4, <2>1, <2>2 DEF Odbierane
<1>6. g \in RX /\ Odleglosc(a, g, NRX) = m + 1
  <2>1. Odleglosc(a, rdh, NRX) = m /\ m # NRX - 1
    BY <1>1, <1>3, <1>5 DEF Odbierane
  <2>2. g \in RX
    BY <1>1, KrokOdleglosci
  <2>3. Odleglosc(a, g, NRX)
          = IF Odleglosc(a, rdh, NRX) = NRX - 1 THEN 0 ELSE Odleglosc(a, rdh, NRX) + 1
    BY <1>1, KrokOdleglosci
  <2>4. QED
    BY <2>1, <2>2, <2>3
<1>7. Len(odebrane') = m + 1 /\ odebrane' # <<>> /\ odebrane' \in Seq(RamkiSieci)
  <2>1. Len(odebrane') = m + 1 /\ odebrane' \in Seq(RamkiSieci)
    BY <1>1, <1>2
  <2>2. QED
    BY <1>1, <2>1
<1>8. TypyOdbioru'
  BY <1>1, <1>2, <1>6, <1>7 DEF TypyOdbioru
<1>9. \A d \in RX : rx_dd'[d] <=> Odleglosc(a, d, NRX) < m + 1
  <2> SUFFICES ASSUME NEW d \in RX PROVE rx_dd'[d] <=> Odleglosc(a, d, NRX) < m + 1
    OBVIOUS
  <2>1. Odleglosc(a, d, NRX) \in 0 .. NRX - 1 /\ Odleglosc(a, rdh, NRX) = m
    BY <1>1, <1>3, CoToOdleglosc DEF Odbierane
  <2>2. rx_dd[d] <=> Odleglosc(a, d, NRX) < m
    BY <1>3 DEF Odbierane
  <2>3. CASE d = rdh
    BY <1>1, <1>2, <2>1, <2>3
  <2>4. CASE d # rdh
    <3>1. rx_dd'[d] <=> rx_dd[d]
      BY <1>1, <1>2, <2>4
    <3>2. Odleglosc(a, d, NRX) # m
      BY <1>1, <2>1, <2>4, RozneOdleglosci
    <3>3. QED
      BY <1>1, <2>1, <2>2, <3>1, <3>2
  <2>5. QED
    BY <2>3, <2>4
<1>10. Zawiera(rx_ramka', a, NRX, odebrane')
  <2>1. Zawiera(rx_ramka, a, NRX, odebrane) /\ m < NRX
    BY <1>1, <1>3, <1>4 DEF Odbierane
  <2>2. Zawiera([rx_ramka EXCEPT ![Przesun(a, m, NRX)] = f], a, NRX, Append(odebrane, f))
    BY <1>1, <2>1, Dopisanie
  <2>3. QED
    BY <1>2, <1>4, <2>2
<1>11. Odbierane'
  BY <1>2, <1>3, <1>6, <1>7, <1>9, <1>10 DEF Odbierane
<1>12. QED
  BY <1>8, <1>11 DEF InwOdbioru

(* The driver gives a descriptor back: the one of the first frame.         *)
LEMMA OddanieInw ==
  ASSUME KartaZalozenia, InwOdbioru, Oddaj
  PROVE  InwOdbioru'
<1> DEFINE a == rx_aktualny
           g == Przesun(a, 1, NRX)
           m == Len(odebrane)
<1>1. /\ NRX \in Nat /\ NRX > 0 /\ RX = 0 .. NRX - 1 /\ a \in RX /\ rdh \in RX
      /\ odebrane \in Seq(RamkiSieci) /\ m \in Nat
      /\ rx_dd \in [RX -> BOOLEAN] /\ rx_ramka \in [RX -> RamkiSieci \cup {BRAK}]
  BY DEF KartaZalozenia, NRX, RX, InwOdbioru, TypyOdbioru
<1>2. /\ odbiorca = "oddaj" /\ odbiorca' = "petla"
      /\ rx_dd' = [rx_dd EXCEPT ![a] = FALSE] /\ rx_ramka' = [rx_ramka EXCEPT ![a] = BRAK]
      /\ rdt' = a /\ rx_aktualny' = g /\ odebrane' = Tail(odebrane) /\ rdh' = rdh
  BY DEF Oddaj, Przesun, NRX
<1>3. Odbierane /\ odebrane # <<>>
  BY <1>2 DEF InwOdbioru, Odbierane
<1>4. m \in 1 .. NRX - 1 /\ Odleglosc(a, rdh, NRX) = m
  <2>1. Odleglosc(a, rdh, NRX) \in 0 .. NRX - 1
    BY <1>1, CoToOdleglosc
  <2>2. m # 0 /\ Odleglosc(a, rdh, NRX) = m
    BY <1>1, <1>3 DEF Odbierane
  <2>3. QED
    BY <1>1, <2>1, <2>2
<1>5. g \in RX /\ Odleglosc(g, rdh, NRX) = m - 1
  <2>1. Odleglosc(a, rdh, NRX) # 0
    BY <1>1, <1>4
  <2>2. g \in RX
    BY <1>1, KrokOdleglosci
  <2>3. Odleglosc(g, rdh, NRX)
          = IF Odleglosc(a, rdh, NRX) = 0 THEN NRX - 1 ELSE Odleglosc(a, rdh, NRX) - 1
    BY <1>1, KrokOdleglosci
  <2>4. QED
    BY <1>4, <2>1, <2>2, <2>3
<1>6. Len(odebrane') = m - 1 /\ odebrane' \in Seq(RamkiSieci)
  BY <1>1, <1>2, <1>3
<1>7. TypyOdbioru'
  BY <1>1, <1>2, <1>5, <1>6 DEF TypyOdbioru
<1>8. \A d \in RX : rx_dd'[d] <=> Odleglosc(g, d, NRX) < m - 1
  <2> SUFFICES ASSUME NEW d \in RX PROVE rx_dd'[d] <=> Odleglosc(g, d, NRX) < m - 1
    OBVIOUS
  <2>1. Odleglosc(a, d, NRX) \in 0 .. NRX - 1
    BY <1>1, CoToOdleglosc
  <2>2. (Odleglosc(a, d, NRX) = 0) <=> a = d
    BY <1>1, KrokOdleglosci
  <2>3. Odleglosc(g, d, NRX)
          = IF Odleglosc(a, d, NRX) = 0 THEN NRX - 1 ELSE Odleglosc(a, d, NRX) - 1
    BY <1>1, KrokOdleglosci
  <2>4. rx_dd[d] <=> Odleglosc(a, d, NRX) < m
    BY <1>3 DEF Odbierane
  <2>5. CASE d = a
    BY <1>1, <1>2, <1>4, <2>2, <2>3, <2>5
  <2>6. CASE d # a
    <3>1. rx_dd'[d] <=> rx_dd[d]
      BY <1>1, <1>2, <2>6
    <3>2. QED
      BY <1>1, <2>1, <2>2, <2>3, <2>4, <2>6, <3>1
  <2>7. QED
    BY <2>5, <2>6
<1>9. Zawiera(rx_ramka', g, NRX, odebrane')
  <2>1. Zawiera(rx_ramka, a, NRX, odebrane) /\ m <= NRX
    BY <1>1, <1>3, <1>4 DEF Odbierane
  <2>2. Zawiera([rx_ramka EXCEPT ![a] = BRAK], g, NRX, Tail(odebrane))
    BY <1>1, <1>3, <2>1, Zdjecie
  <2>3. QED
    BY <1>2, <2>2
<1>10. Odbierane'
  BY <1>2, <1>5, <1>6, <1>8, <1>9 DEF Odbierane
<1>11. QED
  BY <1>7, <1>10 DEF InwOdbioru

(* A descriptor that is done is that of the first frame.                   *)
LEMMA PrzekazanieInw ==
  ASSUME KartaZalozenia, InwOdbioru, Przekaz
  PROVE  InwOdbioru'
<1>1. NRX \in Nat /\ NRX > 0 /\ RX = 0 .. NRX - 1 /\ rx_aktualny \in RX
  BY DEF KartaZalozenia, NRX, RX, InwOdbioru, TypyOdbioru
<1>2. Odleglosc(rx_aktualny, rx_aktualny, NRX) < Len(odebrane)
  BY <1>1 DEF InwOdbioru, Odbierane, Przekaz
<1>3. Odleglosc(rx_aktualny, rx_aktualny, NRX) = 0
  BY <1>1, KrokOdleglosci
<1>4. odebrane # <<>>
  BY <1>2, <1>3
<1>5. QED
  BY <1>4 DEF InwOdbioru, TypyOdbioru, Odbierane, Przekaz

LEMMA OdbiorNext == KartaZalozenia /\ InwOdbioru /\ [E1000Next]_karta => InwOdbioru'
<1> SUFFICES ASSUME KartaZalozenia, InwOdbioru, [E1000Next]_karta PROVE InwOdbioru'
  OBVIOUS
<1>1. ASSUME UNCHANGED odbior PROVE InwOdbioru'
  BY <1>1 DEF InwOdbioru, TypyOdbioru, Odbierane, odbior
<1>2. ASSUME NEW f \in RamkiSieci \ Zle, e1000_wyslij_pakiet(f) PROVE InwOdbioru'
  BY <1>1, <1>2 DEF e1000_wyslij_pakiet
<1>3. CASE KoniecCzekania \/ KartaNadaje \/ ZmianaLacza
  BY <1>1, <1>3 DEF KoniecCzekania, KartaNadaje, ZmianaLacza
<1>4. CASE ZacznijOdbior \/ KoniecOdbioru
  BY <1>4 DEF InwOdbioru, TypyOdbioru, Odbierane, ZacznijOdbior, KoniecOdbioru
<1>5. CASE Przekaz
  BY <1>5, PrzekazanieInw
<1>6. CASE obsluz_pakiet_sieciowy
  BY <1>6 DEF InwOdbioru, TypyOdbioru, Odbierane, obsluz_pakiet_sieciowy
<1>7. CASE Oddaj
  BY <1>7, OddanieInw
<1>8. ASSUME NEW f \in RamkiSieci, KartaOdbiera(f) PROVE InwOdbioru'
  BY <1>8, OdebranieInw
<1>9. CASE UNCHANGED karta
  BY <1>1, <1>9 DEF karta
<1>10. QED
  BY <1>2, <1>3, <1>4, <1>5, <1>6, <1>7, <1>8, <1>9 DEF E1000Next
-----------------------------------------------------------------------------
LEMMA NadawczyZInw == KartaZalozenia /\ InwNadawania => NadawczyJestKolejka
<1> SUFFICES ASSUME KartaZalozenia, InwNadawania, WToku PROVE NadawczyJestKolejka
  BY DEF InwNadawania, Zapelniony, NadawczyJestKolejka, NTX
<1> DEFINE m == Odleglosc(tdh, tdt, NTX)
           k == Od(tdh, m, NTX)
<1>1. /\ NTX \in Nat /\ NTX > 0 /\ TX = 0 .. NTX - 1 /\ tdh \in TX /\ tdt \in TX
      /\ doNadania \in Seq(RamkiSieci) /\ Len(doNadania) = m
  BY DEF KartaZalozenia, NTX, TX, InwNadawania, TypyNadawania, WToku
<1>2. m \in 0 .. NTX - 1
  BY <1>1, CoToOdleglosc
<1>3. DOMAIN k = 1 .. m /\ \A i \in 1 .. m : k[i] = (tdh + i - 1) % NTX
  BY DEF Od
<1>4. doNadania = [i \in DOMAIN k |-> tx_ramka[k[i]]]
  <2>1. doNadania = [i \in 1 .. m |-> tx_ramka[(tdh + i - 1) % NTX]]
    BY <1>1, ZawieraRowne DEF WToku
  <2>2. QED
    BY <1>3, <2>1
<1>5. ASSUME NEW d \in TX PROVE tx_dd[d] <=> ~ \E i \in DOMAIN k : k[i] = d
  <2>1. Odleglosc(tdh, d, NTX) < m <=> \E i \in 1 .. m : (tdh + i - 1) % NTX = d
    BY <1>1, <1>2, WZasiegu, m \in 0 .. NTX
  <2>2. (\E i \in DOMAIN k : k[i] = d) <=> \E i \in 1 .. m : (tdh + i - 1) % NTX = d
    BY <1>3
  <2>3. Odleglosc(tdh, d, NTX) \in 0 .. NTX - 1
    BY <1>1, CoToOdleglosc
  <2>4. (Odleglosc(tdh, d, NTX) >= m) <=> ~ (Odleglosc(tdh, d, NTX) < m)
    BY <1>1, <1>2, <2>3
  <2>5. tx_dd[d] <=> Odleglosc(tdh, d, NTX) >= m
    BY <1>1 DEF WToku
  <2>6. QED
    BY <2>1, <2>2, <2>4, <2>5
<1>6. k = Od(tdh, (tdt + E1000_NUM_TX_DESC - tdh) % E1000_NUM_TX_DESC, E1000_NUM_TX_DESC)
  BY DEF Odleglosc, NTX
<1>7. QED
  BY <1>4, <1>5, <1>6 DEF NadawczyJestKolejka

LEMMA OdbiorczyZInw == KartaZalozenia /\ InwOdbioru => OdbiorczyJestKolejka
<1> SUFFICES ASSUME KartaZalozenia, InwOdbioru PROVE OdbiorczyJestKolejka
  OBVIOUS
<1> DEFINE a == rx_aktualny
           m == Len(odebrane)
           k == Od(a, m, NRX)
<1>1. /\ NRX \in Nat /\ NRX > 0 /\ RX = 0 .. NRX - 1 /\ a \in RX /\ rdh \in RX
      /\ odebrane \in Seq(RamkiSieci) /\ m = Odleglosc(a, rdh, NRX) /\ Odbierane
  BY DEF KartaZalozenia, NRX, RX, InwOdbioru, TypyOdbioru, Odbierane
<1>2. m \in 0 .. NRX - 1
  BY <1>1, CoToOdleglosc
<1>3. DOMAIN k = 1 .. m /\ \A i \in 1 .. m : k[i] = (a + i - 1) % NRX
  BY DEF Od
<1>4. odebrane = [i \in DOMAIN k |-> rx_ramka[k[i]]]
  <2>1. odebrane = [i \in 1 .. m |-> rx_ramka[(a + i - 1) % NRX]]
    BY <1>1, ZawieraRowne DEF Odbierane
  <2>2. QED
    BY <1>3, <2>1
<1>5. ASSUME NEW d \in RX PROVE rx_dd[d] <=> \E i \in DOMAIN k : k[i] = d
  <2>1. Odleglosc(a, d, NRX) < m <=> \E i \in 1 .. m : (a + i - 1) % NRX = d
    BY <1>1, <1>2, WZasiegu, m \in 0 .. NRX
  <2>2. (\E i \in DOMAIN k : k[i] = d) <=> \E i \in 1 .. m : (a + i - 1) % NRX = d
    BY <1>3
  <2>3. rx_dd[d] <=> Odleglosc(a, d, NRX) < m
    BY <1>1 DEF Odbierane
  <2>4. QED
    BY <2>1, <2>2, <2>3
<1>6. m < E1000_NUM_RX_DESC
  BY <1>1, <1>2 DEF NRX
<1>7. QED
  BY <1>4, <1>5, <1>6 DEF OdbiorczyJestKolejka, NRX

(* For rings of any size: the card sends what it was given, once and in    *)
(* order, unless every descriptor was filled while none was sent, and the  *)
(* driver meets the frames the card stored, once and in order; whatever    *)
(* senders give up, whenever the link comes and goes and however the card  *)
(* works on while the driver holds a descriptor (e1000.cpp 2386-2527 and   *)
(* 2570-2676).                                                             *)
THEOREM PierscienieToKolejki == KartaZalozenia => (E1000Spec => []RingiToKolejki)
<1> SUFFICES ASSUME KartaZalozenia PROVE E1000Spec => []RingiToKolejki
  OBVIOUS
<1> DEFINE Inw == InwNadawania /\ InwOdbioru
<1>1. E1000Init => Inw
  BY NadawanieInit, OdbiorInit
<1>2. Inw /\ [E1000Next]_karta => Inw'
  BY NadawanieNext, OdbiorNext
<1>3. Inw => RingiToKolejki
  BY NadawczyZInw, OdbiorczyZInw DEF RingiToKolejki
<1>4. QED
  BY <1>1, <1>2, <1>3, PTL DEF E1000Spec

-----------------------------------------------------------------------------
(***************************************************************************)
(* Proofs about the key buffer, for a ring of any size and any characters, *)
(* on a machine with one kind of keyboard: the comment of klawiatura.cpp   *)
(* 69-70 speaks of a single producer.                                      *)
(***************************************************************************)

JedenProducent == {"ps2", "usb"} \notin Sprzet

N == ROZMIAR_BUFORA

TypyBufora ==
  /\ bufor_klawiatury \in [IndeksyBufora -> Nat]
  /\ bufor_glowa \in IndeksyBufora /\ bufor_ogon \in IndeksyBufora
  /\ przyjete \in Seq(Nat)
  /\ usb_krok \in {"nic", "zapisz", "opublikuj"} /\ usb_bajt \in Nat
  /\ sprzet \in Sprzet

(* What the ring holds.                                                    *)
TrescBufora ==
  /\ Len(przyjete) = Odleglosc(bufor_ogon, bufor_glowa, N)
  /\ Zawiera(bufor_klawiatury, bufor_ogon, N, przyjete)

(* PID 0 between its loads and its stores: nobody else moves the head, and *)
(* the room it saw is still there.                                         *)
WTrakcie ==
  usb_krok # "nic" =>
    /\ "usb" \in sprzet /\ usb_glowa = bufor_glowa
    /\ Len(przyjete) < N - 1
    /\ usb_krok = "opublikuj" => bufor_klawiatury[bufor_glowa] = usb_bajt

InwBufora == TypyBufora /\ TrescBufora /\ WTrakcie
-----------------------------------------------------------------------------
LEMMA Stale ==
  /\ N \in Nat /\ N > 1 /\ N > 0 /\ IndeksyBufora = 0 .. N - 1 /\ 0 \in IndeksyBufora
  /\ \A z \in Znaki : z \in Seq(Nat) /\ z # <<>>
  /\ ZnakiUsb \subseteq Nat
BY BuforZalozenia DEF N, IndeksyBufora

LEMMA InwBuforaInit == BuforInit => InwBufora
<1> SUFFICES ASSUME BuforInit PROVE InwBufora
  OBVIOUS
<1>1. TypyBufora
  BY Stale DEF BuforInit, TypyBufora
<1>2. Odleglosc(0, 0, N) = 0
  BY Stale, CoToOdleglosc
<1>3. TrescBufora
  BY <1>2 DEF BuforInit, TrescBufora, Zawiera
<1>4. QED
  BY <1>1, <1>3 DEF BuforInit, InwBufora, WTrakcie

(* Several bytes at once, as many as there is room for.                    *)
LEMMA ZgloszenieInw ==
  ASSUME JedenProducent, InwBufora, NEW znak \in Znaki, zglos_bajt_do_systemu(znak)
  PROVE  InwBufora'
<1> DEFINE m == Len(przyjete)
           wolne == N - 1 - m
           ile == IF Len(znak) <= wolne THEN Len(znak) ELSE wolne
           Numer(i) == Odleglosc(bufor_glowa, i, N) + 1
           s == przyjete \o SubSeq(znak, 1, ile)
           g == Przesun(bufor_glowa, ile, N)
<1>1. /\ bufor_klawiatury \in [IndeksyBufora -> Nat] /\ bufor_glowa \in 0 .. N - 1
      /\ bufor_ogon \in 0 .. N - 1 /\ przyjete \in Seq(Nat) /\ m \in Nat
      /\ znak \in Seq(Nat) /\ Len(znak) \in Nat
      /\ m = Odleglosc(bufor_ogon, bufor_glowa, N)
  BY Stale DEF InwBufora, TypyBufora, TrescBufora
<1>2. m \in 0 .. N - 1
  BY <1>1, Stale, CoToOdleglosc
<1>3. ile \in 0 .. N - 1 - m /\ ile <= Len(znak)
  <2>1. N \in Nat /\ m \in 0 .. N - 1 /\ Len(znak) \in Nat
    BY <1>1, <1>2, Stale
  <2> HIDE DEF m
  <2>2. QED
    BY ONLY <2>1
<1>4. usb_krok = "nic"
  <2>1. sprzet \subseteq {"ps2", "usb"} /\ "ps2" \in sprzet /\ sprzet \in Sprzet
    BY BuforZalozenia DEF InwBufora, TypyBufora, zglos_bajt_do_systemu
  <2>2. ASSUME "usb" \in sprzet PROVE FALSE
    <3>1. sprzet = {"ps2", "usb"}
      BY <2>1, <2>2
    <3>2. QED
      BY <2>1, <3>1 DEF JedenProducent
  <2>3. QED
    BY <2>2 DEF InwBufora, WTrakcie
<1>5. /\ bufor_klawiatury' = [i \in IndeksyBufora |->
           IF Numer(i) <= ile THEN znak[Numer(i)] ELSE bufor_klawiatury[i]]
      /\ bufor_glowa' = g /\ przyjete' = s
      /\ bufor_ogon' = bufor_ogon /\ sprzet' = sprzet /\ usb' = usb
  <2>1. WolneMiejsca = wolne
    BY <1>1 DEF WolneMiejsca, Odleglosc, N
  <2>2. QED
    BY <2>1 DEF zglos_bajt_do_systemu, BajtZnaku, Odleglosc, Przesun, N
<1> HIDE DEF ile
<1>6. g \in 0 .. N - 1 /\ Odleglosc(bufor_ogon, g, N) = m + ile
  BY <1>1, <1>2, <1>3, Stale, WieleKrokow, ile \in 0 .. N - 1, m + ile < N, SMTT(30)
<1>7. /\ s \in Seq(Nat) /\ Len(s) = m + ile
      /\ \A k \in 1 .. m : s[k] = przyjete[k]
      /\ \A k \in m + 1 .. m + ile : s[k] = znak[k - m]
  <2> DEFINE w == SubSeq(znak, 1, ile)
  <2>1. w \in Seq(Nat) /\ Len(w) = ile /\ \A k \in 1 .. ile : w[k] = znak[k]
    BY <1>1, <1>3
  <2> HIDE DEF w
  <2>2. /\ przyjete \o w \in Seq(Nat) /\ Len(przyjete \o w) = m + ile
        /\ \A k \in 1 .. m + ile :
             (przyjete \o w)[k] = IF k <= m THEN przyjete[k] ELSE w[k - m]
    BY <1>1, <1>3, <2>1, ConcatProperties
  <2>3. \A k \in m + 1 .. m + ile : k - m \in 1 .. ile /\ k \in 1 .. m + ile /\ ~ (k <= m)
    BY <1>1, <1>3
  <2>4. \A k \in 1 .. m : k \in 1 .. m + ile /\ k <= m
    BY <1>1, <1>3
  <2>5. s = przyjete \o w
    BY DEF w
  <2> HIDE DEF s
  <2>6. QED
    BY <2>1, <2>2, <2>3, <2>4, <2>5
<1> HIDE DEF s
<1>8. ASSUME NEW i \in IndeksyBufora PROVE Numer(i) \in 1 .. N
  <2>1. Odleglosc(bufor_glowa, i, N) \in 0 .. N - 1
    BY <1>1, Stale, CoToOdleglosc
  <2>2. QED
    BY <2>1, Stale
<1>9. bufor_klawiatury' \in [IndeksyBufora -> Nat]
  <2>1. ASSUME NEW i \in IndeksyBufora, Numer(i) <= ile PROVE znak[Numer(i)] \in Nat
    BY <1>1, <1>3, <1>8, <2>1
  <2> HIDE DEF Numer
  <2>2. QED
    BY <1>1, <1>5, <2>1
<1>10. TypyBufora'
  BY <1>1, <1>5, <1>6, <1>7, <1>9, Stale DEF InwBufora, TypyBufora, usb
<1>11. ASSUME NEW k \in 1 .. m + ile
       PROVE  s[k] = bufor_klawiatury'[Przesun(bufor_ogon, k - 1, N)]
  <2> DEFINE j == Przesun(bufor_ogon, k - 1, N)
  <2>1. k - 1 \in 0 .. N - 1 /\ k \in Int
    BY <1>1, <1>2, <1>3, Stale, SMTT(30)
  <2>2. j \in 0 .. N - 1 /\ Odleglosc(bufor_ogon, j, N) = k - 1
    BY <1>1, <2>1, Stale, CoToPrzesun, TamIZPowrotem, k - 1 \in 0 .. N
  <2> HIDE DEF j
  <2>3. Odleglosc(bufor_glowa, j, N) = IF m <= k - 1 THEN k - 1 - m ELSE k - 1 - m + N
    BY <1>1, <2>2, Stale, RoznicaOdleglosci, SMTT(30)
  <2>4. CASE k <= m
    <3>1. Numer(j) > ile
      <4>1. Odleglosc(bufor_glowa, j, N) = k - 1 - m + N
        BY <1>1, <2>1, <2>3, <2>4
      <4>2. ile <= N - 1 - m /\ ile \in Int /\ m \in Int /\ N \in Int
        BY <1>1, <1>3, Stale
      <4>3. QED
        BY <2>1, <4>1, <4>2
    <3>2. bufor_klawiatury'[j] = bufor_klawiatury[j]
      BY <1>3, <1>5, <1>8, <2>2, <3>1, Stale
    <3>3. przyjete[k] = bufor_klawiatury[j]
      BY <1>1, <2>4 DEF InwBufora, TrescBufora, Zawiera, j
    <3>4. QED
      BY <1>1, <1>7, <2>4, <3>2, <3>3 DEF j
  <2>5. CASE k > m
    <3>1. Numer(j) = k - m /\ Numer(j) <= ile
      <4>1. Odleglosc(bufor_glowa, j, N) = k - 1 - m
        BY <1>1, <2>1, <2>3, <2>5
      <4>2. ile \in Int /\ m \in Int /\ k <= m + ile
        BY <1>1, <1>3, Stale
      <4>3. QED
        BY <2>1, <4>1, <4>2
    <3>2. bufor_klawiatury'[j] = znak[k - m]
      BY <1>5, <2>2, <3>1, Stale
    <3>3. k \in m + 1 .. m + ile
      BY <1>1, <1>3, <2>1, <2>5
    <3>4. QED
      BY <1>7, <3>2, <3>3 DEF j
  <2>6. QED
    BY <1>1, <2>1, <2>4, <2>5
<1>12. TrescBufora'
  BY <1>5, <1>6, <1>7, <1>11 DEF TrescBufora, Zawiera
<1>13. QED
  BY <1>4, <1>5, <1>10, <1>12 DEF InwBufora, WTrakcie, usb

LEMMA PobranieInw == InwBufora /\ pobierz_znak_klawiatury => InwBufora'
<1> SUFFICES ASSUME InwBufora, pobierz_znak_klawiatury PROVE InwBufora'
  OBVIOUS
<1> DEFINE m == Len(przyjete)
           g == Przesun(bufor_ogon, 1, N)
<1>1. /\ bufor_klawiatury \in [0 .. N - 1 -> Nat] /\ bufor_glowa \in 0 .. N - 1
      /\ bufor_ogon \in 0 .. N - 1 /\ przyjete \in Seq(Nat) /\ m \in Nat
      /\ m = Odleglosc(bufor_ogon, bufor_glowa, N)
  BY Stale DEF InwBufora, TypyBufora, TrescBufora
<1>2. m \in 1 .. N - 1 /\ przyjete # <<>>
  <2>1. Odleglosc(bufor_ogon, bufor_glowa, N) \in 0 .. N - 1
    BY <1>1, Stale, CoToOdleglosc
  <2>2. Odleglosc(bufor_ogon, bufor_glowa, N) # 0
    BY <1>1, Stale, KrokOdleglosci DEF pobierz_znak_klawiatury
  <2>3. QED
    BY <1>1, <2>1, <2>2, Stale
<1>3. /\ bufor_ogon' = g /\ przyjete' = Tail(przyjete)
      /\ UNCHANGED <<sprzet, bufor_klawiatury, bufor_glowa, usb>>
  BY <1>2 DEF pobierz_znak_klawiatury, nastepny_indeks, Przesun, N
<1>4. g \in 0 .. N - 1
  BY <1>1, Stale, KrokOdleglosci
<1>5. Odleglosc(g, bufor_glowa, N) = m - 1
  <2>1. Odleglosc(g, bufor_glowa, N) = IF m = 0 THEN N - 1 ELSE m - 1
    BY <1>1, Stale, KrokOdleglosci
  <2>2. QED
    BY <1>2, <2>1
<1>6. Len(Tail(przyjete)) = Len(przyjete) - 1 /\ Tail(przyjete) \in Seq(Nat)
  <2>1. przyjete \in Seq(Nat) /\ przyjete # <<>>
    BY <1>1, <1>2
  <2>2. QED
    BY ONLY <2>1
<1>7. TypyBufora'
  BY <1>3, <1>4, <1>6, Stale DEF InwBufora, TypyBufora, usb
<1>8. Zawiera(bufor_klawiatury, g, N, Tail(przyjete))
  <2>1. Zawiera(bufor_klawiatury, bufor_ogon, N, przyjete) /\ Len(przyjete) <= N
    BY <1>1, <1>2, Stale DEF InwBufora, TrescBufora
  <2>2. QED
    BY <1>1, <1>2, <2>1, Stale, Zdjecie
<1>9. TrescBufora'
  BY <1>3, <1>5, <1>6, <1>8 DEF TrescBufora
<1>10. WTrakcie'
  BY <1>1, <1>3, <1>6, Stale DEF InwBufora, WTrakcie, usb
<1>11. QED
  BY <1>7, <1>9, <1>10 DEF InwBufora

LEMMA UsbZapiszInw == InwBufora /\ UsbZapisz => InwBufora'
<1> SUFFICES ASSUME InwBufora, UsbZapisz PROVE InwBufora'
  OBVIOUS
<1> DEFINE m == Len(przyjete)
<1>1. /\ bufor_klawiatury \in [0 .. N - 1 -> Nat] /\ bufor_glowa \in 0 .. N - 1
      /\ bufor_ogon \in 0 .. N - 1 /\ przyjete \in Seq(Nat) /\ m \in Nat /\ usb_bajt \in Nat
      /\ m = Odleglosc(bufor_ogon, bufor_glowa, N)
  BY Stale DEF InwBufora, TypyBufora, TrescBufora
<1>2. /\ bufor_klawiatury' = [bufor_klawiatury EXCEPT ![bufor_glowa] = usb_bajt]
      /\ usb_krok = "zapisz" /\ usb_krok' = "opublikuj"
      /\ UNCHANGED <<sprzet, bufor_glowa, bufor_ogon, usb_glowa, usb_bajt, przyjete>>
      /\ usb_glowa = bufor_glowa /\ "usb" \in sprzet /\ m < N - 1
  BY DEF UsbZapisz, InwBufora, WTrakcie
<1>3. TypyBufora'
  BY <1>1, <1>2, Stale DEF InwBufora, TypyBufora
<1>4. bufor_klawiatury'[bufor_glowa] = usb_bajt
  BY <1>1, <1>2
<1>5. ASSUME NEW k \in 1 .. m
      PROVE  przyjete[k] = bufor_klawiatury'[Przesun(bufor_ogon, k - 1, N)]
  <2> DEFINE j == Przesun(bufor_ogon, k - 1, N)
  <2>1. k - 1 \in 0 .. N - 1 /\ k - 1 \in 0 .. N
    BY <1>1, <1>2, Stale
  <2>2. j \in 0 .. N - 1 /\ Odleglosc(bufor_ogon, j, N) = k - 1
    BY <1>1, <2>1, Stale, CoToPrzesun, TamIZPowrotem
  <2>3. j # bufor_glowa
    BY <1>1, <2>2
  <2>4. QED
    BY <1>1, <1>2, <2>2, <2>3 DEF InwBufora, TrescBufora, Zawiera
<1>6. TrescBufora'
  BY <1>2, <1>5 DEF InwBufora, TrescBufora, Zawiera
<1>7. QED
  BY <1>2, <1>3, <1>4, <1>6 DEF InwBufora, WTrakcie

LEMMA UsbOpublikujInw == InwBufora /\ UsbOpublikuj => InwBufora'
<1> SUFFICES ASSUME InwBufora, UsbOpublikuj PROVE InwBufora'
  OBVIOUS
<1> DEFINE m == Len(przyjete)
           g == Przesun(bufor_glowa, 1, N)
<1>1. /\ bufor_klawiatury \in [0 .. N - 1 -> Nat] /\ bufor_glowa \in 0 .. N - 1
      /\ bufor_ogon \in 0 .. N - 1 /\ przyjete \in Seq(Nat) /\ m \in Nat /\ usb_bajt \in Nat
      /\ m = Odleglosc(bufor_ogon, bufor_glowa, N)
  BY Stale DEF InwBufora, TypyBufora, TrescBufora
<1>2. /\ m < N - 1 /\ bufor_klawiatury[bufor_glowa] = usb_bajt
      /\ bufor_glowa' = g /\ przyjete' = Append(przyjete, usb_bajt)
      /\ usb_krok' = "nic" /\ usb_bajt' = 0
      /\ UNCHANGED <<sprzet, bufor_klawiatury, bufor_ogon>>
  BY DEF UsbOpublikuj, InwBufora, WTrakcie, nastepny_indeks, Przesun, N
<1>3. g \in 0 .. N - 1
  BY <1>1, Stale, KrokOdleglosci
<1>4. Odleglosc(bufor_ogon, g, N) = m + 1
  <2>1. Odleglosc(bufor_ogon, g, N) = IF m = N - 1 THEN 0 ELSE m + 1
    BY <1>1, Stale, KrokOdleglosci
  <2>2. QED
    BY <1>1, <1>2, <2>1, Stale
<1>5. Len(Append(przyjete, usb_bajt)) = m + 1 /\ Append(przyjete, usb_bajt) \in Seq(Nat)
  BY <1>1
<1>6. TypyBufora'
  BY <1>1, <1>2, <1>3, <1>5, Stale DEF InwBufora, TypyBufora
<1>7. Zawiera(bufor_klawiatury, bufor_ogon, N, Append(przyjete, usb_bajt))
  <2>1. Zawiera(bufor_klawiatury, bufor_ogon, N, przyjete) /\ m < N
    BY <1>1, <1>2, Stale DEF InwBufora, TrescBufora
  <2>2. Zawiera([bufor_klawiatury EXCEPT ![Przesun(bufor_ogon, m, N)] = usb_bajt],
                bufor_ogon, N, Append(przyjete, usb_bajt))
    BY <1>1, <2>1, Stale, Dopisanie
  <2>3. Przesun(bufor_ogon, m, N) = bufor_glowa
    BY <1>1, Stale, TamIZPowrotem
  <2>4. [bufor_klawiatury EXCEPT ![bufor_glowa] = usb_bajt] = bufor_klawiatury
    BY <1>1, <1>2
  <2>5. QED
    BY <2>2, <2>3, <2>4
<1>8. TrescBufora'
  BY <1>2, <1>4, <1>5, <1>7 DEF TrescBufora
<1>9. QED
  BY <1>2, <1>6, <1>8 DEF InwBufora, WTrakcie

LEMMA UsbWczytajInw ==
  ASSUME InwBufora, NEW b \in ZnakiUsb, UsbWczytaj(b)
  PROVE  InwBufora'
<1>1. CASE nastepny_indeks(bufor_glowa) = bufor_ogon
  BY <1>1 DEF UsbWczytaj, InwBufora, TypyBufora, TrescBufora, WTrakcie, usb
<1>2. CASE nastepny_indeks(bufor_glowa) # bufor_ogon
  <2>1. /\ "usb" \in sprzet /\ usb_krok' = "zapisz" /\ usb_glowa' = bufor_glowa /\ usb_bajt' = b
        /\ UNCHANGED <<sprzet, bufor_klawiatury, bufor_glowa, bufor_ogon, przyjete>>
    BY <1>2 DEF UsbWczytaj
  <2>2. Przesun(bufor_glowa, 1, N) # bufor_ogon
    BY <1>2 DEF nastepny_indeks, Przesun, N
  <2>3. /\ bufor_glowa \in 0 .. N - 1 /\ bufor_ogon \in 0 .. N - 1
        /\ Len(przyjete) = Odleglosc(bufor_ogon, bufor_glowa, N)
    BY Stale DEF InwBufora, TypyBufora, TrescBufora
  <2>4. Len(przyjete) # N - 1
    BY <2>2, <2>3, Stale, KrokOdleglosci
  <2>5. Len(przyjete) \in 0 .. N - 1
    BY <2>3, Stale, CoToOdleglosc
  <2>6. Len(przyjete) < N - 1
    BY <2>4, <2>5, Stale
  <2>7. QED
    BY <2>1, <2>6, Stale DEF InwBufora, TypyBufora, TrescBufora, WTrakcie
<1>3. QED
  BY <1>1, <1>2

LEMMA InwBuforaNext == JedenProducent /\ InwBufora /\ [BuforNext]_pierscien => InwBufora'
<1> SUFFICES ASSUME JedenProducent, InwBufora, [BuforNext]_pierscien PROVE InwBufora'
  OBVIOUS
<1>1. ASSUME NEW z \in Znaki, zglos_bajt_do_systemu(z) PROVE InwBufora'
  BY <1>1, ZgloszenieInw
<1>2. CASE pobierz_znak_klawiatury
  BY <1>2, PobranieInw
<1>3. CASE ZmienFokus
  BY <1>3 DEF ZmienFokus, InwBufora, TypyBufora, TrescBufora, WTrakcie, usb
<1>4. ASSUME NEW b \in ZnakiUsb, UsbWczytaj(b) PROVE InwBufora'
  BY <1>4, UsbWczytajInw
<1>5. CASE UsbZapisz
  BY <1>5, UsbZapiszInw
<1>6. CASE UsbOpublikuj
  BY <1>6, UsbOpublikujInw
<1>7. CASE UNCHANGED pierscien
  BY <1>7 DEF pierscien, InwBufora, TypyBufora, TrescBufora, WTrakcie, usb
<1>8. QED
  BY <1>1, <1>2, <1>3, <1>4, <1>5, <1>6, <1>7 DEF BuforNext

LEMMA ZawartoscZInw == InwBufora => ZawartoscBufora = przyjete
<1> SUFFICES ASSUME InwBufora PROVE ZawartoscBufora = przyjete
  OBVIOUS
<1>1. /\ bufor_ogon \in 0 .. N - 1 /\ przyjete \in Seq(Nat)
      /\ Zawiera(bufor_klawiatury, bufor_ogon, N, przyjete)
      /\ DlugoscBufora = Len(przyjete)
  BY Stale DEF InwBufora, TypyBufora, TrescBufora, DlugoscBufora, Odleglosc, N
<1>2. przyjete = [k \in 1 .. Len(przyjete) |-> bufor_klawiatury[(bufor_ogon + k - 1) % N]]
  BY <1>1, Stale, ZawieraRowne
<1>3. QED
  BY <1>1, <1>2 DEF ZawartoscBufora, N

(* With one kind of keyboard the ring is a queue: BWS 4 reads exactly the  *)
(* bytes that dodaj_bajt_do_bufora accepted, once and in order, although   *)
(* PID 0 is interrupted between any two of its loads and stores and a      *)
(* reader runs in between (klawiatura.cpp 69-70 and 164-244).              *)
THEOREM PierscienJestKolejka == JedenProducent => (BuforSpec => []BuforJestKolejka)
<1> SUFFICES ASSUME JedenProducent PROVE BuforSpec => []BuforJestKolejka
  OBVIOUS
<1>1. InwBufora /\ [BuforNext]_pierscien => InwBufora'
  BY InwBuforaNext
<1>2. InwBufora => BuforJestKolejka
  BY ZawartoscZInw DEF BuforJestKolejka
<1>3. QED
  BY <1>1, <1>2, InwBuforaInit, PTL DEF BuforSpec
-----------------------------------------------------------------------------
(* Characters.  The cuts move with the bytes: a character that is put in   *)
(* whole adds one behind it, a byte that is taken moves all of them.       *)

LEMMA CoToCale ==
  ASSUME NEW z \in Cale
  PROVE  z \in Seq(Nat) /\ Len(z) \in Nat /\ Len(z) >= 1
<1>1. CASE z \in Znaki
  <2>1. z \in Seq(Nat) /\ z # <<>>
    BY <1>1, Stale
  <2>2. QED
    BY <2>1
<1>2. ASSUME NEW b \in ZnakiUsb, z = <<b>> PROVE z \in Seq(Nat) /\ Len(z) = 1
  BY <1>2, Stale
<1>3. QED
  BY <1>1, <1>2 DEF Cale

LEMMA PodzielonePuste == Podzielone(<<>>)
<1>1. {1} \in SUBSET (1 .. Len(<<>>) + 1) /\ Len(<<>>) + 1 = 1
  OBVIOUS
<1>2. QED
  BY <1>1 DEF Podzielone

LEMMA PodzieloneDopisane ==
  ASSUME NEW s \in Seq(Nat), NEW z \in Cale, Podzielone(s)
  PROVE  Podzielone(s \o z)
<1> DEFINE m == Len(s)
           n == Len(z)
           t == s \o z
<1>1. m \in Nat /\ z \in Seq(Nat) /\ n \in Nat /\ n >= 1
  BY CoToCale
<1>2. t \in Seq(Nat) /\ Len(t) = m + n
  BY <1>1, ConcatProperties
<1>3. \A k \in 1 .. m : t[k] = s[k]
  BY <1>1, ConcatProperties
<1>4. \A k \in 1 .. n : t[m + 1 + k - 1] = z[k]
  <2> SUFFICES ASSUME NEW k \in 1 .. n PROVE t[m + 1 + k - 1] = z[k]
    OBVIOUS
  <2>1. /\ m + 1 + k - 1 = m + k /\ m + k \in 1 .. m + n /\ ~ (m + k <= m)
        /\ (m + k) - m = k
    BY <1>1
  <2>2. t[m + k] = z[(m + k) - m]
    BY <1>1, <2>1, ConcatProperties
  <2>3. QED
    BY <2>1, <2>2
<1> HIDE DEF t
<1>5. PICK G \in SUBSET (1 .. m + 1) :
        /\ m + 1 \in G
        /\ \/ 1 \in G
           \/ \E w \in Cale : \E i \in 2 .. Len(w) : Len(w) - i + 2 \in G /\ Stoi(w, i, s, 1)
        /\ \A g \in G \ {m + 1} : \E w \in Cale : g + Len(w) \in G /\ Stoi(w, 1, s, g)
  BY DEF Podzielone
<1> DEFINE H == G \cup {m + n + 1}
<1>6. H \in SUBSET (1 .. Len(t) + 1) /\ Len(t) + 1 \in H /\ Len(t) + 1 = m + n + 1
  <2>1. 1 .. m + 1 \subseteq 1 .. Len(t) + 1 /\ Len(t) + 1 = m + n + 1
    BY <1>1, <1>2
  <2>2. m + n + 1 \in 1 .. Len(t) + 1
    BY <1>1, <2>1
  <2>3. QED
    BY <2>1, <2>2
<1>7. ASSUME NEW w \in Cale, NEW i \in 1 .. Len(w), NEW g \in 1 .. m + 1,
             g + Len(w) - i <= m, Stoi(w, i, s, g)
      PROVE  Stoi(w, i, t, g)
  <2> SUFFICES ASSUME NEW k \in i .. Len(w) PROVE t[g + k - i] = w[k]
    BY DEF Stoi
  <2>1. Len(w) \in Nat
    BY CoToCale
  <2>2. g + k - i \in 1 .. m
    BY <1>1, <1>7, <2>1
  <2>3. s[g + k - i] = w[k]
    BY <1>7 DEF Stoi
  <2>4. QED
    BY <1>3, <2>2, <2>3
<1>8. \/ 1 \in H
      \/ \E w \in Cale : \E i \in 2 .. Len(w) : Len(w) - i + 2 \in H /\ Stoi(w, i, t, 1)
  <2>1. ASSUME NEW w \in Cale, NEW i \in 2 .. Len(w), Len(w) - i + 2 \in G, Stoi(w, i, s, 1)
        PROVE  Stoi(w, i, t, 1)
    <3>1. Len(w) \in Nat /\ Len(w) - i + 2 \in 1 .. m + 1
      BY <2>1, CoToCale
    <3>2. i \in 1 .. Len(w) /\ 1 \in 1 .. m + 1 /\ 1 + Len(w) - i <= m
      BY <1>1, <3>1
    <3>3. QED
      BY <1>7, <2>1, <3>2
  <2>2. QED
    BY <1>5, <2>1
<1>9. ASSUME NEW g \in H \ {Len(t) + 1}
      PROVE  \E w \in Cale : g + Len(w) \in H /\ Stoi(w, 1, t, g)
  <2>1. g \in G /\ g \in 1 .. m + 1
    BY <1>6, <1>9
  <2>2. CASE g = m + 1
    <3>1. g + Len(z) \in H
      BY <1>1, <2>2
    <3>2. Stoi(z, 1, t, g)
      BY <1>4, <2>2 DEF Stoi
    <3>3. QED
      BY <3>1, <3>2
  <2>3. CASE g # m + 1
    <3>1. PICK w \in Cale : g + Len(w) \in G /\ Stoi(w, 1, s, g)
      BY <1>5, <2>1, <2>3
    <3>2. Len(w) \in Nat /\ Len(w) >= 1 /\ g + Len(w) \in 1 .. m + 1
      BY <3>1, CoToCale
    <3>3. 1 \in 1 .. Len(w) /\ g + Len(w) - 1 <= m
      BY <1>1, <2>1, <3>2
    <3>4. Stoi(w, 1, t, g)
      BY <1>7, <2>1, <3>1, <3>3
    <3>5. QED
      BY <3>1, <3>4
  <2>4. QED
    BY <2>2, <2>3
<1>10. Podzielone(t)
  <2> HIDE DEF H
  <2>1. QED
    BY <1>6, <1>8, <1>9 DEF Podzielone
<1>11. QED
  BY <1>10 DEF t

LEMMA PodzieloneBezPierwszego ==
  ASSUME NEW s \in Seq(Nat), s # <<>>, Podzielone(s)
  PROVE  Podzielone(Tail(s))
<1> DEFINE m == Len(s)
           t == Tail(s)
<1>1. m \in Nat /\ m >= 1 /\ t \in Seq(Nat) /\ Len(t) = m - 1
  OBVIOUS
<1>2. \A k \in 1 .. m - 1 : t[k] = s[k + 1]
  OBVIOUS
<1> HIDE DEF t
<1>3. PICK G \in SUBSET (1 .. m + 1) :
        /\ m + 1 \in G
        /\ \/ 1 \in G
           \/ \E w \in Cale : \E i \in 2 .. Len(w) : Len(w) - i + 2 \in G /\ Stoi(w, i, s, 1)
        /\ \A g \in G \ {m + 1} : \E w \in Cale : g + Len(w) \in G /\ Stoi(w, 1, s, g)
  BY DEF Podzielone
<1> DEFINE H == { h \in 1 .. m : h + 1 \in G }
<1>4. H \in SUBSET (1 .. Len(t) + 1) /\ Len(t) + 1 \in H /\ Len(t) + 1 = m
  BY <1>1, <1>3
<1>5. ASSUME NEW w \in Cale, NEW i \in 1 .. Len(w), i + 1 <= Len(w),
             Len(w) - i + 2 \in G, Stoi(w, i, s, 1)
      PROVE  /\ i + 1 \in 2 .. Len(w) /\ Len(w) - (i + 1) + 2 \in H
             /\ Stoi(w, i + 1, t, 1)
  <2>1. Len(w) \in Nat /\ i \in Nat /\ Len(w) - i + 2 \in 1 .. m + 1
    BY <1>5, CoToCale
  <2>2. i + 1 \in 2 .. Len(w) /\ Len(w) - (i + 1) + 2 \in 1 .. m
    BY <1>1, <1>5, <2>1
  <2>3. Len(w) - (i + 1) + 2 + 1 = Len(w) - i + 2
    BY <2>1
  <2>4. ASSUME NEW k \in i + 1 .. Len(w) PROVE t[1 + k - (i + 1)] = w[k]
    <3>1. k \in i .. Len(w) /\ 1 + k - (i + 1) = k - i /\ k - i \in 1 .. m - 1
      BY <1>1, <2>1, <2>4
    <3>2. 1 + k - i = k - i + 1
      BY <2>1, <3>1
    <3>3. s[1 + k - i] = w[k]
      BY <1>5, <3>1 DEF Stoi
    <3>4. QED
      BY <1>2, <3>1, <3>2, <3>3
  <2>5. QED
    BY <1>5, <2>2, <2>3, <2>4 DEF Stoi
<1>6. ASSUME 2 \in G PROVE 1 \in H
  BY <1>1, <1>6
<1>7. \/ 1 \in H
      \/ \E w \in Cale : \E i \in 2 .. Len(w) : Len(w) - i + 2 \in H /\ Stoi(w, i, t, 1)
  <2>1. ASSUME NEW w \in Cale, NEW i \in 1 .. Len(w), Len(w) - i + 2 \in G, Stoi(w, i, s, 1)
        PROVE  \/ 1 \in H
               \/ \E j \in 2 .. Len(w) : Len(w) - j + 2 \in H /\ Stoi(w, j, t, 1)
    <3>1. Len(w) \in Nat
      BY CoToCale
    <3>2. CASE i = Len(w)
      <4>1. Len(w) - i + 2 = 2
        BY <3>1, <3>2
      <4>2. QED
        BY <1>6, <2>1, <4>1
    <3>3. CASE i + 1 <= Len(w)
      <4> HIDE DEF H
      <4>1. QED
        BY <1>5, <2>1, <3>3
    <3>4. QED
      BY <3>1, <3>2, <3>3
  <2>2. CASE 1 \in G
    <3>1. PICK w \in Cale : 1 + Len(w) \in G /\ Stoi(w, 1, s, 1)
      BY <1>1, <1>3, <2>2
    <3>2. 1 \in 1 .. Len(w) /\ Len(w) - 1 + 2 = 1 + Len(w)
      BY CoToCale
    <3>3. QED
      BY <2>1, <3>1, <3>2
  <2>3. CASE 1 \notin G
    <3>1. PICK w \in Cale :
            \E i \in 2 .. Len(w) : Len(w) - i + 2 \in G /\ Stoi(w, i, s, 1)
      BY <1>3, <2>3
    <3>2. PICK i \in 2 .. Len(w) : Len(w) - i + 2 \in G /\ Stoi(w, i, s, 1)
      BY <3>1
    <3>3. i \in 1 .. Len(w)
      BY CoToCale
    <3>4. QED
      BY <2>1, <3>2, <3>3
  <2>4. QED
    BY <2>2, <2>3
<1>8. ASSUME NEW h \in H \ {Len(t) + 1}
      PROVE  \E w \in Cale : h + Len(w) \in H /\ Stoi(w, 1, t, h)
  <2>1. h \in 1 .. m /\ h + 1 \in G \ {m + 1}
    BY <1>1, <1>4, <1>8
  <2>2. PICK w \in Cale : h + 1 + Len(w) \in G /\ Stoi(w, 1, s, h + 1)
    BY <1>3, <2>1
  <2>3. Len(w) \in Nat /\ h + 1 + Len(w) \in 1 .. m + 1
    BY <2>2, CoToCale
  <2>4. h + Len(w) \in H
    <3>1. h + Len(w) \in 1 .. m /\ h + Len(w) + 1 = h + 1 + Len(w)
      BY <1>1, <2>1, <2>3
    <3>2. QED
      BY <2>2, <3>1
  <2>5. ASSUME NEW k \in 1 .. Len(w) PROVE t[h + k - 1] = w[k]
    <3>1. h + k - 1 \in 1 .. m - 1 /\ h + k - 1 + 1 = h + 1 + k - 1
      BY <1>1, <2>1, <2>3
    <3>2. s[h + 1 + k - 1] = w[k]
      BY <2>2 DEF Stoi
    <3>3. QED
      BY <1>2, <3>1, <3>2
  <2>6. QED
    BY <2>4, <2>5 DEF Stoi
<1>9. Podzielone(t)
  <2> HIDE DEF H
  <2>1. QED
    BY <1>4, <1>7, <1>8 DEF Podzielone
<1>10. QED
  BY <1>9 DEF t

InwZnakow ==
  /\ ~ przepelniony => Podzielone(przyjete)
  /\ usb_krok # "nic" => usb_bajt \in ZnakiUsb

LEMMA ZnakiInit == BuforInit => InwZnakow
BY PodzielonePuste DEF BuforInit, InwZnakow

LEMMA ZnakiNext == InwBufora /\ InwZnakow /\ [BuforNext]_pierscien => InwZnakow'
<1> SUFFICES ASSUME InwBufora, InwZnakow, [BuforNext]_pierscien PROVE InwZnakow'
  OBVIOUS
<1>1. przyjete \in Seq(Nat)
  BY DEF InwBufora, TypyBufora
<1>2. ASSUME NEW z \in Znaki, zglos_bajt_do_systemu(z) PROVE InwZnakow'
  <2> DEFINE ile == IF Len(z) <= WolneMiejsca THEN Len(z) ELSE WolneMiejsca
  <2>1. /\ przepelniony' = (przepelniony \/ ile < Len(z))
        /\ przyjete' = przyjete \o SubSeq(z, 1, ile)
        /\ usb' = usb
    BY <1>2 DEF zglos_bajt_do_systemu
  <2>2. z \in Cale /\ z \in Seq(Nat) /\ Len(z) \in Nat
    BY CoToCale DEF Cale
  <2>3. WolneMiejsca \in Int
    <3>1. Odleglosc(bufor_ogon, bufor_glowa, N) \in 0 .. N - 1
      BY Stale, CoToOdleglosc DEF InwBufora, TypyBufora
    <3>2. QED
      BY <3>1, Stale DEF WolneMiejsca, Odleglosc, N
  <2>4. ASSUME ~ przepelniony' PROVE Podzielone(przyjete')
    <3>1. ~ przepelniony /\ ~ (ile < Len(z))
      BY <2>1, <2>4
    <3>2. ile = Len(z)
      BY <2>2, <2>3, <3>1
    <3>3. SubSeq(z, 1, Len(z)) = z
      BY <2>2
    <3>4. przyjete' = przyjete \o z
      BY <2>1, <3>2, <3>3
    <3>5. QED
      BY <1>1, <2>2, <3>1, <3>4, PodzieloneDopisane DEF InwZnakow
  <2>5. QED
    BY <2>1, <2>4 DEF InwZnakow, usb
<1>3. CASE pobierz_znak_klawiatury
  <2>1. /\ przyjete' = IF przyjete = <<>> THEN <<>> ELSE Tail(przyjete)
        /\ przepelniony' = przepelniony /\ usb' = usb
    BY <1>3 DEF pobierz_znak_klawiatury
  <2>2. CASE przyjete = <<>>
    BY <2>1, <2>2, PodzielonePuste DEF InwZnakow, usb
  <2>3. CASE przyjete # <<>>
    BY <1>1, <2>1, <2>3, PodzieloneBezPierwszego DEF InwZnakow, usb
  <2>4. QED
    BY <2>2, <2>3
<1>4. CASE ZmienFokus
  BY <1>4 DEF ZmienFokus, InwZnakow, usb
<1>5. ASSUME NEW b \in ZnakiUsb, UsbWczytaj(b) PROVE InwZnakow'
  BY <1>5 DEF UsbWczytaj, InwZnakow, usb
<1>6. CASE UsbZapisz
  BY <1>6 DEF UsbZapisz, InwZnakow
<1>7. CASE UsbOpublikuj
  <2>1. /\ przyjete' = Append(przyjete, usb_bajt) /\ przepelniony' = przepelniony
        /\ usb_krok = "opublikuj" /\ usb_krok' = "nic"
    BY <1>7 DEF UsbOpublikuj
  <2>2. usb_bajt \in ZnakiUsb
    BY <2>1 DEF InwZnakow
  <2>3. <<usb_bajt>> \in Cale /\ Append(przyjete, usb_bajt) = przyjete \o <<usb_bajt>>
    BY <1>1, <2>2, Stale DEF Cale
  <2>4. ~ przepelniony => Podzielone(przyjete')
    BY <1>1, <2>1, <2>3, PodzieloneDopisane DEF InwZnakow
  <2>5. QED
    BY <2>1, <2>4 DEF InwZnakow
<1>8. CASE UNCHANGED pierscien
  BY <1>8 DEF pierscien, InwZnakow, usb
<1>9. QED
  BY <1>2, <1>3, <1>4, <1>5, <1>6, <1>7, <1>8 DEF BuforNext

(* With one kind of keyboard, and until the first overflow, what BWS 4     *)
(* still finds in the ring is the rest of one character and then whole     *)
(* ones: Polish letters and arrows of several bytes are never mixed with   *)
(* others (klawiatura.cpp 236-244).                                        *)
THEOREM ZnakiNieSaRozdzielane == JedenProducent => (BuforSpec => []ZnakiWCalosci)
<1> SUFFICES ASSUME JedenProducent PROVE BuforSpec => []ZnakiWCalosci
  OBVIOUS
<1> DEFINE I == InwBufora /\ InwZnakow
<1>1. BuforInit => I
  BY InwBuforaInit, ZnakiInit
<1>2. I /\ [BuforNext]_pierscien => I'
  BY InwBuforaNext, ZnakiNext
<1>3. I => ZnakiWCalosci
  BY ZawartoscZInw DEF ZnakiWCalosci, InwZnakow
<1>4. QED
  BY <1>1, <1>2, <1>3, PTL DEF BuforSpec

-----------------------------------------------------------------------------
(***************************************************************************)
(* The proofs about the decoder of scan codes.  The properties speak of    *)
(* the moments between two messages of the keyboard, so the invariant has  *)
(* to say where in a message the decoder is: nothing under way, the Pause  *)
(* key, codes with a prefix, or one code without.  In each of them the     *)
(* modifiers of the decoder are those of the keyboard but for what the     *)
(* bytes still to come will change, and what was reported with what they   *)
(* will report is what the layout says.                                    *)
(***************************************************************************)

(* The keys whose codes have no prefix and that type a character or        *)
(* nothing, and those of them that are Polish letters with AltGr.          *)
Modyfikatory == {LSHIFT, RSHIFT, CAPS}
Zwykle == Kody \ Modyfikatory
PolskieKlawisze == {\h1E, \h2E, \h12, \h26, \h31, \h18, \h1F, \h2D, \h2C}

(* The two tables of the code agree with Unicode: l is the letter of sc.   *)
LiteraKlawisza(sc, l) ==
  /\ Tablica(sc) = <<l[1], l[1] - 32>> /\ l[1] \in 97 .. 122
  /\ obsluz_polski_znak(sc) # <<>>
  /\ \A i \in 1 .. 3 : obsluz_polski_znak(sc)[i] \in Nat
  /\ UTF8(l[2]) = <<obsluz_polski_znak(sc)[1], obsluz_polski_znak(sc)[2]>>
  /\ UTF8(l[3]) = <<obsluz_polski_znak(sc)[1], obsluz_polski_znak(sc)[3]>>

(* The keys of the Polish letters have the letters of Unicode.             *)
LEMMA PolskiKlawisz ==
  ASSUME NEW sc \in PolskieKlawisze
  PROVE  \E l \in PolskieLitery : LiteraKlawisza(sc, l)
<1>1. CASE sc = \h1E
  <2>1. LiteraKlawisza(sc, <<97, \h105, \h104>>)
    BY <1>1 DEF LiteraKlawisza, Tablica, obsluz_polski_znak, UTF8
  <2>2. QED
    BY <2>1 DEF PolskieLitery
<1>2. CASE sc = \h2E
  <2>1. LiteraKlawisza(sc, <<99, \h107, \h106>>)
    BY <1>2 DEF LiteraKlawisza, Tablica, obsluz_polski_znak, UTF8
  <2>2. QED
    BY <2>1 DEF PolskieLitery
<1>3. CASE sc = \h12
  <2>1. LiteraKlawisza(sc, <<101, \h119, \h118>>)
    BY <1>3 DEF LiteraKlawisza, Tablica, obsluz_polski_znak, UTF8
  <2>2. QED
    BY <2>1 DEF PolskieLitery
<1>4. CASE sc = \h26
  <2>1. LiteraKlawisza(sc, <<108, \h142, \h141>>)
    BY <1>4 DEF LiteraKlawisza, Tablica, obsluz_polski_znak, UTF8
  <2>2. QED
    BY <2>1 DEF PolskieLitery
<1>5. CASE sc = \h31
  <2>1. LiteraKlawisza(sc, <<110, \h144, \h143>>)
    BY <1>5 DEF LiteraKlawisza, Tablica, obsluz_polski_znak, UTF8
  <2>2. QED
    BY <2>1 DEF PolskieLitery
<1>6. CASE sc = \h18
  <2>1. LiteraKlawisza(sc, <<111, \hF3, \hD3>>)
    BY <1>6 DEF LiteraKlawisza, Tablica, obsluz_polski_znak, UTF8
  <2>2. QED
    BY <2>1 DEF PolskieLitery
<1>7. CASE sc = \h1F
  <2>1. LiteraKlawisza(sc, <<115, \h15B, \h15A>>)
    BY <1>7 DEF LiteraKlawisza, Tablica, obsluz_polski_znak, UTF8
  <2>2. QED
    BY <2>1 DEF PolskieLitery
<1>8. CASE sc = \h2D
  <2>1. LiteraKlawisza(sc, <<120, \h17A, \h179>>)
    BY <1>8 DEF LiteraKlawisza, Tablica, obsluz_polski_znak, UTF8
  <2>2. QED
    BY <2>1 DEF PolskieLitery
<1>9. CASE sc = \h2C
  <2>1. LiteraKlawisza(sc, <<122, \h17C, \h17B>>)
    BY <1>9 DEF LiteraKlawisza, Tablica, obsluz_polski_znak, UTF8
  <2>2. QED
    BY <2>1 DEF PolskieLitery
<1>10. QED
  BY <1>1, <1>2, <1>3, <1>4, <1>5, <1>6, <1>7, <1>8, <1>9 DEF PolskieKlawisze

(* No other key has a pair of bytes; the rows of the table it can have.    *)
LEMMA InnyKlawisz ==
  ASSUME NEW sc \in Kody \ PolskieKlawisze
  PROVE  /\ Tablica(sc) \in {<<113, 81>>, <<49, 33>>, <<47, 63>>, <<10, 10>>, <<56, 56>>, <<0, 0>>}
         /\ obsluz_polski_znak(sc) = <<>>
BY DEF Tablica, obsluz_polski_znak, PolskieKlawisze, Kody

(* A Polish letter is given by the Latin one on its key.                   *)
LEMMA WyborLitery ==
  ASSUME NEW l \in PolskieLitery
  PROVE  (CHOOSE m \in PolskieLitery : m[1] = l[1]) = l
<1> DEFINE x == CHOOSE m \in PolskieLitery : m[1] = l[1]
<1>1. x \in PolskieLitery /\ x[1] = l[1]
  OBVIOUS
<1> HIDE DEF x
<1>2. x = l
  BY <1>1 DEF PolskieLitery
<1>3. QED
  BY <1>2 DEF x

LEMMA BezPolskiej ==
  \A l \in PolskieLitery : l[1] \notin {113, 49, 47, 10, 56, 0}
BY DEF PolskieLitery

(* With the modifiers of the keyboard the decoder reports what the layout  *)
(* says.                                                                   *)
LEMMA ZnakKlawisza ==
  ASSUME NEW sc \in Zwykle, lewy_shift <=> LSHIFT \in trzymane,
         prawy_shift <=> RSHIFT \in trzymane, prawy_alt <=> ALTGR \in trzymane,
         caps_lock \in BOOLEAN, wcisniety_caps = caps_lock
  PROVE  Znak(sc) = obsluz_zwykly_make_code(sc)
<1> DEFINE S == ShiftTrzymany
           C == wcisniety_caps
           A == ALTGR \in trzymane
           t == Tablica(sc)
           p == obsluz_polski_znak(sc)
           litera == t[1] \in 97 .. 122
           wielka == IF litera THEN S # C ELSE S
<1>1. (shift <=> S) /\ (prawy_alt <=> A) /\ C \in BOOLEAN /\ S \in BOOLEAN
  BY DEF ShiftTrzymany, shift
<1>2. Znak(sc) = IF A
                 THEN IF \E l \in PolskieLitery : l[1] = t[1]
                      THEN LET l == CHOOSE l \in PolskieLitery : l[1] = t[1]
                           IN UTF8(IF wielka THEN l[3] ELSE l[2])
                      ELSE <<>>
                 ELSE IF t[1] = 0 THEN <<>> ELSE <<t[IF wielka THEN 2 ELSE 1]>>
  <2>1. sc \notin {LSHIFT, RSHIFT, CAPS, PAUSE, ALTGR} /\ ~Rozszerzony(sc)
    BY DEF Zwykle, Kody, Modyfikatory, PAUSE, ALTGR, Rozszerzony, SC_RALT_DOWN_E0
  <2>2. QED
    BY <2>1 DEF Znak
<1>3. obsluz_zwykly_make_code(sc)
        = IF A THEN IF p = <<>> THEN <<>> ELSE <<p[1], IF S # C THEN p[3] ELSE p[2]>>
          ELSE LET z == IF S THEN t[2] ELSE t[1]
               IN  IF z = 0 THEN <<>>
                   ELSE <<IF ~C \/ z \notin 65 .. 90 \cup 97 .. 122 THEN z
                          ELSE IF S THEN IF z \in 65 .. 90 THEN z - 65 + 97 ELSE z
                          ELSE IF z \in 97 .. 122 THEN z - 97 + 65 ELSE z>>
  <2>1. ASSUME NEW z
        PROVE  zastosuj_caps_lock(z) =
                 IF ~C \/ z \notin 65 .. 90 \cup 97 .. 122 THEN z
                 ELSE IF S THEN IF z \in 65 .. 90 THEN z - 65 + 97 ELSE z
                 ELSE IF z \in 97 .. 122 THEN z - 97 + 65 ELSE z
    <3>1. caps_lock = C
      OBVIOUS
    <3> HIDE DEF C, S
    <3>2. CASE C /\ S
      BY <1>1, <3>1, <3>2 DEF zastosuj_caps_lock, czy_litera_ascii
    <3>3. CASE C /\ ~S
      BY <1>1, <3>1, <3>3 DEF zastosuj_caps_lock, czy_litera_ascii
    <3>4. CASE ~C
      BY <1>1, <3>1, <3>4 DEF zastosuj_caps_lock, czy_litera_ascii
    <3>5. QED
      BY <1>1, <3>2, <3>3, <3>4
  <2>2. (shift # caps_lock) <=> (S # C)
    BY <1>1 DEF shift
  <2>3. CASE A
    BY <1>1, <2>2, <2>3 DEF obsluz_zwykly_make_code
  <2>4. CASE ~A
    <3> DEFINE z == IF S THEN t[2] ELSE t[1]
    <3>1. obsluz_zwykly_make_code(sc) = IF z = 0 THEN <<>> ELSE <<zastosuj_caps_lock(z)>>
      BY <1>1, <2>4 DEF obsluz_zwykly_make_code, kbd_us, kbd_us_shift
    <3> HIDE DEF z, S, C
    <3>2. QED
      BY <2>1, <2>4, <3>1 DEF z
  <2>5. QED
    BY <2>3, <2>4
<1> HIDE DEF S, C, A, p, t
<1>4. CASE sc \in PolskieKlawisze
  <2>1. PICK l \in PolskieLitery : LiteraKlawisza(sc, l)
    BY <1>4, PolskiKlawisz
  <2>2. /\ t = <<l[1], l[1] - 32>> /\ l[1] \in 97 .. 122 /\ p # <<>>
        /\ UTF8(l[2]) = <<p[1], p[2]>> /\ UTF8(l[3]) = <<p[1], p[3]>>
    BY <2>1 DEF LiteraKlawisza, t, p
  <2>3. t[1] = l[1] /\ t[2] = l[1] - 32 /\ litera /\ (wielka <=> S # C)
    BY <2>2, <1>1
  <2>4. CASE A
    <3>1. (CHOOSE m \in PolskieLitery : m[1] = t[1]) = l
      BY <2>3, WyborLitery
    <3>2. Znak(sc) = UTF8(IF wielka THEN l[3] ELSE l[2])
      BY <1>2, <2>3, <2>4, <3>1
    <3>3. QED
      BY <1>1, <1>3, <2>2, <2>3, <2>4, <3>2
  <2>5. CASE ~A
    <3>1. PICK a \in 97 .. 122 : t[1] = a /\ t[2] = a - 32
      BY <2>2, <2>3
    <3>2. a \in Int /\ a - 32 \in 65 .. 90 /\ a - 32 \in Int /\ a # 0 /\ a - 32 # 0
      OBVIOUS
    <3> HIDE DEF litera, wielka
    <3>3. CASE wielka
      <4>1. Znak(sc) = <<a - 32>>
        BY <1>2, <2>5, <3>1, <3>2, <3>3
      <4>2. CASE S /\ ~C
        <5>1. obsluz_zwykly_make_code(sc) = <<a - 32>>
          BY <1>3, <2>5, <3>1, <3>2, <4>2
        <5>2. QED
          BY <4>1, <5>1
      <4>3. CASE ~S /\ C
        <5>1. obsluz_zwykly_make_code(sc) = <<a - 97 + 65>> /\ a - 97 + 65 = a - 32
          BY <1>3, <2>5, <3>1, <3>2, <4>3
        <5>2. QED
          BY <4>1, <5>1
      <4>4. QED
        BY <1>1, <2>3, <3>3, <4>2, <4>3
    <3>4. CASE ~wielka
      <4>1. Znak(sc) = <<a>>
        BY <1>2, <2>5, <3>1, <3>2, <3>4
      <4>2. CASE S /\ C
        <5>1. obsluz_zwykly_make_code(sc) = <<(a - 32) - 65 + 97>> /\ (a - 32) - 65 + 97 = a
          BY <1>3, <2>5, <3>1, <3>2, <4>2
        <5>2. QED
          BY <4>1, <5>1
      <4>3. CASE ~S /\ ~C
        <5>1. obsluz_zwykly_make_code(sc) = <<a>>
          BY <1>3, <2>5, <3>1, <3>2, <4>3
        <5>2. QED
          BY <4>1, <5>1
      <4>4. QED
        BY <1>1, <2>3, <3>4, <4>2, <4>3
    <3>5. QED
      BY <3>3, <3>4
  <2>6. QED
    BY <2>4, <2>5
<1>5. CASE sc \notin PolskieKlawisze
  <2>1. /\ t \in {<<113, 81>>, <<49, 33>>, <<47, 63>>, <<10, 10>>, <<56, 56>>, <<0, 0>>}
        /\ p = <<>>
    BY <1>5, InnyKlawisz DEF t, p, Zwykle
  <2>2. ~ \E l \in PolskieLitery : l[1] = t[1]
    BY <2>1, BezPolskiej
  <2>3. CASE A
    BY <1>2, <1>3, <2>1, <2>2, <2>3
  <2>4. CASE ~A /\ t = <<113, 81>>
    BY <1>1, <1>2, <1>3, <2>4
  <2>5. CASE ~A /\ t \in {<<49, 33>>, <<47, 63>>, <<10, 10>>, <<56, 56>>, <<0, 0>>}
    <3>1. /\ t[1] \in {49, 47, 10, 56, 0} /\ t[2] \in {33, 63, 10, 56, 0}
          /\ t[1] = 0 <=> t[2] = 0
      BY <2>5
    <3>2. (wielka <=> S) /\ \A z \in {t[1], t[2]} : z \notin 65 .. 90 \cup 97 .. 122
      BY <3>1, <1>1
    <3> HIDE DEF litera, wielka
    <3>3. CASE S
      BY <1>2, <1>3, <2>5, <3>1, <3>2, <3>3
    <3>4. CASE ~S
      <4>1. Znak(sc) = IF t[1] = 0 THEN <<>> ELSE <<t[1]>>
        BY <1>2, <2>5, <3>2, <3>4
      <4>2. obsluz_zwykly_make_code(sc) = IF t[1] = 0 THEN <<>> ELSE <<t[1]>>
        BY <1>3, <2>5, <3>2, <3>4
      <4>3. QED
        BY <4>1, <4>2
    <3>5. QED
      BY <3>3, <3>4
  <2>6. QED
    BY <2>1, <2>3, <2>4, <2>5
<1>6. QED
  BY <1>4, <1>5

-----------------------------------------------------------------------------
(* The bytes of one message, on their way through the decoder.             *)

TypyDekodera ==
  /\ lewy_shift \in BOOLEAN /\ prawy_shift \in BOOLEAN /\ prawy_alt \in BOOLEAN
  /\ caps_lock \in BOOLEAN /\ wcisniety_caps \in BOOLEAN /\ klawisz_rozszerzony_e0 \in BOOLEAN
  /\ pozostalo_e1 \in 0 .. E1_BAJTY_DO_POMINIECIA
  /\ port \in Seq(Nat) /\ zgloszone \in Seq(Nat) /\ oczekiwane \in Seq(Nat)

(* What a code without prefix does not change at all, or only for AltGr.   *)
ShiftyICaps ==
  /\ lewy_shift <=> LSHIFT \in trzymane
  /\ prawy_shift <=> RSHIFT \in trzymane
  /\ caps_lock <=> wcisniety_caps
Alt == prawy_alt <=> ALTGR \in trzymane

Spokoj ==
  /\ port = <<>> /\ ~klawisz_rozszerzony_e0 /\ pozostalo_e1 = 0
  /\ ShiftyICaps /\ Alt /\ zgloszone = oczekiwane

(* The Pause key: its first byte is still to come, or the rest is skipped. *)
Pauza ==
  /\ \/ Len(port) = 6 /\ Head(port) = SC_E1 /\ pozostalo_e1 = 0
     \/ Len(port) \in 1 .. 5 /\ pozostalo_e1 = Len(port)
  /\ ~klawisz_rozszerzony_e0 /\ ShiftyICaps /\ Alt
  /\ zgloszone = <<>> /\ oczekiwane = <<>>

(* Codes with a prefix: every other byte is E0, and of the codes only the  *)
(* last one can mean something.                                            *)
Nieparzyste == {1, 3, 5}
Obojetny(sc) == /\ sc \notin {SC_RALT_DOWN_E0, SC_RALT_UP_E0, SC_E0, SC_E1}
                /\ SekwencjaE0(sc) = <<>>
PoAlt(sc) == sc = SC_RALT_DOWN_E0 \/ (sc # SC_RALT_UP_E0 /\ prawy_alt)

Ciag(q, e0) ==
  /\ Len(q) \in 1 .. 6 /\ (e0 <=> Len(q) \in Nieparzyste)
  /\ \A i \in 1 .. Len(q) - 1 :
       IF Len(q) - i \in Nieparzyste THEN q[i] = SC_E0 ELSE Obojetny(q[i])
  /\ q[Len(q)] \notin {SC_E0, SC_E1}

Rozszerzone ==
  /\ Ciag(port, klawisz_rozszerzony_e0) /\ pozostalo_e1 = 0 /\ ShiftyICaps
  /\ PoAlt(port[Len(port)]) <=> ALTGR \in trzymane
  /\ zgloszone = <<>> /\ SekwencjaE0(port[Len(port)]) = oczekiwane

(* A code without prefix, which may set or clear a modifier.               *)
Nacisniety(k) ==
  /\ port = <<k>>
  /\ LSHIFT \in trzymane <=> lewy_shift \/ k = LSHIFT
  /\ RSHIFT \in trzymane <=> prawy_shift \/ k = RSHIFT
  /\ wcisniety_caps <=> (caps_lock # (k = CAPS))
  /\ oczekiwane = IF k \in Modyfikatory THEN <<>> ELSE obsluz_zwykly_make_code(k)

Puszczony(k) ==
  /\ port = <<k + SC_RELEASE_BIT>>
  /\ lewy_shift <=> LSHIFT \in trzymane \/ k = LSHIFT
  /\ prawy_shift <=> RSHIFT \in trzymane \/ k = RSHIFT
  /\ LSHIFT \in trzymane => k # LSHIFT
  /\ RSHIFT \in trzymane => k # RSHIFT
  /\ caps_lock <=> wcisniety_caps
  /\ oczekiwane = <<>>

Zwykly ==
  /\ ~klawisz_rozszerzony_e0 /\ pozostalo_e1 = 0 /\ Alt /\ zgloszone = <<>>
  /\ \E k \in Kody : Nacisniety(k) \/ Puszczony(k)

InwDekodera == TypyDekodera /\ (Spokoj \/ Pauza \/ Rozszerzone \/ Zwykly)

-----------------------------------------------------------------------------
(* What is reported are sequences of bytes.                                *)
LEMMA SekwencjaTyp == \A sc : SekwencjaE0(sc) \in Seq(Nat)
BY SMTT(30) DEF SekwencjaE0, ESC

LEMMA KodTyp ==
  ASSUME NEW sc \in Kody, TypyDekodera
  PROVE  obsluz_zwykly_make_code(sc) \in Seq(Nat)
<1> DEFINE t == Tablica(sc)
           p == obsluz_polski_znak(sc)
<1>1. t[1] \in Nat /\ t[2] \in Nat
  BY DEF Tablica
<1>2. p = <<>> \/ (p[1] \in Nat /\ p[2] \in Nat /\ p[3] \in Nat)
  <2>1. CASE sc \in PolskieKlawisze
    BY <2>1, PolskiKlawisz DEF LiteraKlawisza
  <2>2. CASE sc \notin PolskieKlawisze
    BY <2>2, InnyKlawisz
  <2>3. QED
    BY <2>1, <2>2
<1>3. ASSUME NEW z \in Nat PROVE zastosuj_caps_lock(z) \in Nat
  BY DEF zastosuj_caps_lock, czy_litera_ascii
<1> HIDE DEF t, p
<1>4. CASE prawy_alt
  <2>1. CASE p = <<>>
    BY <1>4, <2>1 DEF obsluz_zwykly_make_code, p
  <2>2. CASE p # <<>>
    <3>1. PICK x \in Nat, y \in Nat : obsluz_zwykly_make_code(sc) = <<x, y>>
      BY <1>2, <1>4, <2>2 DEF obsluz_zwykly_make_code, p
    <3>2. QED
      BY <3>1
  <2>3. QED
    BY <2>1, <2>2
<1>5. CASE ~prawy_alt
  <2>1. PICK x \in Nat : x = IF shift THEN kbd_us_shift(sc) ELSE kbd_us(sc)
    BY <1>1 DEF kbd_us, kbd_us_shift, t
  <2>2. obsluz_zwykly_make_code(sc) = IF x = 0 THEN <<>> ELSE <<zastosuj_caps_lock(x)>>
    BY <1>5, <2>1 DEF obsluz_zwykly_make_code
  <2>3. zastosuj_caps_lock(x) \in Nat
    BY <1>3
  <2>4. QED
    BY <2>2, <2>3
<1>6. QED
  BY <1>4, <1>5 DEF TypyDekodera

(* The length of a message of more than one byte, and of its tail.         *)
LEMMA Dlugosci ==
  ASSUME NEW n, n \in 1 .. 6, n # 1
  PROVE  /\ n \in Int /\ n >= 2 /\ n <= 6 /\ n - 1 \in 1 .. 5 /\ n - 1 \in 1 .. 6
         /\ n - 1 \in Nieparzyste <=> n \notin Nieparzyste
         /\ 1 \in 1 .. n - 1
         /\ (n - 1) + 1 = n
BY DEF Nieparzyste

(* After one more byte of a message with prefixes.                         *)
LEMMA CiagOgon ==
  ASSUME NEW q \in Seq(Nat), NEW e0 \in BOOLEAN, Ciag(q, e0), Len(q) # 1
  PROVE  Ciag(Tail(q), ~e0) /\ Tail(q)[Len(Tail(q))] = q[Len(q)] /\ Tail(q) \in Seq(Nat)
<1> DEFINE r == Tail(q)
<1>1. Len(q) \in 1 .. 6 /\ (e0 <=> Len(q) \in Nieparzyste) /\ q[Len(q)] \notin {SC_E0, SC_E1}
  BY DEF Ciag
<1>0. /\ Len(q) \in Int /\ Len(q) >= 2 /\ Len(q) <= 6 /\ Len(q) - 1 \in 1 .. 5
      /\ Len(q) - 1 \in 1 .. 6 /\ (Len(q) - 1) + 1 = Len(q)
      /\ Len(q) - 1 \in Nieparzyste <=> Len(q) \notin Nieparzyste
  <2>1. Len(q) \in 1 .. 6
    BY <1>1
  <2>2. Len(q) # 1
    OBVIOUS
  <2>3. QED
    BY ONLY <2>1, <2>2, Dlugosci
<1>2. /\ r \in Seq(Nat) /\ Len(r) = Len(q) - 1 /\ Len(r) \in 1 .. 5
      /\ \A i \in 1 .. Len(r) : r[i] = q[i + 1]
  <2>1. q # <<>>
    BY <1>0
  <2>2. r \in Seq(Nat) /\ Len(r) = Len(q) - 1
    BY <2>1
  <2>3. \A i \in 1 .. Len(q) - 1 : r[i] = q[i + 1]
    BY <2>1
  <2> HIDE DEF r
  <2>4. QED
    BY ONLY <1>0, <2>2, <2>3
<1> HIDE DEF r
<1>3. r[Len(r)] = q[Len(q)]
  <2>1. ASSUME NEW n, n \in 1 .. 5 PROVE n \in 1 .. n
    BY <2>1
  <2>2. Len(r) \in 1 .. Len(r) /\ Len(r) + 1 = Len(q)
    BY ONLY <1>0, <1>2, <2>1
  <2>3. QED
    BY <1>2, <2>2
<1>4. (~e0) <=> Len(r) \in Nieparzyste
  <2>1. Len(r) \in Nieparzyste <=> Len(q) \notin Nieparzyste
    BY ONLY <1>0, <1>2
  <2>2. QED
    BY <1>1, <2>1
<1>5. ASSUME NEW i \in 1 .. Len(r) - 1
      PROVE  IF Len(r) - i \in Nieparzyste THEN r[i] = SC_E0 ELSE Obojetny(r[i])
  <2>1. /\ i + 1 \in 1 .. Len(q) - 1 /\ Len(r) - i = Len(q) - (i + 1) /\ i \in 1 .. Len(r)
    BY <1>0, <1>2
  <2>2. r[i] = q[i + 1]
    BY <1>2, <2>1
  <2>3. IF Len(q) - (i + 1) \in Nieparzyste THEN q[i + 1] = SC_E0 ELSE Obojetny(q[i + 1])
    BY <2>1 DEF Ciag
  <2>4. QED
    BY <2>1, <2>2, <2>3
<1>6. Len(r) \in 1 .. 6
  BY ONLY <1>0, <1>2
<1>7. Ciag(r, ~e0)
  BY <1>1, <1>3, <1>4, <1>5, <1>6 DEF Ciag
<1>8. QED
  BY <1>2, <1>3, <1>7 DEF r

(* A byte of a message with prefixes leaves such a message, or ends it.    *)
LEMMA KrokRozszerzony ==
  ASSUME TypyDekodera, Rozszerzone, obsluga_przerwania_klawiatury
  PROVE  InwDekodera'
<1> DEFINE sc == Head(port)
<1>1. /\ Ciag(port, klawisz_rozszerzony_e0) /\ port \in Seq(Nat) /\ pozostalo_e1 = 0
      /\ zgloszone = <<>>
  BY DEF Rozszerzone, TypyDekodera
<1>2. Len(port) \in 1 .. 6 /\ sc = port[1] /\ sc \in Nat
  BY <1>1 DEF Ciag
<1>3. /\ port' = Tail(port) /\ UNCHANGED <<trzymane, wcisniety_caps, oczekiwane>>
      /\ Tail(port) \in Seq(Nat)
  BY <1>1, <1>2 DEF obsluga_przerwania_klawiatury, fizyczne
<1>4. CASE Len(port) = 1
  <2>1. klawisz_rozszerzony_e0 /\ sc \notin {SC_E0, SC_E1}
    BY <1>1, <1>2, <1>4 DEF Ciag, Nieparzyste
  <2>2. klawisz_rozszerzony_e0' = FALSE /\ obsluz_e0(sc) /\ UNCHANGED pozostalo_e1
    BY <1>1, <2>1 DEF obsluga_przerwania_klawiatury
  <2>3. port' = <<>>
    BY <1>1, <1>3, <1>4
  <2>4. zgloszone' = oczekiwane' /\ zgloszone' \in Seq(Nat)
    BY <1>1, <1>2, <1>3, <1>4, <2>2, SekwencjaTyp DEF obsluz_e0, Rozszerzone
  <2>5. (prawy_alt' <=> ALTGR \in trzymane') /\ prawy_alt' \in BOOLEAN
    BY <1>2, <1>3, <1>4, <2>2 DEF obsluz_e0, Rozszerzone, PoAlt, TypyDekodera
  <2>6. ShiftyICaps' /\ UNCHANGED <<lewy_shift, prawy_shift, caps_lock>>
    BY <1>3, <2>2 DEF obsluz_e0, Rozszerzone, ShiftyICaps
  <2>7. Spokoj'
    BY <1>1, <2>2, <2>3, <2>4, <2>5, <2>6 DEF Spokoj, Alt
  <2>8. TypyDekodera'
    BY <1>3, <2>2, <2>3, <2>4, <2>5, <2>6 DEF TypyDekodera
  <2>9. QED
    BY <2>7, <2>8 DEF InwDekodera
<1>5. CASE Len(port) # 1
  <2>1. /\ Ciag(port', ~klawisz_rozszerzony_e0) /\ port'[Len(port')] = port[Len(port)]
    BY <1>1, <1>3, <1>5, CiagOgon DEF TypyDekodera
  <2>2. /\ UNCHANGED <<modyfikatory, pozostalo_e1, zgloszone>>
        /\ klawisz_rozszerzony_e0' = ~klawisz_rozszerzony_e0
    <3>1. IF Len(port) - 1 \in Nieparzyste THEN sc = SC_E0 ELSE Obojetny(sc)
      <4>1. 1 \in 1 .. Len(port) - 1
        BY ONLY <1>2, <1>5, Dlugosci
      <4>2. QED
        BY <1>1, <1>2, <4>1 DEF Ciag
    <3>2. CASE klawisz_rozszerzony_e0
      <4>1. Obojetny(sc)
        <5>1. Len(port) \in Nieparzyste
          BY <1>1, <3>2 DEF Ciag
        <5>2. Len(port) - 1 \notin Nieparzyste
          BY ONLY <1>2, <5>1 DEF Nieparzyste
        <5>3. QED
          BY <3>1, <5>2
      <4>2. sc \notin {SC_E0, SC_E1}
        BY <4>1 DEF Obojetny
      <4>3. klawisz_rozszerzony_e0' = FALSE /\ obsluz_e0(sc) /\ UNCHANGED pozostalo_e1
        BY <1>1, <3>2, <4>2 DEF obsluga_przerwania_klawiatury
      <4>4. zgloszone' = zgloszone
        BY <1>1, <4>1, <4>3 DEF obsluz_e0, Obojetny
      <4>5. UNCHANGED modyfikatory
        BY <4>1, <4>3 DEF obsluz_e0, Obojetny, modyfikatory
      <4>6. QED
        BY <3>2, <4>3, <4>4, <4>5
    <3>3. CASE ~klawisz_rozszerzony_e0
      <4>1. sc = SC_E0
        BY <1>1, <1>2, <3>1, <3>3 DEF Ciag, Nieparzyste
      <4>2. SC_E0 # SC_E1
        BY DEF SC_E0, SC_E1
      <4>3. QED
        BY <1>1, <3>3, <4>1, <4>2 DEF obsluga_przerwania_klawiatury
    <3>4. QED
      BY <3>2, <3>3 DEF TypyDekodera
  <2>3. UNCHANGED <<lewy_shift, prawy_shift, prawy_alt, caps_lock>>
    BY <2>2 DEF modyfikatory
  <2>4. Ciag(port, klawisz_rozszerzony_e0)'
    BY <2>1, <2>2 DEF Ciag, Obojetny
  <2>5. Rozszerzone'
    BY <1>3, <2>1, <2>2, <2>3, <2>4 DEF Rozszerzone, ShiftyICaps, PoAlt
  <2>6. TypyDekodera'
    BY <1>3, <2>2, <2>3 DEF TypyDekodera
  <2>7. QED
    BY <2>5, <2>6 DEF InwDekodera
<1>6. QED
  BY <1>4, <1>5

(* The Pause key: E1 and five bytes, none of them looked at.               *)
LEMMA KrokPauzy ==
  ASSUME TypyDekodera, Pauza, obsluga_przerwania_klawiatury
  PROVE  InwDekodera'
<1>1. /\ port' = Tail(port) /\ UNCHANGED <<trzymane, wcisniety_caps, oczekiwane>>
      /\ port # <<>> /\ port \in Seq(Nat)
  BY DEF obsluga_przerwania_klawiatury, fizyczne, TypyDekodera
<1>2. port' \in Seq(Nat) /\ Len(port') = Len(port) - 1
  BY <1>1
<1>3. SC_E1 # SC_E0 /\ SC_E1 \in Nat
  BY DEF SC_E1, SC_E0
<1>4. CASE Len(port) = 6 /\ Head(port) = SC_E1 /\ pozostalo_e1 = 0
  <2>1. ZacznijE1 /\ UNCHANGED <<modyfikatory, zgloszone>>
    BY <1>3, <1>4 DEF obsluga_przerwania_klawiatury
  <2>2. pozostalo_e1' = 5 /\ klawisz_rozszerzony_e0' = FALSE
    BY <2>1 DEF ZacznijE1, E1_BAJTY_DO_POMINIECIA
  <2>3. UNCHANGED <<lewy_shift, prawy_shift, prawy_alt, caps_lock>>
    BY <2>1 DEF modyfikatory
  <2>4. Len(port') = 5
    BY ONLY <1>2, <1>4
  <2>5. Pauza'
    BY <1>1, <2>1, <2>2, <2>3, <2>4 DEF Pauza, ShiftyICaps, Alt
  <2>6. TypyDekodera'
    <3>1. zgloszone' = zgloszone /\ pozostalo_e1' \in 0 .. E1_BAJTY_DO_POMINIECIA
      BY <2>1, <2>2 DEF E1_BAJTY_DO_POMINIECIA
    <3>2. QED
      BY <1>1, <1>2, <2>2, <2>3, <3>1 DEF TypyDekodera
  <2>7. QED
    BY <2>5, <2>6 DEF InwDekodera
<1>5. CASE Len(port) \in 1 .. 5 /\ pozostalo_e1 = Len(port)
  <2>1. pozostalo_e1 # 0 /\ pozostalo_e1 \in 1 .. 5
    BY ONLY <1>5
  <2>2. /\ pozostalo_e1' = pozostalo_e1 - 1
        /\ UNCHANGED <<modyfikatory, klawisz_rozszerzony_e0, zgloszone>>
    BY <2>1 DEF obsluga_przerwania_klawiatury
  <2>3. UNCHANGED <<lewy_shift, prawy_shift, prawy_alt, caps_lock>>
    BY <2>2 DEF modyfikatory
  <2>4. Len(port') = pozostalo_e1' /\ pozostalo_e1' \in 0 .. 5
    <3>1. /\ Len(port') = Len(port) - 1 /\ pozostalo_e1 = Len(port)
          /\ pozostalo_e1' = pozostalo_e1 - 1
      BY <1>2, <1>5, <2>2
    <3>2. QED
      BY ONLY <2>1, <3>1, SMTT(30)
  <2>5. TypyDekodera'
    BY <1>1, <1>2, <2>2, <2>3, <2>4 DEF TypyDekodera, E1_BAJTY_DO_POMINIECIA
  <2>6. CASE pozostalo_e1' = 0
    <3>1. port' = <<>>
      BY <1>2, <2>4, <2>6
    <3>2. Spokoj'
      BY <1>1, <2>2, <2>3, <2>6, <3>1 DEF Pauza, Spokoj, ShiftyICaps, Alt
    <3>3. QED
      BY <2>5, <3>2 DEF InwDekodera
  <2>7. CASE pozostalo_e1' # 0
    <3>1. Len(port') \in 1 .. 5
      BY ONLY <2>4, <2>7
    <3>2. Pauza'
      BY <1>1, <2>2, <2>3, <2>4, <3>1 DEF Pauza, ShiftyICaps, Alt
    <3>3. QED
      BY <2>5, <3>2 DEF InwDekodera
  <2>8. QED
    BY <2>6, <2>7
<1>6. QED
  BY <1>4, <1>5 DEF Pauza

(* A code without a prefix is a whole message.                             *)
LEMMA KrokZwykly ==
  ASSUME TypyDekodera, Zwykly, obsluga_przerwania_klawiatury
  PROVE  InwDekodera'
<1> DEFINE sc == Head(port)
<1>1. /\ port' = Tail(port) /\ UNCHANGED <<trzymane, wcisniety_caps, oczekiwane>>
      /\ pozostalo_e1 = 0 /\ ~klawisz_rozszerzony_e0 /\ zgloszone = <<>> /\ Alt
  BY DEF obsluga_przerwania_klawiatury, fizyczne, Zwykly
<1>2. PICK k \in Kody : Nacisniety(k) \/ Puszczony(k)
  BY DEF Zwykly
<1>3. k \in Nat /\ k < 128 /\ k # \h60 /\ k # \h61
  BY DEF Kody
<1>4. ASSUME sc \notin {SC_E0, SC_E1}
      PROVE  ObsluzZwykly(sc) /\ UNCHANGED <<klawisz_rozszerzony_e0, pozostalo_e1>>
  BY <1>1, <1>4 DEF obsluga_przerwania_klawiatury
<1>5. CASE Nacisniety(k)
  <2>1. port = <<k>> /\ sc = k /\ port' = <<>>
    BY <1>1, <1>3, <1>5 DEF Nacisniety
  <2>2. /\ sc \notin {SC_E0, SC_E1, SC_LSHIFT_UP, SC_RSHIFT_UP} /\ ~(k >= SC_RELEASE_BIT)
    BY <1>3, <2>1 DEF SC_E0, SC_E1, SC_LSHIFT_UP, SC_RSHIFT_UP, SC_RELEASE_BIT
  <2>3. ObsluzZwykly(k) /\ UNCHANGED <<klawisz_rozszerzony_e0, pozostalo_e1>>
    BY <1>4, <2>1, <2>2
  <2>4. /\ lewy_shift' = (lewy_shift \/ k = LSHIFT)
        /\ prawy_shift' = (prawy_shift \/ k = RSHIFT)
        /\ caps_lock' = IF k = CAPS THEN ~caps_lock ELSE caps_lock
        /\ prawy_alt' = prawy_alt
    BY <2>1, <2>2, <2>3 DEF ObsluzZwykly, LSHIFT, RSHIFT, CAPS, TypyDekodera
  <2>5. zgloszone' = IF k \in Modyfikatory THEN <<>> ELSE <<>> \o obsluz_zwykly_make_code(k)
    BY <1>1, <2>2, <2>3 DEF ObsluzZwykly, Modyfikatory, LSHIFT, RSHIFT, CAPS
  <2>6. obsluz_zwykly_make_code(k) \in Seq(Nat)
    BY KodTyp
  <2>7. zgloszone' = oczekiwane'
    BY <1>1, <1>5, <2>5, <2>6 DEF Nacisniety
  <2>8. ShiftyICaps'
    BY <1>1, <1>5, <2>4 DEF Nacisniety, ShiftyICaps, TypyDekodera
  <2>9. Spokoj'
    BY <1>1, <2>1, <2>3, <2>4, <2>7, <2>8 DEF Spokoj, Alt
  <2>10. TypyDekodera'
    BY <1>1, <2>1, <2>3, <2>4, <2>7 DEF TypyDekodera
  <2>11. QED
    BY <2>9, <2>10 DEF InwDekodera
<1>6. CASE Puszczony(k)
  <2>1. port = <<k + 128>> /\ sc = k + 128 /\ port' = <<>>
    BY <1>1, <1>3, <1>6 DEF Puszczony, SC_RELEASE_BIT
  <2>2. /\ sc \notin {SC_E0, SC_E1, SC_LSHIFT_DOWN, SC_RSHIFT_DOWN, SC_CAPSLOCK}
        /\ sc >= SC_RELEASE_BIT
    BY <1>3, <2>1 DEF SC_E0, SC_E1, SC_LSHIFT_DOWN, SC_RSHIFT_DOWN, SC_CAPSLOCK, SC_RELEASE_BIT
  <2>3. (sc = SC_LSHIFT_UP <=> k = LSHIFT) /\ (sc = SC_RSHIFT_UP <=> k = RSHIFT)
    BY <1>3, <2>1 DEF SC_LSHIFT_UP, SC_RSHIFT_UP, LSHIFT, RSHIFT, SC_LSHIFT_DOWN, SC_RSHIFT_DOWN
  <2>4. ObsluzZwykly(sc) /\ UNCHANGED <<klawisz_rozszerzony_e0, pozostalo_e1>>
    BY <1>4, <2>2
  <2> HIDE DEF sc
  <2>5. /\ lewy_shift' = (lewy_shift /\ k # LSHIFT)
        /\ prawy_shift' = (prawy_shift /\ k # RSHIFT)
        /\ caps_lock' = caps_lock /\ prawy_alt' = prawy_alt
        /\ zgloszone' = <<>>
    BY <1>1, <2>2, <2>3, <2>4 DEF ObsluzZwykly, TypyDekodera
  <2>6. ShiftyICaps' /\ zgloszone' = oczekiwane'
    BY <1>1, <1>6, <2>5 DEF Puszczony, ShiftyICaps, TypyDekodera
  <2>7. Spokoj'
    BY <1>1, <2>1, <2>4, <2>5, <2>6 DEF Spokoj, Alt
  <2>8. TypyDekodera'
    BY <1>1, <2>1, <2>4, <2>5 DEF TypyDekodera
  <2>9. QED
    BY <2>7, <2>8 DEF InwDekodera
<1>7. QED
  BY <1>2, <1>5, <1>6

(* The messages with prefixes that the keyboard sends: one code, or two or *)
(* three, of which the last one is c.                                      *)
LEMMA CiagJeden ==
  ASSUME NEW c \in Nat, c \notin {SC_E0, SC_E1}, NEW q, q = <<SC_E0, c>>
  PROVE  Ciag(q, FALSE) /\ q \in Seq(Nat) /\ q[Len(q)] = c
<1>1. SC_E0 \in Nat
  BY DEF SC_E0
<1>2. Len(q) = 2 /\ q[1] = SC_E0 /\ q[2] = c /\ q \in Seq(Nat)
  BY <1>1
<1>3. QED
  BY <1>2 DEF Ciag, Nieparzyste

LEMMA CiagDwa ==
  ASSUME NEW a \in Nat, NEW c \in Nat, Obojetny(a), c \notin {SC_E0, SC_E1},
         NEW q, q = <<SC_E0, a, SC_E0, c>>
  PROVE  Ciag(q, FALSE) /\ q \in Seq(Nat) /\ q[Len(q)] = c
<1>1. SC_E0 \in Nat
  BY DEF SC_E0
<1>2. Len(q) = 4 /\ q[1] = SC_E0 /\ q[2] = a /\ q[3] = SC_E0 /\ q[4] = c /\ q \in Seq(Nat)
  BY <1>1
<1>3. ASSUME NEW i \in 1 .. 3
      PROVE  IF 4 - i \in Nieparzyste THEN q[i] = SC_E0 ELSE Obojetny(q[i])
  BY <1>2 DEF Nieparzyste
<1>4. QED
  BY <1>2, <1>3 DEF Ciag, Nieparzyste

TrzyKody(a, b, c) == <<SC_E0, a, SC_E0, b, SC_E0, c>>

LEMMA CiagTrzy ==
  ASSUME NEW a \in Nat, NEW b \in Nat, NEW c \in Nat, Obojetny(a), Obojetny(b),
         c \notin {SC_E0, SC_E1}, NEW q, q = TrzyKody(a, b, c)
  PROVE  Ciag(q, FALSE) /\ q \in Seq(Nat) /\ q[Len(q)] = c
<1>1. SC_E0 \in Nat
  BY DEF SC_E0
<1>2. /\ Len(q) = 6 /\ q[1] = SC_E0 /\ q[2] = a /\ q[3] = SC_E0 /\ q[4] = b
      /\ q[5] = SC_E0 /\ q[6] = c /\ q \in Seq(Nat)
  BY <1>1 DEF TrzyKody
<1>3. ASSUME NEW i \in 1 .. 5
      PROVE  IF 6 - i \in Nieparzyste THEN q[i] = SC_E0 ELSE Obojetny(q[i])
  BY <1>2 DEF Nieparzyste
<1>4. QED
  BY <1>2, <1>3 DEF Ciag, Nieparzyste

(* Every code of the keyboard that can stand inside such a message.        *)
LEMMA KodyObojetne ==
  /\ \A sc \in {SC_LSHIFT_DOWN, SC_LSHIFT_UP, SC_RSHIFT_DOWN, SC_RSHIFT_UP} :
       sc \in Nat /\ Obojetny(sc)
  /\ \A x \in Kody : x # SC_RALT_DOWN_E0 =>
       /\ x + SC_RELEASE_BIT \in Nat /\ Obojetny(x + SC_RELEASE_BIT)
       /\ x \in Nat /\ x \notin {SC_RALT_UP_E0, SC_E0, SC_E1}
<1> USE DEF SC_LSHIFT_DOWN, SC_LSHIFT_UP, SC_RSHIFT_DOWN, SC_RSHIFT_UP, SC_RALT_DOWN_E0,
            SC_RALT_UP_E0, SC_E0, SC_E1, SC_RELEASE_BIT
<1>1. ASSUME NEW sc \in {SC_LSHIFT_DOWN, SC_LSHIFT_UP, SC_RSHIFT_DOWN, SC_RSHIFT_UP}
      PROVE  sc \in Nat /\ Obojetny(sc)
  BY <1>1 DEF Obojetny, SekwencjaE0
<1>2. ASSUME NEW x \in Kody, x # SC_RALT_DOWN_E0
      PROVE  /\ x + SC_RELEASE_BIT \in Nat /\ Obojetny(x + SC_RELEASE_BIT)
             /\ x \in Nat /\ x \notin {SC_RALT_UP_E0, SC_E0, SC_E1}
  <2>1. x \in Nat /\ x < 128 /\ x # 96 /\ x # 97 /\ x # 56
    BY <1>2 DEF Kody
  <2>2. SekwencjaE0(x + SC_RELEASE_BIT) = <<>>
    BY <2>1 DEF SekwencjaE0
  <2>3. QED
    BY <2>1, <2>2 DEF Obojetny
<1>3. QED
  BY <1>1, <1>2

(* A concatenation, element by element; and the ones that occur.           *)
LEMMA Zlozenie ==
  ASSUME NEW u \in Seq(Nat), NEW v \in Seq(Nat), NEW w \in Seq(Nat), Len(w) = Len(u) + Len(v),
         \A i \in 1 .. Len(u) : w[i] = u[i], \A i \in 1 .. Len(v) : w[Len(u) + i] = v[i]
  PROVE  u \o v = w
<1>1. /\ u \o v \in Seq(Nat) /\ Len(u \o v) = Len(w)
      /\ \A i \in 1 .. Len(w) : (u \o v)[i] = IF i <= Len(u) THEN u[i] ELSE v[i - Len(u)]
  BY ConcatProperties
<1>2. Len(u) \in Nat /\ Len(v) \in Nat
  OBVIOUS
<1>3. ASSUME NEW i \in 1 .. Len(w) PROVE (u \o v)[i] = w[i]
  <2>1. CASE i <= Len(u)
    <3>1. i \in 1 .. Len(u)
      BY <1>2, <2>1
    <3>2. QED
      BY <1>1, <2>1, <3>1
  <2>2. CASE ~(i <= Len(u))
    <3>1. i - Len(u) \in 1 .. Len(v) /\ Len(u) + (i - Len(u)) = i
      BY <1>2, <2>2
    <3>2. QED
      BY <1>1, <2>2, <3>1
  <2>3. QED
    BY <2>1, <2>2
<1>4. QED
  BY <1>1, <1>3, SeqEqual

LEMMA SklejPary ==
  ASSUME NEW a \in Nat, NEW b \in Nat, NEW c \in Nat, NEW d \in Nat
  PROVE  <<a, b>> \o <<c, d>> = <<a, b, c, d>>
<1> DEFINE u == <<a, b>>
           v == <<c, d>>
           w == <<a, b, c, d>>
<1>1. u \in Seq(Nat) /\ Len(u) = 2 /\ u[1] = a /\ u[2] = b
  OBVIOUS
<1>2. v \in Seq(Nat) /\ Len(v) = 2 /\ v[1] = c /\ v[2] = d
  OBVIOUS
<1>3. w \in Seq(Nat) /\ Len(w) = 4 /\ w[1] = a /\ w[2] = b /\ w[3] = c /\ w[4] = d
  OBVIOUS
<1> HIDE DEF u, v, w
<1>4. Len(w) = Len(u) + Len(v)
  BY ONLY <1>1, <1>2, <1>3
<1>5. \A i \in 1 .. Len(u) : w[i] = u[i]
  BY ONLY <1>1, <1>3
<1>6. \A i \in 1 .. Len(v) : w[Len(u) + i] = v[i]
  <2>1. \A i \in 1 .. 2 : w[2 + i] = v[i]
    BY ONLY <1>2, <1>3
  <2>2. QED
    BY ONLY <1>1, <1>2, <2>1
<1>7. u \o v = w
  BY <1>1, <1>2, <1>3, <1>4, <1>5, <1>6, Zlozenie, Zenon
<1>8. QED
  BY <1>7 DEF u, v, w

LEMMA DoklejPare ==
  ASSUME NEW b \in Nat, NEW d \in Nat, NEW f \in Nat
  PROVE  <<SC_E0, b, SC_E0, d>> \o <<SC_E0, f>> = <<SC_E0, b, SC_E0, d, SC_E0, f>>
<1> DEFINE u == <<SC_E0, b, SC_E0, d>>
           v == <<SC_E0, f>>
           w == <<SC_E0, b, SC_E0, d, SC_E0, f>>
<1>0. SC_E0 \in Nat
  BY DEF SC_E0
<1>1. u \in Seq(Nat) /\ Len(u) = 4 /\ u[1] = SC_E0 /\ u[2] = b /\ u[3] = SC_E0 /\ u[4] = d
  BY <1>0
<1>2. v \in Seq(Nat) /\ Len(v) = 2 /\ v[1] = SC_E0 /\ v[2] = f
  BY <1>0
<1>3. w \in Seq(Nat) /\ Len(w) = 6 /\ w[1] = SC_E0 /\ w[2] = b /\ w[3] = SC_E0 /\ w[4] = d /\ w[5] = SC_E0 /\ w[6] = f
  BY <1>0
<1> HIDE DEF u, v, w
<1>4. Len(w) = Len(u) + Len(v)
  BY ONLY <1>1, <1>2, <1>3
<1>5. \A i \in 1 .. Len(u) : w[i] = u[i]
  BY ONLY <1>1, <1>3
<1>6. \A i \in 1 .. Len(v) : w[Len(u) + i] = v[i]
  <2>1. \A i \in 1 .. 2 : w[4 + i] = v[i]
    BY ONLY <1>2, <1>3
  <2>2. QED
    BY ONLY <1>1, <1>2, <2>1
<1>7. u \o v = w
  BY <1>1, <1>2, <1>3, <1>4, <1>5, <1>6, Zlozenie, Zenon
<1>8. QED
  BY <1>7 DEF u, v, w

LEMMA PrzedPare ==
  ASSUME NEW b \in Nat, NEW d \in Nat, NEW f \in Nat
  PROVE  <<SC_E0, b>> \o <<SC_E0, d, SC_E0, f>> = <<SC_E0, b, SC_E0, d, SC_E0, f>>
<1> DEFINE u == <<SC_E0, b>>
           v == <<SC_E0, d, SC_E0, f>>
           w == <<SC_E0, b, SC_E0, d, SC_E0, f>>
<1>0. SC_E0 \in Nat
  BY DEF SC_E0
<1>1. u \in Seq(Nat) /\ Len(u) = 2 /\ u[1] = SC_E0 /\ u[2] = b
  BY <1>0
<1>2. v \in Seq(Nat) /\ Len(v) = 4 /\ v[1] = SC_E0 /\ v[2] = d /\ v[3] = SC_E0 /\ v[4] = f
  BY <1>0
<1>3. w \in Seq(Nat) /\ Len(w) = 6 /\ w[1] = SC_E0 /\ w[2] = b /\ w[3] = SC_E0 /\ w[4] = d /\ w[5] = SC_E0 /\ w[6] = f
  BY <1>0
<1> HIDE DEF u, v, w
<1>4. Len(w) = Len(u) + Len(v)
  BY ONLY <1>1, <1>2, <1>3
<1>5. \A i \in 1 .. Len(u) : w[i] = u[i]
  BY ONLY <1>1, <1>3
<1>6. \A i \in 1 .. Len(v) : w[Len(u) + i] = v[i]
  <2>1. \A i \in 1 .. 4 : w[2 + i] = v[i]
    BY ONLY <1>2, <1>3
  <2>2. QED
    BY ONLY <1>1, <1>2, <2>1
<1>7. u \o v = w
  BY <1>1, <1>2, <1>3, <1>4, <1>5, <1>6, Zlozenie, Zenon
<1>8. QED
  BY <1>7 DEF u, v, w

LEMMA SklejPuste ==
  ASSUME NEW a \in Nat, NEW b \in Nat
  PROVE  <<a, b>> \o <<>> = <<a, b>> /\ <<>> \o <<a, b>> = <<a, b>> /\ <<>> \o <<>> = <<>>
<1>1. <<a, b>> \o <<>> = <<a, b>> /\ <<>> \o <<a, b>> = <<a, b>>
  OBVIOUS
<1>2. <<>> \o <<>> = <<>>
  OBVIOUS
<1>3. QED
  BY <1>1, <1>2

LEMMA SklejKody ==
  ASSUME NEW a \in Nat, NEW b \in Nat
  PROVE  <<SC_E0, a>> \o <<SC_E0, b>> = <<SC_E0, a, SC_E0, b>>
<1>1. PICK e \in Nat : e = SC_E0
  BY DEF SC_E0
<1>2. <<e, a>> \o <<e, b>> = <<e, a, e, b>>
  BY SklejPary
<1>3. QED
  BY <1>1, <1>2, Zenon

(* The fake Shift codes around an extended key leave a message as above.   *)
LEMMA CiagZShiftem ==
  ASSUME NEW x \in Kody, x # SC_RALT_DOWN_E0
  PROVE  /\ \E q \in Seq(Nat) : /\ q = FalszywyShift(FALSE) \o <<SC_E0, x>>
                                /\ Ciag(q, FALSE) /\ q[Len(q)] = x
         /\ \E q \in Seq(Nat) : /\ q = <<SC_E0, x + SC_RELEASE_BIT>> \o FalszywyShift(TRUE)
                                /\ Ciag(q, FALSE) /\ Obojetny(q[Len(q)])
<1> DEFINE L == LSHIFT \in trzymane
           R == RSHIFT \in trzymane
           la == SC_LSHIFT_UP
           ra == SC_RSHIFT_UP
           ld == SC_LSHIFT_DOWN
           rd == SC_RSHIFT_DOWN
           y == x + SC_RELEASE_BIT
<1>1. /\ x \in Nat /\ SC_E0 \in Nat /\ la \in Nat /\ ra \in Nat /\ ld \in Nat /\ rd \in Nat
      /\ y \in Nat /\ x \notin {SC_E0, SC_E1}
      /\ Obojetny(la) /\ Obojetny(ra) /\ Obojetny(ld) /\ Obojetny(rd) /\ Obojetny(y)
  <2>1. SC_E0 \in Nat
    BY DEF SC_E0
  <2>2. QED
    BY <2>1, KodyObojetne
<1>0. \A sc \in {ld, rd, y} : sc \notin {SC_E0, SC_E1}
  BY <1>1 DEF Obojetny
<1>11. /\ x \in Nat /\ SC_E0 \in Nat /\ la \in Nat /\ ra \in Nat /\ ld \in Nat /\ rd \in Nat
      /\ y \in Nat
  BY <1>1
<1>2. FalszywyShift(FALSE) = (IF L THEN <<SC_E0, la>> ELSE <<>>) \o (IF R THEN <<SC_E0, ra>> ELSE <<>>)
  BY DEF FalszywyShift
<1>3. FalszywyShift(TRUE) = (IF L THEN <<SC_E0, ld>> ELSE <<>>) \o (IF R THEN <<SC_E0, rd>> ELSE <<>>)
  BY DEF FalszywyShift
<1> HIDE DEF L, R, la, ra, ld, rd, y
<1>4. \/ FalszywyShift(FALSE) \o <<SC_E0, x>> = <<SC_E0, x>>
      \/ FalszywyShift(FALSE) \o <<SC_E0, x>> = <<SC_E0, la, SC_E0, x>>
      \/ FalszywyShift(FALSE) \o <<SC_E0, x>> = <<SC_E0, ra, SC_E0, x>>
      \/ FalszywyShift(FALSE) \o <<SC_E0, x>> = TrzyKody(la, ra, x)
  <2>1. CASE L /\ R
    <3>1. FalszywyShift(FALSE) = <<SC_E0, la>> \o <<SC_E0, ra>>
      BY <1>2, <2>1, Zenon
    <3>2. <<SC_E0, la>> \o <<SC_E0, ra>> = <<SC_E0, la, SC_E0, ra>>
      BY ONLY <1>11, SklejKody, Zenon
    <3>3. <<SC_E0, la, SC_E0, ra>> \o <<SC_E0, x>> = TrzyKody(la, ra, x)
      <4>1. SC_E0 \in Nat /\ la \in Nat /\ ra \in Nat /\ x \in Nat
        BY <1>1
      <4>2. QED
        BY ONLY <4>1, DoklejPare, Zenon DEF TrzyKody
    <3>4. QED
      BY <3>1, <3>2, <3>3, Zenon
  <2>2. CASE L /\ ~R
    <3>1. FalszywyShift(FALSE) = <<SC_E0, la>> \o <<>>
      BY <1>2, <2>2, Zenon
    <3>2. <<SC_E0, la>> \o <<>> = <<SC_E0, la>>
      BY ONLY <1>11, SklejPuste, Zenon
    <3>3. <<SC_E0, la>> \o <<SC_E0, x>> = <<SC_E0, la, SC_E0, x>>
      BY ONLY <1>11, SklejKody, Zenon
    <3>4. QED
      BY <3>1, <3>2, <3>3, Zenon
  <2>3. CASE ~L /\ R
    <3>1. FalszywyShift(FALSE) = <<>> \o <<SC_E0, ra>>
      BY <1>2, <2>3, Zenon
    <3>2. <<>> \o <<SC_E0, ra>> = <<SC_E0, ra>>
      BY ONLY <1>11, SklejPuste, Zenon
    <3>3. <<SC_E0, ra>> \o <<SC_E0, x>> = <<SC_E0, ra, SC_E0, x>>
      BY ONLY <1>11, SklejKody, Zenon
    <3>4. QED
      BY <3>1, <3>2, <3>3, Zenon
  <2>4. CASE ~L /\ ~R
    <3>1. FalszywyShift(FALSE) = <<>> \o <<>>
      BY <1>2, <2>4, Zenon
    <3>2. <<>> \o <<>> = <<>> /\ <<>> \o <<SC_E0, x>> = <<SC_E0, x>>
      BY ONLY <1>11, SklejPuste, Zenon
    <3>3. QED
      BY <3>1, <3>2, Zenon
  <2>5. QED
    BY <2>1, <2>2, <2>3, <2>4, Zenon
<1>5. \/ <<SC_E0, y>> \o FalszywyShift(TRUE) = <<SC_E0, y>>
      \/ <<SC_E0, y>> \o FalszywyShift(TRUE) = <<SC_E0, y, SC_E0, ld>>
      \/ <<SC_E0, y>> \o FalszywyShift(TRUE) = <<SC_E0, y, SC_E0, rd>>
      \/ <<SC_E0, y>> \o FalszywyShift(TRUE) = TrzyKody(y, ld, rd)
  <2>1. CASE L /\ R
    <3>1. FalszywyShift(TRUE) = <<SC_E0, ld>> \o <<SC_E0, rd>>
      BY <1>3, <2>1, Zenon
    <3>2. <<SC_E0, ld>> \o <<SC_E0, rd>> = <<SC_E0, ld, SC_E0, rd>>
      BY ONLY <1>11, SklejKody, Zenon
    <3>3. <<SC_E0, y>> \o <<SC_E0, ld, SC_E0, rd>> = TrzyKody(y, ld, rd)
      <4>1. SC_E0 \in Nat /\ ld \in Nat /\ rd \in Nat /\ y \in Nat
        BY <1>1
      <4>2. QED
        BY ONLY <4>1, PrzedPare, Zenon DEF TrzyKody
    <3>4. QED
      BY <3>1, <3>2, <3>3, Zenon
  <2>2. CASE L /\ ~R
    <3>1. FalszywyShift(TRUE) = <<SC_E0, ld>> \o <<>>
      BY <1>3, <2>2, Zenon
    <3>2. <<SC_E0, ld>> \o <<>> = <<SC_E0, ld>>
      BY ONLY <1>11, SklejPuste, Zenon
    <3>3. <<SC_E0, y>> \o <<SC_E0, ld>> = <<SC_E0, y, SC_E0, ld>>
      BY ONLY <1>11, SklejKody, Zenon
    <3>4. QED
      BY <3>1, <3>2, <3>3, Zenon
  <2>3. CASE ~L /\ R
    <3>1. FalszywyShift(TRUE) = <<>> \o <<SC_E0, rd>>
      BY <1>3, <2>3, Zenon
    <3>2. <<>> \o <<SC_E0, rd>> = <<SC_E0, rd>>
      BY ONLY <1>11, SklejPuste, Zenon
    <3>3. <<SC_E0, y>> \o <<SC_E0, rd>> = <<SC_E0, y, SC_E0, rd>>
      BY ONLY <1>11, SklejKody, Zenon
    <3>4. QED
      BY <3>1, <3>2, <3>3, Zenon
  <2>4. CASE ~L /\ ~R
    <3>1. FalszywyShift(TRUE) = <<>> \o <<>>
      BY <1>3, <2>4, Zenon
    <3>2. <<>> \o <<>> = <<>> /\ <<SC_E0, y>> \o <<>> = <<SC_E0, y>>
      BY ONLY <1>11, SklejPuste, Zenon
    <3>3. QED
      BY <3>1, <3>2, Zenon
  <2>5. QED
    BY <2>1, <2>2, <2>3, <2>4, Zenon
<1>6. PICK q : q = FalszywyShift(FALSE) \o <<SC_E0, x>>
  OBVIOUS
<1>7. q \in Seq(Nat) /\ Ciag(q, FALSE) /\ q[Len(q)] = x
  <2>1. q = <<SC_E0, x>> => q \in Seq(Nat) /\ Ciag(q, FALSE) /\ q[Len(q)] = x
    BY <1>1, CiagJeden
  <2>2. q = <<SC_E0, la, SC_E0, x>> => q \in Seq(Nat) /\ Ciag(q, FALSE) /\ q[Len(q)] = x
    BY <1>1, CiagDwa
  <2>3. q = <<SC_E0, ra, SC_E0, x>> => q \in Seq(Nat) /\ Ciag(q, FALSE) /\ q[Len(q)] = x
    BY <1>1, CiagDwa
  <2>4. q = TrzyKody(la, ra, x) => q \in Seq(Nat) /\ Ciag(q, FALSE) /\ q[Len(q)] = x
    BY <1>1, CiagTrzy
  <2>5. QED
    BY <1>4, <1>6, <2>1, <2>2, <2>3, <2>4
<1>8. PICK r : r = <<SC_E0, y>> \o FalszywyShift(TRUE)
  OBVIOUS
<1>9. r \in Seq(Nat) /\ Ciag(r, FALSE) /\ Obojetny(r[Len(r)])
  <2>1. r = <<SC_E0, y>> => r \in Seq(Nat) /\ Ciag(r, FALSE) /\ r[Len(r)] = y
    BY <1>0, <1>1, CiagJeden
  <2>2. r = <<SC_E0, y, SC_E0, ld>> => r \in Seq(Nat) /\ Ciag(r, FALSE) /\ r[Len(r)] = ld
    BY <1>0, <1>1, CiagDwa
  <2>3. r = <<SC_E0, y, SC_E0, rd>> => r \in Seq(Nat) /\ Ciag(r, FALSE) /\ r[Len(r)] = rd
    BY <1>0, <1>1, CiagDwa
  <2>4. r = TrzyKody(y, ld, rd)
        => r \in Seq(Nat) /\ Ciag(r, FALSE) /\ r[Len(r)] = rd
    <3>1. y \in Nat /\ ld \in Nat /\ rd \in Nat /\ Obojetny(y) /\ Obojetny(ld)
          /\ rd \notin {SC_E0, SC_E1}
      BY <1>0, <1>1
    <3>2. QED
      BY <3>1, CiagTrzy
  <2>5. QED
    BY <1>1, <1>5, <1>8, <2>1, <2>2, <2>3, <2>4
<1>10. QED
  BY <1>6, <1>7, <1>8, <1>9 DEF y

-----------------------------------------------------------------------------
(* A key is pressed or released once the message before is decoded.        *)

(* The four kinds of keys.                                                 *)
LEMMA Klawisz ==
  ASSUME NEW k \in Klawisze
  PROVE  \/ k = PAUSE
         \/ k = ALTGR
         \/ /\ k - 256 \in Kody /\ k - 256 # SC_RALT_DOWN_E0 /\ k \in Int /\ Rozszerzony(k)
            /\ k \notin {LSHIFT, RSHIFT, CAPS, PAUSE, ALTGR}
         \/ k \in Kody /\ ~Rozszerzony(k) /\ k \notin {PAUSE, ALTGR}
<1>1. k \in Kody \/ k - 256 \in Kody \/ k = PAUSE
  BY KlawiszeZalozenia
<1>2. CASE k \in Kody
  BY <1>2 DEF Kody, Rozszerzony, PAUSE, ALTGR, SC_RALT_DOWN_E0
<1>3. CASE k - 256 \in Kody /\ k # ALTGR /\ k # PAUSE
  <2>1. k \in Int /\ k > 256 /\ k < 384
    BY <1>3 DEF Kody
  <2>2. QED
    BY <1>3, <2>1 DEF Rozszerzony, PAUSE, ALTGR, SC_RALT_DOWN_E0, LSHIFT, RSHIFT, CAPS,
                      SC_LSHIFT_DOWN, SC_RSHIFT_DOWN, SC_CAPSLOCK
<1>4. QED
  BY <1>1, <1>2, <1>3

LEMMA RozneKlawisze ==
  /\ LSHIFT # RSHIFT /\ LSHIFT # CAPS /\ RSHIFT # CAPS
  /\ PAUSE # LSHIFT /\ PAUSE # RSHIFT /\ PAUSE # CAPS /\ PAUSE # ALTGR
  /\ ALTGR # LSHIFT /\ ALTGR # RSHIFT /\ ALTGR # CAPS
BY DEF LSHIFT, RSHIFT, CAPS, PAUSE, ALTGR, SC_RALT_DOWN_E0, SC_LSHIFT_DOWN, SC_RSHIFT_DOWN, SC_CAPSLOCK

(* The two messages of AltGr.                                              *)
LEMMA AltGr ==
  /\ \A sc \in {SC_RALT_DOWN_E0, SC_RALT_UP_E0} :
       /\ <<SC_E0, sc>> \in Seq(Nat) /\ Ciag(<<SC_E0, sc>>, FALSE) /\ SekwencjaE0(sc) = <<>>
       /\ <<SC_E0, sc>>[Len(<<SC_E0, sc>>)] = sc
  /\ SC_RALT_DOWN_E0 # SC_RALT_UP_E0
<1>1. ASSUME NEW sc \in {SC_RALT_DOWN_E0, SC_RALT_UP_E0}
      PROVE  /\ sc \in Nat /\ sc \notin {SC_E0, SC_E1} /\ SekwencjaE0(sc) = <<>>
             /\ SC_LSHIFT_UP \in Nat /\ Obojetny(SC_LSHIFT_UP)
  BY KodyObojetne DEF SC_RALT_DOWN_E0, SC_RALT_UP_E0, SC_E0, SC_E1, SekwencjaE0
<1>2. ASSUME NEW sc \in {SC_RALT_DOWN_E0, SC_RALT_UP_E0}
      PROVE  \A q : q = <<SC_E0, sc>> => Ciag(q, FALSE) /\ q \in Seq(Nat) /\ q[Len(q)] = sc
  BY <1>1, <1>2, CiagJeden
<1>3. SC_RALT_DOWN_E0 # SC_RALT_UP_E0
  BY DEF SC_RALT_DOWN_E0, SC_RALT_UP_E0
<1>4. QED
  BY <1>1, <1>2, <1>3, Zenon

(* What a press sends is one of the messages of the invariant.             *)
LEMMA PoNacisnieciu ==
  ASSUME TypyDekodera, Spokoj, NEW k \in Klawisze, Nacisnij(k)
  PROVE  InwDekodera'
<1>1. /\ UNCHANGED <<lewy_shift, prawy_shift, prawy_alt, caps_lock, klawisz_rozszerzony_e0,
                     pozostalo_e1>>
      /\ port' = KodNacisniecia(k) /\ oczekiwane' = Znak(k) /\ zgloszone' = <<>>
      /\ trzymane' = IF k = PAUSE THEN trzymane ELSE trzymane \cup {k}
      /\ wcisniety_caps' = IF k = CAPS THEN ~wcisniety_caps ELSE wcisniety_caps
  BY DEF Nacisnij, modyfikatory
<1>2. /\ ~klawisz_rozszerzony_e0 /\ pozostalo_e1 = 0 /\ ShiftyICaps /\ Alt
  BY DEF Spokoj
<1>3. ASSUME port' \in Seq(Nat), oczekiwane' \in Seq(Nat) PROVE TypyDekodera'
  <2>1. wcisniety_caps' \in BOOLEAN
    BY <1>1 DEF TypyDekodera
  <2>2. QED
    BY <1>1, <1>3, <2>1 DEF TypyDekodera
<1>4. CASE k = PAUSE
  <2>1. /\ trzymane' = trzymane /\ wcisniety_caps' = wcisniety_caps /\ oczekiwane' = <<>>
        /\ port' = <<SC_E1, \h1D, \h45, SC_E1, \h9D, \hC5>>
    BY <1>1, <1>4, RozneKlawisze DEF KodNacisniecia, Znak
  <2>2. port' \in Seq(Nat) /\ Len(port') = 6 /\ Head(port') = SC_E1
    BY <2>1 DEF SC_E1
  <2>3. Pauza'
    BY <1>1, <1>2, <2>1, <2>2 DEF Pauza, ShiftyICaps, Alt
  <2>4. TypyDekodera'
    BY <1>3, <2>1, <2>2
  <2>5. QED
    BY <2>3, <2>4 DEF InwDekodera
<1>5. CASE k = ALTGR
  <2>1. /\ trzymane' = trzymane \cup {ALTGR} /\ wcisniety_caps' = wcisniety_caps
        /\ oczekiwane' = <<>> /\ port' = <<SC_E0, SC_RALT_DOWN_E0>>
    BY <1>1, <1>5, RozneKlawisze DEF KodNacisniecia, Znak
  <2>2. /\ port' \in Seq(Nat) /\ Ciag(port', FALSE) /\ port'[Len(port')] = SC_RALT_DOWN_E0
        /\ SekwencjaE0(SC_RALT_DOWN_E0) = <<>>
    BY <2>1, AltGr
  <2>3. ShiftyICaps'
    <3>1. /\ LSHIFT \in trzymane' <=> LSHIFT \in trzymane
          /\ RSHIFT \in trzymane' <=> RSHIFT \in trzymane
      BY <2>1, RozneKlawisze
    <3>2. QED
      BY <1>1, <1>2, <2>1, <3>1 DEF ShiftyICaps
  <2>4. Ciag(port, klawisz_rozszerzony_e0)'
    BY <1>1, <1>2, <2>2 DEF Ciag, Obojetny, TypyDekodera
  <2>5. Rozszerzone'
    BY <1>1, <1>2, <2>1, <2>2, <2>3, <2>4 DEF Rozszerzone, PoAlt
  <2>6. TypyDekodera'
    BY <1>3, <2>1, <2>2
  <2>7. QED
    BY <2>5, <2>6 DEF InwDekodera
<1>6. CASE /\ k - 256 \in Kody /\ k - 256 # SC_RALT_DOWN_E0 /\ k \in Int /\ Rozszerzony(k)
           /\ k \notin {LSHIFT, RSHIFT, CAPS, PAUSE, ALTGR}
  <2> DEFINE x == k - 256
  <2>1. /\ trzymane' = trzymane \cup {k} /\ wcisniety_caps' = wcisniety_caps
        /\ oczekiwane' = SekwencjaE0(x) /\ port' = FalszywyShift(FALSE) \o <<SC_E0, x>>
    BY <1>1, <1>6 DEF KodNacisniecia, Znak
  <2> HIDE DEF x
  <2>2. x \in Kody /\ x # SC_RALT_DOWN_E0 /\ x \notin {SC_RALT_UP_E0, SC_E0, SC_E1}
    BY <1>6, KodyObojetne DEF x
  <2>3. port' \in Seq(Nat) /\ Ciag(port', FALSE) /\ port'[Len(port')] = x
    BY <2>1, <2>2, CiagZShiftem
  <2>4. ShiftyICaps' /\ (ALTGR \in trzymane' <=> ALTGR \in trzymane)
    BY <1>1, <1>2, <1>6, <2>1 DEF ShiftyICaps
  <2>5. Ciag(port, klawisz_rozszerzony_e0)'
    BY <1>1, <1>2, <2>3 DEF Ciag, Obojetny, TypyDekodera
  <2>6. Rozszerzone'
    BY <1>1, <1>2, <2>1, <2>2, <2>3, <2>4, <2>5 DEF Rozszerzone, PoAlt, Alt
  <2>7. TypyDekodera'
    BY <1>3, <2>1, <2>3, SekwencjaTyp
  <2>8. QED
    BY <2>6, <2>7 DEF InwDekodera
<1>7. CASE k \in Kody /\ ~Rozszerzony(k) /\ k \notin {PAUSE, ALTGR}
  <2>1. trzymane' = trzymane \cup {k} /\ port' = <<k>> /\ k \in Nat
    BY <1>1, <1>7 DEF KodNacisniecia, Kody
  <2>2. oczekiwane' = IF k \in Modyfikatory THEN <<>> ELSE obsluz_zwykly_make_code(k)
    <3>1. CASE k \in Modyfikatory
      BY <1>1, <3>1 DEF Modyfikatory, Znak
    <3>2. CASE k \notin Modyfikatory
      <4>1. k \in Zwykle
        BY <1>7, <3>2 DEF Zwykle
      <4>2. wcisniety_caps = caps_lock
        BY <1>2 DEF ShiftyICaps, TypyDekodera
      <4>3. QED
        BY <1>1, <1>2, <3>2, <4>1, <4>2, ZnakKlawisza DEF ShiftyICaps, Alt, TypyDekodera
    <3>3. QED
      BY <3>1, <3>2
  <2>3. obsluz_zwykly_make_code(k)' = obsluz_zwykly_make_code(k)
    BY <1>1 DEF obsluz_zwykly_make_code, shift, zastosuj_caps_lock
  <2>4. wcisniety_caps' <=> (caps_lock' # (k = CAPS))
    BY <1>1, <1>2 DEF ShiftyICaps, TypyDekodera
  <2>5. Nacisniety(k)'
    BY <1>1, <1>2, <2>1, <2>2, <2>3, <2>4 DEF Nacisniety, ShiftyICaps
  <2>6. Alt'
    BY <1>1, <1>2, <1>7, <2>1 DEF Alt
  <2>7. Zwykly'
    BY <1>1, <1>2, <1>7, <2>5, <2>6 DEF Zwykly
  <2>8. TypyDekodera'
    BY <1>3, <1>7, <2>1, <2>2, KodTyp
  <2>9. QED
    BY <2>7, <2>8 DEF InwDekodera
<1>8. QED
  BY <1>4, <1>5, <1>6, <1>7, Klawisz

(* So is what a release sends.                                             *)
LEMMA PoPuszczeniu ==
  ASSUME TypyDekodera, Spokoj, NEW k \in Klawisze, Pusc(k)
  PROVE  InwDekodera'
<1>1. /\ UNCHANGED <<lewy_shift, prawy_shift, prawy_alt, caps_lock, klawisz_rozszerzony_e0,
                     pozostalo_e1, wcisniety_caps>>
      /\ port' = KodPuszczenia(k) /\ oczekiwane' = <<>> /\ zgloszone' = <<>>
      /\ trzymane' = trzymane \ {k} /\ k \in trzymane
  BY DEF Pusc, modyfikatory
<1>2. /\ ~klawisz_rozszerzony_e0 /\ pozostalo_e1 = 0 /\ ShiftyICaps /\ Alt
  BY DEF Spokoj
<1>3. ASSUME port' \in Seq(Nat) PROVE TypyDekodera'
  BY <1>1, <1>3 DEF TypyDekodera
<1>4. ASSUME k \notin {LSHIFT, RSHIFT} PROVE ShiftyICaps'
  <2>1. /\ LSHIFT \in trzymane' <=> LSHIFT \in trzymane
        /\ RSHIFT \in trzymane' <=> RSHIFT \in trzymane
    BY <1>1, <1>4
  <2>2. QED
    BY <1>1, <1>2, <2>1 DEF ShiftyICaps
<1>5. CASE k = PAUSE
  <2>1. port' = <<>> /\ (ALTGR \in trzymane' <=> ALTGR \in trzymane)
    BY <1>1, <1>5, RozneKlawisze DEF KodPuszczenia
  <2>2. ShiftyICaps'
    BY <1>4, <1>5, RozneKlawisze
  <2>3. Spokoj'
    BY <1>1, <1>2, <2>1, <2>2 DEF Spokoj, Alt
  <2>4. TypyDekodera'
    BY <1>3, <2>1
  <2>5. QED
    BY <2>3, <2>4 DEF InwDekodera
<1>6. CASE k = ALTGR
  <2>1. port' = <<SC_E0, SC_RALT_UP_E0>> /\ ALTGR \notin trzymane'
    BY <1>1, <1>6, RozneKlawisze DEF KodPuszczenia
  <2>2. /\ port' \in Seq(Nat) /\ Ciag(port', FALSE) /\ port'[Len(port')] = SC_RALT_UP_E0
        /\ SekwencjaE0(SC_RALT_UP_E0) = <<>> /\ SC_RALT_UP_E0 # SC_RALT_DOWN_E0
    BY <2>1, AltGr
  <2>3. ShiftyICaps'
    BY <1>4, <1>6, RozneKlawisze
  <2>4. Ciag(port, klawisz_rozszerzony_e0)'
    BY <1>1, <1>2, <2>2 DEF Ciag, Obojetny, TypyDekodera
  <2>5. Rozszerzone'
    BY <1>1, <1>2, <2>1, <2>2, <2>3, <2>4 DEF Rozszerzone, PoAlt
  <2>6. TypyDekodera'
    BY <1>3, <2>2
  <2>7. QED
    BY <2>5, <2>6 DEF InwDekodera
<1>7. CASE /\ k - 256 \in Kody /\ k - 256 # SC_RALT_DOWN_E0 /\ k \in Int /\ Rozszerzony(k)
           /\ k \notin {LSHIFT, RSHIFT, CAPS, PAUSE, ALTGR}
  <2> DEFINE x == k - 256
  <2>1. port' = <<SC_E0, x + SC_RELEASE_BIT>> \o FalszywyShift(TRUE)
    BY <1>1, <1>7 DEF KodPuszczenia
  <2> HIDE DEF x
  <2>2. x \in Kody /\ x # SC_RALT_DOWN_E0
    BY <1>7 DEF x
  <2>3. port' \in Seq(Nat) /\ Ciag(port', FALSE) /\ Obojetny(port'[Len(port')])
    BY <2>1, <2>2, CiagZShiftem
  <2>4. ShiftyICaps' /\ (ALTGR \in trzymane' <=> ALTGR \in trzymane)
    BY <1>1, <1>4, <1>7
  <2>5. Ciag(port, klawisz_rozszerzony_e0)'
    BY <1>1, <1>2, <2>3 DEF Ciag, Obojetny, TypyDekodera
  <2>6. Rozszerzone'
    BY <1>1, <1>2, <2>3, <2>4, <2>5 DEF Rozszerzone, PoAlt, Alt, Obojetny
  <2>7. TypyDekodera'
    BY <1>3, <2>3
  <2>8. QED
    BY <2>6, <2>7 DEF InwDekodera
<1>8. CASE k \in Kody /\ ~Rozszerzony(k) /\ k \notin {PAUSE, ALTGR}
  <2>1. port' = <<k + SC_RELEASE_BIT>> /\ k + SC_RELEASE_BIT \in Nat
    BY <1>1, <1>8 DEF KodPuszczenia, Kody, SC_RELEASE_BIT
  <2>2. Puszczony(k)'
    BY <1>1, <1>2, <2>1 DEF Puszczony, ShiftyICaps
  <2>3. Alt'
    BY <1>1, <1>2, <1>8 DEF Alt
  <2>4. Zwykly'
    BY <1>1, <1>2, <1>8, <2>2, <2>3 DEF Zwykly
  <2>5. TypyDekodera'
    BY <1>3, <2>1
  <2>6. QED
    BY <2>4, <2>5 DEF InwDekodera
<1>9. QED
  BY <1>5, <1>6, <1>7, <1>8, Klawisz

-----------------------------------------------------------------------------
(* The invariant holds in every state, and says both properties once the   *)
(* message is read.                                                        *)

LEMMA DekoderPoczatek == KlawiaturaInit => InwDekodera
<1> SUFFICES ASSUME KlawiaturaInit PROVE InwDekodera
  OBVIOUS
<1>1. TypyDekodera
  <2>1. pozostalo_e1 \in 0 .. E1_BAJTY_DO_POMINIECIA
    BY DEF KlawiaturaInit, E1_BAJTY_DO_POMINIECIA
  <2>2. port \in Seq(Nat) /\ zgloszone \in Seq(Nat) /\ oczekiwane \in Seq(Nat)
    BY DEF KlawiaturaInit
  <2>3. QED
    BY <2>1, <2>2 DEF KlawiaturaInit, TypyDekodera
<1>2. Spokoj
  BY DEF KlawiaturaInit, Spokoj, ShiftyICaps, Alt
<1>3. QED
  BY <1>1, <1>2 DEF InwDekodera

(* No message is begun before the one before it is decoded.                *)
LEMMA MiedzyWiadomosciami ==
  ASSUME InwDekodera, port = <<>>
  PROVE  Spokoj
<1>1. Len(port) = 0
  OBVIOUS
<1>2. ~Pauza
  BY <1>1 DEF Pauza
<1>3. ~Rozszerzone
  BY <1>1 DEF Rozszerzone, Ciag
<1>4. ~Zwykly
  BY DEF Zwykly, Nacisniety, Puszczony
<1>5. QED
  BY <1>2, <1>3, <1>4 DEF InwDekodera

LEMMA DekoderKrok == InwDekodera /\ [KlawiaturaNext]_dekoder => InwDekodera'
<1> SUFFICES ASSUME InwDekodera, [KlawiaturaNext]_dekoder PROVE InwDekodera'
  OBVIOUS
<1>1. TypyDekodera
  BY DEF InwDekodera
<1>2. CASE obsluga_przerwania_klawiatury
  <2>1. port # <<>>
    BY <1>2 DEF obsluga_przerwania_klawiatury
  <2>2. ~Spokoj
    BY <2>1 DEF Spokoj
  <2>3. QED
    BY <1>1, <1>2, <2>2, KrokPauzy, KrokRozszerzony, KrokZwykly DEF InwDekodera
<1>3. ASSUME NEW k \in Klawisze, Nacisnij(k) PROVE InwDekodera'
  <2>1. Spokoj
    BY <1>3, MiedzyWiadomosciami DEF Nacisnij
  <2>2. QED
    BY <1>1, <1>3, <2>1, PoNacisnieciu
<1>4. ASSUME NEW k \in Klawisze, Pusc(k) PROVE InwDekodera'
  <2>1. Spokoj
    BY <1>4, MiedzyWiadomosciami DEF Pusc
  <2>2. QED
    BY <1>1, <1>4, <2>1, PoPuszczeniu
<1>5. CASE UNCHANGED dekoder
  <2>1. UNCHANGED <<lewy_shift, prawy_shift, prawy_alt, caps_lock, klawisz_rozszerzony_e0,
                    pozostalo_e1, port, trzymane, wcisniety_caps, oczekiwane, zgloszone>>
    BY <1>5 DEF dekoder, modyfikatory, fizyczne
  <2>2. TypyDekodera'
    BY <1>1, <2>1 DEF TypyDekodera
  <2>3. CASE Spokoj
    BY <2>1, <2>2, <2>3 DEF InwDekodera, Spokoj, ShiftyICaps, Alt
  <2>4. CASE Pauza
    BY <2>1, <2>2, <2>4 DEF InwDekodera, Pauza, ShiftyICaps, Alt
  <2>5. CASE Rozszerzone
    BY <2>1, <2>2, <2>5 DEF InwDekodera, Rozszerzone, Ciag, Obojetny, ShiftyICaps, PoAlt
  <2>6. CASE Zwykly
    <3>1. ASSUME NEW k \in Kody PROVE obsluz_zwykly_make_code(k)' = obsluz_zwykly_make_code(k)
      BY <2>1 DEF obsluz_zwykly_make_code, shift, zastosuj_caps_lock
    <3>2. PICK k \in Kody : Nacisniety(k) \/ Puszczony(k)
      BY <2>6 DEF Zwykly
    <3>3. Nacisniety(k)' \/ Puszczony(k)'
      BY <2>1, <3>1, <3>2 DEF Nacisniety, Puszczony
    <3>4. Zwykly'
      BY <2>1, <2>6, <3>3 DEF Zwykly, Alt
    <3>5. QED
      BY <2>2, <3>4 DEF InwDekodera
  <2>7. QED
    BY <2>3, <2>4, <2>5, <2>6 DEF InwDekodera
<1>6. QED
  BY <1>2, <1>3, <1>4, <1>5 DEF KlawiaturaNext

(* The invariant of the decoder.                                           *)
LEMMA InwDekoderaZawsze == KlawiaturaSpec => []InwDekodera
<1>1. QED
  BY DekoderPoczatek, DekoderKrok, PTL DEF KlawiaturaSpec

(* Whatever keys are pressed, held and released in whatever order, once    *)
(* the bytes of the last message are read the decoder of klawiatura.cpp    *)
(* has no prefix pending and its modifiers are the keys that are held.     *)
THEOREM DekoderZgodny == KlawiaturaSpec => []DekoderWStepie
<1>1. ASSUME InwDekodera PROVE DekoderWStepie
  <2>1. SUFFICES ASSUME port = <<>>
                 PROVE  /\ ~klawisz_rozszerzony_e0 /\ pozostalo_e1 = 0
                        /\ lewy_shift = (LSHIFT \in trzymane)
                        /\ prawy_shift = (RSHIFT \in trzymane)
                        /\ prawy_alt = (ALTGR \in trzymane)
                        /\ caps_lock = wcisniety_caps
    BY DEF DekoderWStepie
  <2>2. Spokoj /\ TypyDekodera
    BY <1>1, <2>1, MiedzyWiadomosciami DEF InwDekodera
  <2>3. QED
    BY <2>2 DEF Spokoj, ShiftyICaps, Alt, TypyDekodera
<1>2. QED
  BY <1>1, InwDekoderaZawsze, PTL

(* A press reports the bytes that the layout and Unicode give the key with *)
(* the modifiers held, whole and once; a release, a modifier and the Pause *)
(* key report nothing (klawiatura.cpp 246-306 and 318-387).                *)
THEOREM ZnakZgodny == KlawiaturaSpec => []ZnakWedlugUkladu
<1>1. ASSUME InwDekodera PROVE ZnakWedlugUkladu
  BY <1>1, MiedzyWiadomosciami DEF ZnakWedlugUkladu, Spokoj
<1>2. QED
  BY <1>1, InwDekoderaZawsze, PTL

=============================================================================
