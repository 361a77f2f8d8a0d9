-------------------------------- MODULE Psf --------------------------------
(***************************************************************************)
(* The Bursztyn file system BSP2 (psf.cpp): a RAM disk whose changed       *)
(* blocks are written through to an AHCI disk, one after the other, at the *)
(* end of an operation.                                                    *)
(*                                                                         *)
(* Every operation holds the lock with interrupts off, so what it does to  *)
(* the RAM disk is one step; the writes to the disk that follow are steps  *)
(* of their own, because any of them may fail or be the last one before    *)
(* power is lost.  An operation that changes the RAM disk is an operator   *)
(* that takes and returns a record                                         *)
(*   blok    the blocks: 0 the superblock, 1 the bitmap, one block for     *)
(*           each node, then the data blocks,                              *)
(*   brudne  brudne_bloki[0..liczba_brudnych_blokow-1], caly the flag      *)
(*           brudny_caly_system, szukany ostatni_szukany_blok_danych.      *)
(* A block is written whole.  Of the superblock only the signature is kept *)
(* (its geometry never changes), of a data block the directory entries or  *)
(* a stand-in for the bytes of a file.  Rights and times are left out.     *)
(***************************************************************************)
EXTENDS Integers, Sequences, FiniteSets, TLC
LOCAL INSTANCE SequencesExt

CONSTANTS LiczbaWezlow,              \* calkowita_liczba_wezlow
          LiczbaBlokowDanych,        \* calkowita_liczba_blokow_danych
          PSF_MAX_BLOKOW_W_WEZLE, PSF_ROZMIAR_BLOKU,
          WpisowNaBlok,              \* wpisow_katalogowych_na_blok()
          MAKS_BRUDNYCH_BLOKOW,
          Nazwy,
          Dlugosci, Dane,            \* what is written to files
          MaksGlebokosc,             \* bound: length of the paths that are used
          MaksOperacji, MaksStartow, \* bounds: operations, starts
          MaksBledow,                \* bound: disk writes that fail
          KazdaAwaria                \* may power fail during a move, or after
                                     \* a failed write?

ASSUME StalePsf ==
    /\ LiczbaWezlow \in Nat \ {0} /\ LiczbaBlokowDanych \in Nat \ {0}
    /\ PSF_MAX_BLOKOW_W_WEZLE \in Nat \ {0} /\ PSF_ROZMIAR_BLOKU \in Nat \ {0}
    /\ WpisowNaBlok \in Nat \ {0} /\ MAKS_BRUDNYCH_BLOKOW \in Nat \ {0}

VARIABLES fs,          \* the RAM disk and its list of changed blocks
          dysk,        \* the blocks on the AHCI disk
          psf_gotowy, nosnik_ahci_dostepny, zapis_trwaly_dozwolony,
          ostatni_flush_ok,
          faza,        \* "wylaczony", "spoczynek", "zapis"
          pozycja,     \* "zapis": the block of the list that is written next
          operacja,    \* "zapis": the operation that is being written out
          operacje, starty, bledy

vars == <<fs, dysk, psf_gotowy, nosnik_ahci_dostepny, zapis_trwaly_dozwolony,
          ostatni_flush_ok, faza, pozycja, operacja, operacje, starty, bledy>>

Wezly      == 1..LiczbaWezlow
BlokiDanych == 0..(LiczbaBlokowDanych - 1)
Wskazniki  == 1..PSF_MAX_BLOKOW_W_WEZLE
Wpisy      == 1..WpisowNaBlok
BARK_BLOKU == -1
BRAK       == "brak nazwy"
Korzen     == 1

BITMAPA == 1
BlokWezla(id) == 1 + id
absolutny_blok_danych(d) == 2 + LiczbaWezlow + d
OstatniBlok == 1 + LiczbaWezlow + LiczbaBlokowDanych

Wezel(typ) == [typ |-> typ, rozmiar |-> 0,
               wsk |-> [k \in Wskazniki |-> BARK_BLOKU]]
Zera == [wpisy |-> [j \in Wpisy |-> [id |-> 0, nazwa |-> BRAK]], tresc |-> <<>>]

(* What a blank disk holds: everything is zero, a node of zeros is free.   *)
Czysty(sygnatura) ==
    [b \in 0..OstatniBlok |->
       CASE b = 0 -> sygnatura
         [] b = BITMAPA -> {}
         [] b > BITMAPA /\ b < absolutny_blok_danych(0) -> Wezel("wolny")
         [] OTHER -> Zera]

PustyRam == [blok |-> Czysty(FALSE), brudne |-> <<>>, caly |-> FALSE, szukany |-> 0]

Wez(s, id)  == s.blok[BlokWezla(id)]
BlokD(s, d) == s.blok[absolutny_blok_danych(d)]
czy_blok_danych_zajety(s, d) == d \in s.blok[BITMAPA]
Kolejne(a, b) == [i \in 1..(IF b < a THEN 0 ELSE b - a + 1) |-> a + i - 1]
Najmniejszy(S) == CHOOSE x \in S : \A y \in S : x <= y
podziel_w_gore(n, d) == (n + d - 1) \div d

-----------------------------------------------------------------------------
(* The list of changed blocks.                                             *)
wyczysc_liste_brudnych(s) == [s EXCEPT !.brudne = <<>>, !.caly = FALSE]
BladPrzepelnieniaListy(s, b) ==
    IF s.caly \/ b \in Range(s.brudne) \/ Len(s.brudne) >= MAKS_BRUDNYCH_BLOKOW
    THEN s ELSE [s EXCEPT !.brudne = Append(@, b)]

oznacz_blok_jako_brudny(s, b) ==
    IF s.caly \/ b \in Range(s.brudne) THEN s
    ELSE IF Len(s.brudne) >= MAKS_BRUDNYCH_BLOKOW
    THEN [s EXCEPT !.caly = TRUE, !.brudne = <<>>]
    ELSE [s EXCEPT !.brudne = Append(@, b)]

oznacz_wezel_jako_brudny(s, id) == oznacz_blok_jako_brudny(s, BlokWezla(id))

Zmieniony(s, b, v) == oznacz_blok_jako_brudny([s EXCEPT !.blok[b] = v], b)

(* Data blocks: allocation goes on from szukany and wraps once; a block is *)
(* zeroed when it is taken and when it is given back.                      *)
Wolne(s) == BlokiDanych \ s.blok[BITMAPA]

zaalokuj_wolny_blok_danych(s) ==
    LET start == IF s.szukany >= LiczbaBlokowDanych THEN 0 ELSE s.szukany
        dalej == {d \in Wolne(s) : d >= start}
        d     == IF dalej # {} THEN Najmniejszy(dalej) ELSE Najmniejszy(Wolne(s))
        s1    == Zmieniony(s, BITMAPA, s.blok[BITMAPA] \cup {d})
        s2    == Zmieniony(s1, absolutny_blok_danych(d), Zera)
    IN  IF Wolne(s) = {} THEN [id |-> BARK_BLOKU, s |-> s]
        ELSE [id |-> d,
              s |-> [s2 EXCEPT !.szukany = (d + 1) % LiczbaBlokowDanych]]

zwolnij_blok_danych(s, d) ==
    IF d \notin BlokiDanych \/ ~czy_blok_danych_zajety(s, d) THEN s
    ELSE LET s1 == Zmieniony(s, absolutny_blok_danych(d), Zera)
             s2 == Zmieniony(s1, BITMAPA, s1.blok[BITMAPA] \ {d})
         IN  IF d < s2.szukany THEN [s2 EXCEPT !.szukany = d] ELSE s2

(* Nodes.                                                                  *)
zaalokuj_wolny_wezel(s, typ) ==
    LET wolne == {id \in Wezly : Wez(s, id).typ = "wolny"}
        id    == Najmniejszy(wolne)
    IN  IF wolne = {} THEN [id |-> 0, s |-> s]
        ELSE [id |-> id, s |-> Zmieniony(s, BlokWezla(id), Wezel(typ))]

zwolnij_wezel(s, id) ==
    IF id \notin Wezly THEN s
    ELSE IF Wez(s, id).typ = "wolny" THEN s
    ELSE Zmieniony(s, BlokWezla(id), Wezel("wolny"))

UstawWskaznik(s, id, k, d) == [s EXCEPT !.blok[BlokWezla(id)].wsk[k] = d]

-----------------------------------------------------------------------------
(* Directories.  An entry is found at <<k, j>>: entry j of the k-th block. *)
Zapisane(s, kat) ==
    {m \in Wskazniki \X Wpisy :
        /\ Wez(s, kat).wsk[m[1]] # BARK_BLOKU
        /\ BlokD(s, Wez(s, kat).wsk[m[1]]).wpisy[m[2]].id # 0}
Wpis(s, kat, m) == BlokD(s, Wez(s, kat).wsk[m[1]]).wpisy[m[2]]

JestKatalogiem(s, id) == id \in Wezly /\ Wez(s, id).typ = "katalog"

(* 0 when the name is not there.                                           *)
znajdz_wpis_w_katalogu(s, kat, nazwa) ==
    LET m == {m \in Zapisane(s, kat) : Wpis(s, kat, m).nazwa = nazwa}
    IN  IF ~JestKatalogiem(s, kat) THEN [id |-> 0]
        ELSE IF m = {} THEN [id |-> 0]
        ELSE LET pierwszy == CHOOSE x \in m : TRUE
             IN  [id |-> Wpis(s, kat, pierwszy).id,
                  blok |-> Wez(s, kat).wsk[pierwszy[1]], j |-> pierwszy[2]]

katalog_pusty(s, kat) == JestKatalogiem(s, kat) /\ Zapisane(s, kat) = {}

WpisWBloku(s, d, j, id, nazwa) ==
    Zmieniony(s, absolutny_blok_danych(d),
              [BlokD(s, d) EXCEPT !.wpisy[j] = [id |-> id, nazwa |-> nazwa]])

ZmienLicznik(s, kat, o) ==
    oznacz_wezel_jako_brudny(
        [s EXCEPT !.blok[BlokWezla(kat)].rozmiar = IF @ + o < 0 THEN 0 ELSE @ + o], kat)

(* The first block with room for an entry, or the first missing block,     *)
(* which is then allocated.                                                *)
dodaj_wpis_do_katalogu(s, kat, id, nazwa) ==
    LET w == Wez(s, kat)
        wolne(t, d) == {j \in Wpisy : BlokD(t, d).wpisy[j].id = 0}
        dobre == {k \in Wskazniki : w.wsk[k] = BARK_BLOKU \/ wolne(s, w.wsk[k]) # {}}
        k     == Najmniejszy(dobre)
        a     == zaalokuj_wolny_blok_danych(s)
        nowy  == w.wsk[k] = BARK_BLOKU
        s1    == IF nowy
                 THEN oznacz_wezel_jako_brudny(UstawWskaznik(a.s, kat, k, a.id), kat)
                 ELSE s
        d     == IF nowy THEN a.id ELSE w.wsk[k]
        zle   == [ok |-> FALSE, s |-> s]
    IN  IF ~JestKatalogiem(s, kat) \/ id \notin Wezly THEN zle
        ELSE IF znajdz_wpis_w_katalogu(s, kat, nazwa).id # 0 \/ dobre = {} THEN zle
        ELSE IF nowy /\ a.id = BARK_BLOKU THEN zle
        ELSE [ok |-> TRUE,
              s |-> ZmienLicznik(
                      WpisWBloku(s1, d, Najmniejszy(wolne(s1, d)), id, nazwa), kat, 1)]

(* The node a path leads to, or 0.  A path is a sequence of names.         *)
rozwiaz_sciezke(s, p) ==
    LET krok(id, n) == IF id = 0 THEN 0 ELSE znajdz_wpis_w_katalogu(s, id, n).id
    IN  FoldLeft(krok, Korzen, p)

rozwiaz_rodzica(s, p) ==
    LET id == rozwiaz_sciezke(s, Front(p))
    IN  IF JestKatalogiem(s, id) THEN id ELSE 0

-----------------------------------------------------------------------------
(* The operations, as what they do to the RAM disk.  ok: the RAM disk was  *)
(* changed as asked and the changes are now to be written out.             *)
Odmowa(s) == [ok |-> FALSE, s |-> s]

utworz_twor(s, p, typ) ==
    LET rodzic == rozwiaz_rodzica(s, p)
        nowy   == zaalokuj_wolny_wezel(s, typ)
        r      == dodaj_wpis_do_katalogu(nowy.s, rodzic, nowy.id, Last(p))
    IN  IF rozwiaz_sciezke(s, p) # 0 \/ rodzic = 0 \/ nowy.id = 0 THEN Odmowa(s)
        ELSE IF r.ok THEN r
        ELSE Odmowa(zwolnij_wezel(r.s, nowy.id))

(* zapisz_do_pliku in its three parts: the missing blocks are allocated,   *)
(* or all given back; the data is stored; the blocks behind it are freed.  *)
Przydziel(s, id, ile) ==
    LET krok(a, k) ==
            IF ~a.ok \/ Wez(a.s, id).wsk[k] # BARK_BLOKU THEN a
            ELSE LET n == zaalokuj_wolny_blok_danych(a.s)
                 IN  IF n.id = BARK_BLOKU THEN [a EXCEPT !.ok = FALSE]
                     ELSE [a EXCEPT !.s = UstawWskaznik(n.s, id, k, n.id),
                                    !.nowe = Append(@, <<k, n.id>>)]
        r == FoldLeft(krok, [ok |-> TRUE, s |-> s, nowe |-> <<>>], Kolejne(1, ile))
        oddaj(t, n) == zwolnij_blok_danych(UstawWskaznik(t, id, n[1], BARK_BLOKU), n[2])
    IN  IF r.ok THEN [ok |-> TRUE, s |-> r.s]
        ELSE Odmowa(oznacz_wezel_jako_brudny(FoldLeft(oddaj, r.s, r.nowe), id))

Wpisz(s, id, ile, dane) ==
    LET krok(t, k) == Zmieniony(t, absolutny_blok_danych(Wez(t, id).wsk[k]),
                                [Zera EXCEPT !.tresc = <<dane, k>>])
    IN  FoldLeft(krok, s, Kolejne(1, ile))

ZwolnijOd(s, id, od) ==
    LET krok(t, k) ==
            IF Wez(t, id).wsk[k] = BARK_BLOKU THEN t
            ELSE UstawWskaznik(zwolnij_blok_danych(t, Wez(t, id).wsk[k]), id, k, BARK_BLOKU)
    IN  FoldLeft(krok, s, Kolejne(od, PSF_MAX_BLOKOW_W_WEZLE))

WskaznikiPoprawne(s, id) ==
    LET wsk == Wez(s, id).wsk IN
    \A k \in Wskazniki : wsk[k] # BARK_BLOKU =>
        /\ wsk[k] \in BlokiDanych /\ czy_blok_danych_zajety(s, wsk[k])
        /\ \A j \in Wskazniki : j < k => wsk[j] # wsk[k]

zapisz_do_pliku(s, p, dlugosc, dane) ==
    LET id  == rozwiaz_sciezke(s, p)
        ile == podziel_w_gore(dlugosc, PSF_ROZMIAR_BLOKU)
        a   == Przydziel(s, id, ile)
        s1  == ZwolnijOd(Wpisz(a.s, id, ile, dane), id, ile + 1)
    IN  IF id = 0 THEN Odmowa(s)
        ELSE IF Wez(s, id).typ # "plik" \/ ~WskaznikiPoprawne(s, id) THEN Odmowa(s)
        ELSE IF dlugosc > PSF_MAX_BLOKOW_W_WEZLE * PSF_ROZMIAR_BLOKU THEN Odmowa(s)
        ELSE IF ~a.ok THEN a
        ELSE [ok |-> TRUE,
              s |-> oznacz_wezel_jako_brudny(
                      [s1 EXCEPT !.blok[BlokWezla(id)].rozmiar = dlugosc], id)]

(* The entry z of the directory kat is emptied.                            *)
UsunWpis(s, kat, z) == ZmienLicznik(WpisWBloku(s, z.blok, z.j, 0, BRAK), kat, -1)

usun_twor(s, p) ==
    LET rodzic == rozwiaz_rodzica(s, p)
        z      == znajdz_wpis_w_katalogu(s, rodzic, Last(p))
    IN  IF rodzic = 0 THEN Odmowa(s)
        ELSE IF z.id \in {0, Korzen} THEN Odmowa(s)
        ELSE IF Wez(s, z.id).typ = "wolny" THEN Odmowa(s)
        ELSE IF JestKatalogiem(s, z.id) /\ ~katalog_pusty(s, z.id) THEN Odmowa(s)
        ELSE IF \E k \in Wskazniki : /\ Wez(s, z.id).wsk[k] # BARK_BLOKU
                                     /\ ~czy_blok_danych_zajety(s, Wez(s, z.id).wsk[k])
             THEN Odmowa(s)
        ELSE [ok |-> TRUE,
              s |-> zwolnij_wezel(UsunWpis(ZwolnijOd(s, z.id, 1), rodzic, z), z.id)]

zmien_nazwe_tworu(s, p, nazwa) ==
    LET rodzic == rozwiaz_rodzica(s, p)
        z      == znajdz_wpis_w_katalogu(s, rodzic, Last(p))
    IN  IF rodzic = 0 \/ nazwa = Last(p) THEN Odmowa(s)
        ELSE IF znajdz_wpis_w_katalogu(s, rodzic, nazwa).id # 0 \/ z.id = 0 THEN Odmowa(s)
        ELSE [ok |-> TRUE, s |-> WpisWBloku(s, z.blok, z.j, z.id, nazwa)]

BladPrzenosiWSiebie(s, p, folder) == FALSE
WSiebie(s, p, folder) ==
    JestKatalogiem(s, rozwiaz_sciezke(s, p)) /\ IsPrefix(p, folder)

(* The new entry is published first, then the old one is emptied.          *)
przenies_twor(s, p, folder) ==
    LET stary == rozwiaz_rodzica(s, p)
        cel   == rozwiaz_sciezke(s, p)
        nowy  == rozwiaz_sciezke(s, folder)
        z     == znajdz_wpis_w_katalogu(s, stary, Last(p))
        r     == dodaj_wpis_do_katalogu(s, nowy, cel, Last(p))
    IN  IF 0 \in {stary, cel, nowy} \/ stary = nowy THEN Odmowa(s)
        ELSE IF ~JestKatalogiem(s, nowy) \/ WSiebie(s, p, folder) THEN Odmowa(s)
        ELSE IF ~r.ok THEN r
        ELSE [ok |-> TRUE, s |-> UsunWpis(r.s, stary, z)]

-----------------------------------------------------------------------------
(* The checks before a mounted disk is accepted.                           *)
waliduj_katalog(s, id) ==
    LET z == Zapisane(s, id) IN
    /\ \A m \in z :
          /\ Wpis(s, id, m).id \in Wezly \ {id} /\ Wpis(s, id, m).nazwa # BRAK
          /\ Wez(s, Wpis(s, id, m).id).typ # "wolny"
          /\ \A m2 \in z \ {m} : Wpis(s, id, m).nazwa # Wpis(s, id, m2).nazwa
    /\ Wez(s, id).rozmiar = Cardinality(z)

waliduj_metadane(s) ==
    /\ Wez(s, Korzen).typ = "katalog"
    /\ \A id \in Wezly : Wez(s, id).typ # "wolny" =>
          /\ WskaznikiPoprawne(s, id)
          /\ Wez(s, id).typ = "katalog" => waliduj_katalog(s, id)
          /\ Wez(s, id).typ = "plik" =>
                LET ile == podziel_w_gore(Wez(s, id).rozmiar, PSF_ROZMIAR_BLOKU)
                IN  /\ ile <= PSF_MAX_BLOKOW_W_WEZLE
                    /\ \A k \in 1..ile : Wez(s, id).wsk[k] # BARK_BLOKU

-----------------------------------------------------------------------------
(* Starts, operations, writes to the disk, loss of power.                  *)
Sformatowany ==
    [blok |-> [Czysty(TRUE) EXCEPT ![BlokWezla(Korzen)] = Wezel("katalog")],
     brudne |-> <<>>, caly |-> TRUE, szukany |-> 0]
Wczytany == [PustyRam EXCEPT !.blok = dysk]

Init ==
    /\ fs = PustyRam /\ dysk = Czysty(FALSE) /\ faza = "wylaczony"
    /\ psf_gotowy = FALSE /\ nosnik_ahci_dostepny = FALSE
    /\ zapis_trwaly_dozwolony = FALSE /\ ostatni_flush_ok = TRUE
    /\ pozycja = 1 /\ operacja = "" /\ operacje = 0 /\ starty = 0 /\ bledy = 0

(* What bsp_zapisz_zmiany writes, in order: the listed blocks, or all.     *)
DoZapisania(s) == IF s.caly THEN Kolejne(0, OstatniBlok) ELSE s.brudne

(* The beginning of bsp_zapisz_zmiany with the RAM disk s; trwaly: there   *)
(* is a disk and it may be written.                                        *)
ZacznijZapis(s, trwaly, nazwa) ==
    IF ~trwaly
    THEN /\ fs' = wyczysc_liste_brudnych(s) /\ ostatni_flush_ok' = FALSE
         /\ faza' = "spoczynek" /\ UNCHANGED <<pozycja, operacja>>
    ELSE IF DoZapisania(s) = <<>>
    THEN /\ fs' = s /\ ostatni_flush_ok' = TRUE
         /\ faza' = "spoczynek" /\ UNCHANGED <<pozycja, operacja>>
    ELSE /\ fs' = s /\ faza' = "zapis" /\ pozycja' = 1 /\ operacja' = nazwa
         /\ UNCHANGED ostatni_flush_ok

TylkoRam == /\ fs' = Sformatowany /\ zapis_trwaly_dozwolony' = FALSE
            /\ faza' = "spoczynek" /\ UNCHANGED <<pozycja, operacja, ostatni_flush_ok>>

BladBezWalidacji(s) == Wez(s, Korzen).typ = "katalog"
Przyjmuje(s) == waliduj_metadane(s)

(* inicjalizuj_psf: the superblock cannot be read; there is no file system *)
(* yet; the rest cannot be read or is refused; or it is mounted.           *)
inicjalizuj_psf ==
    /\ faza = "wylaczony" /\ starty < MaksStartow /\ starty' = starty + 1
    /\ psf_gotowy' = TRUE
    /\ \/ nosnik_ahci_dostepny' = FALSE /\ TylkoRam
       \/ /\ ~dysk[0]
          /\ nosnik_ahci_dostepny' = TRUE /\ zapis_trwaly_dozwolony' = TRUE
          /\ ZacznijZapis(Sformatowany, TRUE, "format")
       \/ /\ dysk[0] /\ nosnik_ahci_dostepny' = TRUE
          /\ \E odczytany \in BOOLEAN :
                IF odczytany /\ Przyjmuje(Wczytany)
                THEN /\ fs' = Wczytany /\ zapis_trwaly_dozwolony' = TRUE
                     /\ faza' = "spoczynek"
                     /\ UNCHANGED <<pozycja, operacja, ostatni_flush_ok>>
                ELSE TylkoRam
    /\ UNCHANGED <<dysk, operacje, bledy>>

(* The result r of an operation: refused, or to be written out.            *)
Wykonaj(r, nazwa) ==
    /\ IF r.ok THEN ZacznijZapis(r.s, nosnik_ahci_dostepny /\ zapis_trwaly_dozwolony, nazwa)
       ELSE fs' = r.s /\ UNCHANGED <<faza, pozycja, operacja, ostatni_flush_ok>>
    /\ operacje' = operacje + 1
    /\ UNCHANGED <<dysk, psf_gotowy, nosnik_ahci_dostepny, zapis_trwaly_dozwolony,
                   starty, bledy>>

Sciezki == UNION {[1..n -> Nazwy] : n \in 1..MaksGlebokosc}
Foldery == Sciezki \cup {<<>>}
MoznaWolac == faza = "spoczynek" /\ psf_gotowy /\ operacje < MaksOperacji

UtworzTwor == /\ MoznaWolac
              /\ \E p \in Sciezki, typ \in {"plik", "katalog"} :
                    Wykonaj(utworz_twor(fs, p, typ), "utworz")
ZapiszDoPliku == /\ MoznaWolac
                 /\ \E p \in Sciezki, n \in Dlugosci, d \in Dane :
                       Wykonaj(zapisz_do_pliku(fs, p, n, d), "zapisz")
UsunTwor == MoznaWolac /\ \E p \in Sciezki : Wykonaj(usun_twor(fs, p), "usun")
ZmienNazweTworu == /\ MoznaWolac
                   /\ \E p \in Sciezki, n \in Nazwy :
                         Wykonaj(zmien_nazwe_tworu(fs, p, n), "zmien")
PrzeniesTwor == /\ MoznaWolac
                /\ \E p \in Sciezki, f \in Foldery :
                      Wykonaj(przenies_twor(fs, p, f), "przenies")

(* One block of bsp_zapisz_zmiany.  A failed write may have got through.   *)
ZapiszBlok ==
    /\ faza = "zapis"
    /\ LET lista == DoZapisania(fs)
           b     == lista[pozycja]
           zapisany == [dysk EXCEPT ![b] = fs.blok[b]]
       IN  \/ /\ dysk' = zapisany
              /\ IF pozycja < Len(lista)
                 THEN pozycja' = pozycja + 1 /\ UNCHANGED <<fs, faza, operacja, ostatni_flush_ok>>
                 ELSE /\ fs' = wyczysc_liste_brudnych(fs) /\ ostatni_flush_ok' = TRUE
                      /\ faza' = "spoczynek" /\ pozycja' = 1 /\ operacja' = ""
              /\ UNCHANGED bledy
           \/ /\ bledy < MaksBledow /\ bledy' = bledy + 1
              /\ dysk' \in {dysk, zapisany}
              /\ ostatni_flush_ok' = FALSE /\ faza' = "spoczynek" /\ pozycja' = 1
              /\ UNCHANGED <<fs, operacja>>
    /\ UNCHANGED <<psf_gotowy, nosnik_ahci_dostepny, zapis_trwaly_dozwolony, operacje, starty>>

(* Power is lost (or the machine is restarted).  Unless KazdaAwaria, not   *)
(* while a move is being written and not after a write has failed.         *)
Awaria ==
    /\ faza # "wylaczony"
    /\ ~KazdaAwaria /\ zapis_trwaly_dozwolony => ostatni_flush_ok /\ operacja # "przenies"
    /\ fs' = PustyRam /\ faza' = "wylaczony" /\ psf_gotowy' = FALSE
    /\ nosnik_ahci_dostepny' = FALSE /\ zapis_trwaly_dozwolony' = FALSE
    /\ ostatni_flush_ok' = TRUE /\ pozycja' = 1 /\ operacja' = ""
    /\ UNCHANGED <<dysk, operacje, starty, bledy>>

Next == \/ inicjalizuj_psf \/ UtworzTwor \/ ZapiszDoPliku \/ UsunTwor
        \/ ZmienNazweTworu \/ PrzeniesTwor \/ ZapiszBlok \/ Awaria

Spec == Init /\ [][Next]_vars

-----------------------------------------------------------------------------
(* Properties.                                                             *)
Zywe(s) == {id \in Wezly : Wez(s, id).typ # "wolny"}

(* The blocks a node holds.                                                *)
BlokiWezla(s, id) == {Wez(s, id).wsk[k] : k \in Wskazniki} \ {BARK_BLOKU}

(* What every operation and every rollback must keep up, and a start after *)
(* a loss of power must bring back: the RAM disk passes the driver's own   *)
(* validation (waliduj_metadane would accept it), and what that validation *)
(* does not look at also holds: no block belongs to two nodes, a node has  *)
(* at most one entry and the root none.  A loss of power may only leave    *)
(* blocks and nodes behind that nothing refers to.                         *)
StrukturaSpojna ==
    psf_gotowy =>
        /\ waliduj_metadane(fs)
        /\ \A x, y \in Zywe(fs) : x # y => BlokiWezla(fs, x) \cap BlokiWezla(fs, y) = {}
        /\ \A x \in Zywe(fs) :
              LET wpisy == {<<kat, m>> \in {kat \in Zywe(fs) : JestKatalogiem(fs, kat)}
                                             \X (Wskazniki \X Wpisy) :
                              m \in Zapisane(fs, kat) /\ Wpis(fs, kat, m).id = x}
              IN  Cardinality(wpisy) <= (IF x = Korzen THEN 0 ELSE 1)

(* Every change of the RAM disk is on the list of what must be written,    *)
(* through every allocation, rollback, overflow of the list and failed     *)
(* write (oznacz_blok_jako_brudny).                                        *)
ZmianySaOznaczone ==
    psf_gotowy /\ zapis_trwaly_dozwolony /\ ~fs.caly =>
        \A b \in 0..OstatniBlok : dysk[b] # fs.blok[b] => b \in Range(fs.brudne)

(* Once the last bsp_zapisz_zmiany has succeeded the disk holds exactly    *)
(* the RAM disk, and an operation that is refused later, whatever it took  *)
(* and gave back on its way, has not changed that.                         *)
ZapisaneToRam ==
    psf_gotowy /\ zapis_trwaly_dozwolony /\ faza = "spoczynek" /\ ostatni_flush_ok =>
        dysk = fs.blok

(* psf.cpp:28-29: the structure is checked rigorously before it is         *)
(* mounted.  No object then has two entries, so that removing one cannot   *)
(* leave the other one pointing to a free node.                            *)
ZamontowanyMaPojedynczeWpisy ==
    psf_gotowy => \A p, q \in Sciezki :
        rozwiaz_sciezke(fs, p) = rozwiaz_sciezke(fs, q) /\ p # q
            => rozwiaz_sciezke(fs, p) = 0

(* The tree of names and contents: the paths of each length with the nodes *)
(* they lead to.                                                           *)
PUSTY   == [typ |-> "plik", rozmiar |-> 0, bloki |-> <<>>]
KATALOG == [PUSTY EXCEPT !.typ = "katalog"]
Zawartosc(s, id) ==
    IF JestKatalogiem(s, id) THEN KATALOG
    ELSE [typ |-> "plik", rozmiar |-> Wez(s, id).rozmiar,
          bloki |-> [k \in 1..podziel_w_gore(Wez(s, id).rozmiar, PSF_ROZMIAR_BLOKU) |->
                       BlokD(s, Wez(s, id).wsk[k]).tresc]]
SciezkiWezly(s) ==
    LET p[n \in 0..(LiczbaWezlow - 1)] ==
            IF n = 0 THEN {<<<<>>, Korzen>>}
            ELSE UNION {{<<Append(x[1], Wpis(s, x[2], m).nazwa), Wpis(s, x[2], m).id>> :
                           m \in Zapisane(s, x[2])} :
                        x \in {y \in p[n - 1] : JestKatalogiem(s, y[2])}}
    IN  UNION {p[n] : n \in 0..(LiczbaWezlow - 1)}
WidzianeDrzewo ==
    LET x == SciezkiWezly(fs)
    IN  IF ~psf_gotowy THEN <<>>
        ELSE [p \in {y[1] : y \in x} |-> Zawartosc(fs, (CHOOSE y \in x : y[1] = p)[2])]
ZapisywaneTresci ==
    {[typ |-> "plik", rozmiar |-> n,
      bloki |-> [k \in 1..podziel_w_gore(n, PSF_ROZMIAR_BLOKU) |-> <<d, k>>]] :
        n \in Dlugosci, d \in Dane}
=============================================================================
