------------------------------ MODULE PsfKopia ------------------------------
(***************************************************************************)
(* The copy of a file or of a whole directory (kopiuj_twor_z_pzb): the     *)
(* copy is built aside, node by node, and is published by the entry that   *)
(* is added last; whatever fails gives everything back.                    *)
(***************************************************************************)
EXTENDS Psf
LOCAL INSTANCE SequencesExt

CONSTANT PSF_MAKS_GLEBOKOSC_KOPII

RECURSIVE zwolnij_nieopublikowana_kopie(_, _, _)
RECURSIVE sklonuj_wezel_rekurencyjnie(_, _, _, _)

(* The entries of a directory in the order in which it is read.            *)
Porzadek(s, id) ==
    SelectSeq([i \in 1..(PSF_MAX_BLOKOW_W_WEZLE * WpisowNaBlok) |->
                 <<1 + ((i - 1) \div WpisowNaBlok), 1 + ((i - 1) % WpisowNaBlok)>>],
              LAMBDA m : m \in Zapisane(s, id))

zwolnij_nieopublikowana_kopie(s, id, g) ==
    LET dziecko(t, m) == zwolnij_nieopublikowana_kopie(t, Wpis(t, id, m).id, g + 1)
        s1 == IF JestKatalogiem(s, id) THEN FoldLeft(dziecko, s, Porzadek(s, id)) ELSE s
    IN  IF id \notin Wezly \/ g > PSF_MAKS_GLEBOKOSC_KOPII THEN s
        ELSE IF Wez(s, id).typ = "wolny" THEN s
        ELSE zwolnij_wezel(ZwolnijOd(s1, id, 1), id)

BladZostawiaBloki(s, id, g) == zwolnij_wezel(s, id)
Wycofaj(s, id, g) == zwolnij_nieopublikowana_kopie(s, id, g)

SklonujPlik(s, zrodlo, id, g) ==
    LET ile == podziel_w_gore(Wez(s, zrodlo).rozmiar, PSF_ROZMIAR_BLOKU)
        krok(a, k) ==
            LET n == zaalokuj_wolny_blok_danych(a.s)
            IN  IF a.id = 0 THEN a
                ELSE IF n.id = BARK_BLOKU THEN [id |-> 0, s |-> Wycofaj(a.s, id, g)]
                ELSE [id |-> id,
                      s |-> Zmieniony(UstawWskaznik(n.s, id, k, n.id),
                                      absolutny_blok_danych(n.id),
                                      BlokD(n.s, Wez(n.s, zrodlo).wsk[k]))]
        r == FoldLeft(krok, [id |-> id, s |-> s], Kolejne(1, ile))
    IN  IF r.id = 0 THEN r
        ELSE [id |-> id,
              s |-> oznacz_wezel_jako_brudny(
                      [r.s EXCEPT !.blok[BlokWezla(id)].rozmiar = Wez(s, zrodlo).rozmiar], id)]

SklonujKatalog(s, zrodlo, id, g, przodkowie) ==
    LET krok(a, m) ==
            LET wpis == Wpis(a.s, zrodlo, m)
                d    == sklonuj_wezel_rekurencyjnie(a.s, wpis.id, g + 1, przodkowie)
                r    == dodaj_wpis_do_katalogu(d.s, id, d.id, wpis.nazwa)
            IN  IF a.id = 0 THEN a
                ELSE IF d.id = 0 THEN [id |-> 0, s |-> Wycofaj(d.s, id, g)]
                ELSE IF r.ok THEN [id |-> id, s |-> r.s]
                ELSE [id |-> 0, s |-> Wycofaj(Wycofaj(r.s, d.id, g + 1), id, g)]
    IN  FoldLeft(krok, [id |-> id, s |-> s], Porzadek(s, zrodlo))

sklonuj_wezel_rekurencyjnie(s, zrodlo, g, przodkowie) ==
    LET n   == zaalokuj_wolny_wezel(s, Wez(s, zrodlo).typ)
        zle == [id |-> 0, s |-> s]
    IN  IF g >= PSF_MAKS_GLEBOKOSC_KOPII \/ zrodlo \in przodkowie THEN zle
        ELSE IF Wez(s, zrodlo).typ = "wolny" THEN zle
        ELSE IF Wez(s, zrodlo).typ = "plik" /\ ~WskaznikiPoprawne(s, zrodlo) THEN zle
        ELSE IF n.id = 0 THEN zle
        ELSE IF Wez(s, zrodlo).typ = "plik" THEN SklonujPlik(n.s, zrodlo, n.id, g)
        ELSE SklonujKatalog(n.s, zrodlo, n.id, g, przodkowie \cup {zrodlo})

kopiuj_twor_z_pzb(s, p, folder) ==
    LET zrodlo == rozwiaz_sciezke(s, p)
        cel    == rozwiaz_sciezke(s, folder)
        k      == sklonuj_wezel_rekurencyjnie(s, zrodlo, 0, {})
        r      == dodaj_wpis_do_katalogu(k.s, cel, k.id, Last(p))
    IN  IF zrodlo = 0 \/ ~JestKatalogiem(s, cel) THEN Odmowa(s)
        ELSE IF znajdz_wpis_w_katalogu(s, cel, Last(p)).id # 0 THEN Odmowa(s)
        ELSE IF WSiebie(s, p, folder) THEN Odmowa(s)
        ELSE IF k.id = 0 THEN Odmowa(k.s)
        ELSE IF r.ok THEN r
        ELSE Odmowa(Wycofaj(r.s, k.id, 0))

KopiujTwor == /\ MoznaWolac
              /\ \E p \in Sciezki, f \in Foldery :
                    Wykonaj(kopiuj_twor_z_pzb(fs, p, f), "kopiuj")

NextZKopia == Next \/ KopiujTwor
SpecZKopia == Init /\ [][NextZKopia]_vars
=============================================================================
