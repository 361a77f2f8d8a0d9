-------------------------------- MODULE Vmm --------------------------------
(***************************************************************************)
(* Page tables (vmm.cpp) with the two callers that fill them: the loader   *)
(* (loader.cpp) and the heap of a process (BWS 35, syscalls.cpp).  A call  *)
(* holds the lock with interrupts off, the loader keeps them off while it  *)
(* maps, and a tick inside a system call does not switch, so that each is  *)
(* one step.                                                               *)
(*                                                                         *)
(* A table has `Wpisow' entries (512 in the code) and there are `Poziomy'  *)
(* levels (4); virtual pages and frames are numbers.  The tables and the   *)
(* free frames are a record s = [tab, wolne] that operators take and       *)
(* return; a frame that ZaalokujRamke hands out is the lowest free one     *)
(* (Pmm has the search).  Of the flags of an entry PRESENT, WRITE, USER    *)
(* and PS are kept; the TLB is left out.                                   *)
(***************************************************************************)
EXTENDS Integers, Sequences, FiniteSets, TLC
LOCAL INSTANCE SequencesExt
LOCAL INSTANCE FiniteSetsExt

CONSTANTS Wpisow, Poziomy,
          RamkiPmm,                  \* frames the PMM can hand out
          BAZA_STERTY_JADRA, ROZMIAR_STERTY_JADRA,
          Pidy,
          Obrazy,                    \* images: pages of text and of data
          BAZA_STOSU_USER, LICZBA_STRON_STOSU_USER,
          BAZA_STERTY_USER, KONIEC_STERTY_USER,
          MAX_ALOKACJA_STERTY_NA_BWS \* all in pages

Rozmiar(poziom) == Wpisow ^ (poziom - 1)     \* pages under an entry of this level
Strony  == 0 .. Rozmiar(Poziomy + 1) - 1
Indeksy == 0 .. Wpisow - 1
Kolejne(a, n) == [k \in 1 .. n |-> a + k - 1]
ZKolejki(q) == {q[k] : k \in DOMAIN q}
StronyStosu == Kolejne(BAZA_STOSU_USER, LICZBA_STRON_STOSU_USER)

VARIABLES s, cr3,
          biezacy,      \* the running process; 0 is the kernel
          pml4,         \* pml4[p], 0 if there is none
          granica,      \* granica_sterty, in pages
          obraz,        \* the image p was started from
          mapowania,    \* not in the code: pages mapped for p, with frame and right to write
          wydane,       \* not in the code: heap pages whose address p was given
          zgubione      \* not in the code: frames of mappings that failed

procesy == <<pml4, granica, obraz, mapowania, wydane>>
vars    == <<s, cr3, biezacy, procesy, zgubione>>

BRAK == [obecny |-> FALSE, zapis |-> FALSE, user |-> FALSE, ps |-> FALSE, adres |-> 0]
Wpis(adres, zapis, user, ps) ==
  [obecny |-> TRUE, zapis |-> zapis, user |-> user, ps |-> ps, adres |-> adres]
Zerowa == [i \in Indeksy |-> BRAK]

indeks(v, poziom) == (v \div Rozmiar(poziom)) % Wpisow

-----------------------------------------------------------------------------
(* przygotuj_identity_map_jadra: the static tables, st_pml4 down to        *)
(* st_pt_pierwsze_2m, are in the frames 1 .. Poziomy; page 0 is not        *)
(* mapped, and the rest of what lies under the first entry of the top is   *)
(* large pages.  With three levels the top one stands for PML4 and PDP:    *)
(* the four st_pd are filled alike and one of them is kept.                *)
Statyczne == 1 .. Poziomy
przygotuj_identity_map_jadra ==
  [t \in Statyczne |->
     LET poziom == Poziomy + 1 - t IN
     [i \in Indeksy |->
        IF poziom > 1 /\ i = 0 THEN Wpis(t + 1, TRUE, FALSE, FALSE)
        ELSE IF poziom = Poziomy \/ (poziom = 1 /\ i = 0) THEN BRAK
        ELSE Wpis(i * Rozmiar(poziom), TRUE, FALSE, poziom > 1)]]
bazowe_pml4_jadra == 1

(* ZwolnijRamke refuses what the PMM does not have or has free already.    *)
ZwolnijRamke(st, f) ==
  IF f \in RamkiPmm \ st.wolne THEN [st EXCEPT !.wolne = @ \cup {f}] ELSE st

ZwolnijTabele(st, t) ==
  ZwolnijRamke([st EXCEPT !.tab = [x \in DOMAIN @ \ {t} |-> @[x]]], t)

alokuj_tabele_stron(st) ==
  IF st.wolne = {} THEN [ok |-> FALSE, s |-> st, t |-> 0]
  ELSE LET f == Min(st.wolne)
       IN  [ok |-> TRUE, t |-> f,
            s |-> [wolne |-> st.wolne \ {f}, tab |-> st.tab @@ (f :> Zerowa)]]

(* rozbij_strone_1g, rozbij_strone_2m: the large page becomes a table of   *)
(* smaller ones with its rights; only the entry above them gains USER.  In *)
(* the mutated form the small pages gain it too.                           *)
BladRozbijaZUser(stary, poziom, i, user) ==
  Wpis(stary.adres + i * Rozmiar(poziom - 1), stary.zapis, stary.user \/ user, poziom > 2)
CzescDuzej(stary, poziom, i, user) ==
  Wpis(stary.adres + i * Rozmiar(poziom - 1), stary.zapis, stary.user, poziom > 2)

rozbij_strone(st, t, i, poziom, user) ==
  LET stary == st.tab[t][i]
      a == alokuj_tabele_stron(st)
  IN  IF ~ a.ok THEN a
      ELSE [a EXCEPT !.s.tab[a.t] = [k \in Indeksy |-> CzescDuzej(stary, poziom, k, user)],
                     !.s.tab[t][i] = Wpis(a.t, TRUE, user \/ stary.user, FALSE)]

(* pobierz_lub_utworz_pdp, _pd, _pt: the table under entry i of t.         *)
pobierz_lub_utworz(st, t, i, poziom, user) ==
  LET w == st.tab[t][i] IN
  IF ~ w.obecny
    THEN LET a == alokuj_tabele_stron(st)
         IN  IF a.ok THEN [a EXCEPT !.s.tab[t][i] = Wpis(a.t, TRUE, user, FALSE)] ELSE a
  ELSE IF w.ps THEN rozbij_strone(st, t, i, poziom, user)
  ELSE [ok |-> TRUE, t |-> w.adres,
        s |-> [st EXCEPT !.tab[t][i] = Wpis(w.adres, TRUE, w.user \/ user, FALSE)]]

(* mapuj_strone_wewnetrznie.  Tables made on the way stay where they are   *)
(* when a later one cannot be had.                                         *)
mapuj_strone_wewnetrznie(st, korzen, v, f, zapis, user) ==
  LET krok(a, poziom) ==
        IF a.ok THEN pobierz_lub_utworz(a.s, a.t, indeks(v, poziom), poziom, user) ELSE a
      a == FoldLeft(krok, [ok |-> TRUE, s |-> st, t |-> korzen],
                    [k \in 1 .. Poziomy - 1 |-> Poziomy + 1 - k])
  IN  IF user /\ v < 1 THEN [ok |-> FALSE, s |-> st, t |-> 0]
      ELSE IF ~ a.ok THEN a
      ELSE [a EXCEPT !.s.tab[a.t][indeks(v, 1)] = Wpis(f, zapis, user, FALSE)]

(* sprawdz_mapowanie: the rights of a page are those of all entries on the *)
(* way to it.                                                              *)
NIEOBECNA == [obecna |-> FALSE, user |-> FALSE, zapis |-> FALSE, ramka |-> 0]
RECURSIVE Walker(_, _, _, _, _, _)
Walker(st, t, poziom, v, user, zapis) ==
  LET w == st.tab[t][indeks(v, poziom)]
      u == user /\ w.user
      z == zapis /\ w.zapis
  IN  IF ~ w.obecny THEN NIEOBECNA
      ELSE IF poziom = 1 \/ w.ps
        THEN [obecna |-> TRUE, user |-> u, zapis |-> z,
              ramka |-> w.adres + (v % Rozmiar(poziom))]
      ELSE Walker(st, w.adres, poziom - 1, v, u, z)
sprawdz_mapowanie(st, korzen, v) == Walker(st, korzen, Poziomy, v, TRUE, TRUE)

-----------------------------------------------------------------------------
(* Cloning.  A copy that cannot be finished is given back table by table.  *)
Dzieci(st, t) == {i \in Indeksy : st.tab[t][i].obecny /\ ~ st.tab[t][i].ps}

RECURSIVE zwolnij_sklonowane_tabele_bez_lisci(_, _, _)
zwolnij_sklonowane_tabele_bez_lisci(st, t, poziom) ==
  LET dziecko(r, i) == IF poziom > 1 /\ i \in Dzieci(st, t)
                         THEN zwolnij_sklonowane_tabele_bez_lisci(r, st.tab[t][i].adres, poziom - 1)
                         ELSE r
  IN  ZwolnijTabele(FoldLeft(dziecko, st, Kolejne(0, Wpisow)), t)

(* Mutated form: the tables below are forgotten.                           *)
BladTylkoGora(st, t, poziom) == ZwolnijTabele(st, t)
Wycofaj(st, t, poziom) == zwolnij_sklonowane_tabele_bez_lisci(st, t, poziom)

RECURSIVE sklonuj_hierarchie(_, _, _)
sklonuj_hierarchie(st, zrodlo, poziom) ==
  LET a == alokuj_tabele_stron(st)
      wpis(r, i) ==
        IF ~ r.ok THEN r
        ELSE IF poziom = 1 \/ i \notin Dzieci(st, zrodlo)
          THEN [r EXCEPT !.s.tab[a.t][i] = st.tab[zrodlo][i]]
        ELSE LET d == sklonuj_hierarchie(r.s, st.tab[zrodlo][i].adres, poziom - 1)
             IN  IF d.ok
                   THEN [r EXCEPT !.s = [d.s EXCEPT !.tab[a.t][i] =
                                           [st.tab[zrodlo][i] EXCEPT !.adres = d.t]]]
                   ELSE [ok |-> FALSE, s |-> Wycofaj(d.s, a.t, poziom), t |-> 0]
  IN  IF ~ a.ok THEN a ELSE FoldLeft(wpis, a, Kolejne(0, Wpisow))

UtworzPrzestrzenAdresowaProcesu(st) == sklonuj_hierarchie(st, bazowe_pml4_jadra, Poziomy)

(* Teardown.  Only USER pages are the process's own; leaves of the kernel  *)
(* and large pages are shared.                                             *)
Wlasny(w) == w.obecny /\ w.user

RECURSIVE zniszcz_hierarchie_procesu(_, _, _)
zniszcz_hierarchie_procesu(st, t, poziom) ==
  LET lisc(r, i) == IF Wlasny(st.tab[t][i]) THEN ZwolnijRamke(r, st.tab[t][i].adres) ELSE r
      dziecko(r, i) == IF i \in Dzieci(st, t)
                         THEN zniszcz_hierarchie_procesu(r, st.tab[t][i].adres, poziom - 1)
                         ELSE r
      r == IF poziom = 1 THEN FoldLeft(lisc, st, Kolejne(0, Wpisow))
                         ELSE FoldLeft(dziecko, st, Kolejne(0, Wpisow))
  IN  ZwolnijTabele(r, t)

ZniszczPrzestrzenAdresowaProcesu(st, korzen) ==
  IF korzen \in {0, bazowe_pml4_jadra, cr3} THEN st
  ELSE zniszcz_hierarchie_procesu(st, korzen, Poziomy)

-----------------------------------------------------------------------------
(* The tables the boot leaves behind: InicjalizujVMM, then the kernel maps *)
(* its heap (kernel.cpp), page by page.                                    *)
StronySterty == Kolejne(BAZA_STERTY_JADRA, ROZMIAR_STERTY_JADRA)
PoStarcie ==
  LET mapuj(st, v) ==
        LET f == Min(st.wolne)
        IN  mapuj_strone_wewnetrznie([st EXCEPT !.wolne = @ \ {f}], bazowe_pml4_jadra,
                                     v, f, TRUE, FALSE).s
  IN  FoldLeft(mapuj, [tab |-> przygotuj_identity_map_jadra, wolne |-> RamkiPmm], StronySterty)
RamkiSterty ==
  {sprawdz_mapowanie(PoStarcie, bazowe_pml4_jadra, v).ramka : v \in ZKolejki(StronySterty)}

(* The identity map covers what is under the first entry of the PML4.  The *)
(* programs lie in it (at 6 MiB) and hide the frames of these numbers from *)
(* the kernel, which are among the first that its heap took (16 MiB from   *)
(* the end of its image on) and which it uses at the address of the heap.  *)
(* The stack has more than one page, so that the loader notices when the   *)
(* tables for it cannot be had: it finds no frame for the next page.       *)
VmmZalozenia ==
  /\ Poziomy >= 3 /\ Wpisow > Poziomy
  /\ RamkiPmm \subseteq Poziomy + 1 .. Rozmiar(Poziomy) - 1
  /\ \A o \in Obrazy : LET strony == ZKolejki(o.tekst \o o.dane) IN
       /\ o.tekst # <<>> /\ strony \subseteq 1 .. BAZA_STERTY_USER - 1
       /\ strony \cap 1 .. Rozmiar(Poziomy) - 1 \subseteq RamkiSterty
  /\ LICZBA_STRON_STOSU_USER > 1
  /\ KONIEC_STERTY_USER <= BAZA_STOSU_USER

Init ==
  /\ s = PoStarcie
  /\ cr3 = bazowe_pml4_jadra /\ biezacy = 0
  /\ pml4 = [p \in Pidy |-> 0] /\ granica = [p \in Pidy |-> 0]
  /\ obraz = [p \in Pidy |-> <<>>]
  /\ mapowania = [p \in Pidy |-> {}] /\ wydane = [p \in Pidy |-> {}]
  /\ zgubione = {}

(* One page of mapuj_segment_z_pliku or mapuj_stos_uzytkownika: a frame,   *)
(* and ZmapujStrone, whose failure is not seen (it returns void).  The     *)
(* caller stops when there is no frame.                                    *)
MapujStrone(r, v, zapis) ==
  IF ~ r.ok \/ r.s.wolne = {} THEN [r EXCEPT !.ok = FALSE]
  ELSE LET f == Min(r.s.wolne)
           m == mapuj_strone_wewnetrznie([r.s EXCEPT !.wolne = @ \ {f}], r.korzen, v, f, zapis, TRUE)
       IN  [r EXCEPT !.s = m.s,
                     !.mapy = IF m.ok THEN @ \cup {<<v, f, zapis>>} ELSE @,
                     !.zgub = IF m.ok THEN @ ELSE @ \cup {f}]

(* The part of uruchom_program_z_pliku_impl that builds the address space: *)
(* code without the right to write, data, stack; after a failure the space *)
(* is destroyed again.                                                     *)
uruchom_program_z_pliku(p, o) ==
  LET u == UtworzPrzestrzenAdresowaProcesu(s)
      kod(r, v) == MapujStrone(r, v, FALSE)
      rw(r, v) == MapujStrone(r, v, TRUE)
      r == FoldLeft(rw,
             FoldLeft(kod, [ok |-> TRUE, s |-> u.s, korzen |-> u.t, mapy |-> {}, zgub |-> {}],
                      o.tekst),
             o.dane \o StronyStosu)
  IN /\ pml4[p] = 0
     /\ \/ /\ ~ u.ok
           /\ s' = u.s
           /\ UNCHANGED <<procesy, zgubione>>
        \/ /\ u.ok /\ ~ r.ok
           /\ s' = ZniszczPrzestrzenAdresowaProcesu(r.s, u.t)
           /\ zgubione' = zgubione \cup r.zgub
           /\ UNCHANGED procesy
        \/ /\ u.ok /\ r.ok
           /\ s' = r.s /\ pml4' = [pml4 EXCEPT ![p] = u.t]
           /\ granica' = [granica EXCEPT ![p] = BAZA_STERTY_USER]
           /\ obraz' = [obraz EXCEPT ![p] = o.tekst \o o.dane]
           /\ mapowania' = [mapowania EXCEPT ![p] = r.mapy]
           /\ zgubione' = zgubione \cup r.zgub
           /\ UNCHANGED wydane
     /\ UNCHANGED <<cr3, biezacy>>

(* UstawPrzestrzenAdresowa, from the context switch.                       *)
UstawPrzestrzenAdresowa(p) ==
  /\ p # biezacy /\ (p # 0 => pml4[p] # 0)
  /\ biezacy' = p /\ cr3' = IF p = 0 THEN bazowe_pml4_jadra ELSE pml4[p]
  /\ UNCHANGED <<s, procesy, zgubione>>

(* The cleanup of a process that has ended, in the context of another one  *)
(* (posprzataj_zakonczone_procesy; how a process ends is in Jadro).        *)
ZwolnijProces(p) ==
  /\ pml4[p] # 0 /\ p # biezacy
  /\ s' = ZniszczPrzestrzenAdresowaProcesu(s, pml4[p])
  /\ pml4' = [pml4 EXCEPT ![p] = 0] /\ granica' = [granica EXCEPT ![p] = 0]
  /\ obraz' = [obraz EXCEPT ![p] = <<>>]
  /\ mapowania' = [mapowania EXCEPT ![p] = {}] /\ wydane' = [wydane EXCEPT ![p] = {}]
  /\ UNCHANGED <<cr3, biezacy, zgubione>>

(* bws_vmm_sprawdz_zakres_uzytkownika, for a page and writing.             *)
ZakresUzytkownika(st, v) ==
  LET w == sprawdz_mapowanie(st, cr3, v) IN w.obecna /\ w.user /\ w.zapis

(* One page of bws_alokuj_sterte.  A mapping that failed counts as well:   *)
(* its page is passed over, and its frame is not given back.               *)
StronaSterty(r, v) ==
  IF r.stop \/ ZakresUzytkownika(r.s, v) \/ r.s.wolne = {} THEN [r EXCEPT !.stop = TRUE]
  ELSE LET f == Min(r.s.wolne)
           m == mapuj_strone_wewnetrznie([r.s EXCEPT !.wolne = @ \ {f}], cr3, v, f, TRUE, TRUE)
       IN  [r EXCEPT !.s = m.s, !.ile = @ + 1,
                     !.stop = ~ ZakresUzytkownika(m.s, v),
                     !.mapy = IF m.ok THEN @ \cup {<<v, f, TRUE>>} ELSE @,
                     !.zgub = IF m.ok THEN @ ELSE @ \cup {f}]

(* BWS 35 for n pages: true if all were counted.  The boundary moves       *)
(* behind what was counted in any case.                                    *)
bws_alokuj_sterte(n) ==
  LET p == biezacy
      r == FoldLeft(StronaSterty,
             [s |-> s, ile |-> 0, stop |-> FALSE, mapy |-> {}, zgub |-> {}],
             Kolejne(granica[p], n))
  IN /\ p # 0 /\ n <= MAX_ALOKACJA_STERTY_NA_BWS
     /\ granica[p] + n <= KONIEC_STERTY_USER
     /\ s' = r.s
     /\ granica' = [granica EXCEPT ![p] = @ + r.ile]
     /\ mapowania' = [mapowania EXCEPT ![p] = @ \cup r.mapy]
     /\ wydane' = [wydane EXCEPT ![p] =
                     IF r.ile = n THEN @ \cup ZKolejki(Kolejne(granica[p], n)) ELSE @]
     /\ zgubione' = zgubione \cup r.zgub
     /\ UNCHANGED <<cr3, biezacy, pml4, obraz>>

Next ==
  \/ \E p \in Pidy : ZwolnijProces(p) \/ \E o \in Obrazy : uruchom_program_z_pliku(p, o)
  \/ \E p \in Pidy \cup {0} : UstawPrzestrzenAdresowa(p)
  \/ \E n \in 1 .. MAX_ALOKACJA_STERTY_NA_BWS : bws_alokuj_sterte(n)

Spec == Init /\ [][Next]_vars

-----------------------------------------------------------------------------
(* Properties.                                                             *)

(* The tables under t, each with the path that leads to it.                *)
RECURSIVE Tabele(_, _, _)
Tabele(t, poziom, droga) ==
  {<<t, droga>>} \cup
  (IF poziom = 1 THEN {}
   ELSE UNION {Tabele(s.tab[t][i].adres, poziom - 1, Append(droga, i)) : i \in Dzieci(s, t)})
Przestrzenie == {bazowe_pml4_jadra} \cup ({pml4[p] : p \in Pidy} \ {0})
WszystkieTabele == UNION {Tabele(k, Poziomy, <<k>>) : k \in Przestrzenie}

(* Every frame of the PMM is free, or a table at one place of one address  *)
(* space, or a page of one process or of the kernel's heap, or lost to a   *)
(* mapping that failed, and only one of these: cloning, mapping and        *)
(* teardown give back what they took wherever they fail, and never what    *)
(* another space uses (vmm.cpp 1035-1267, loader.cpp 920-940).             *)
RamkiMajaJednegoWlasciciela ==
  LET tabele == {x[1] : x \in WszystkieTabele}
      strony == {<<p, m>> : p \in Pidy, m \in UNION {mapowania[q] : q \in Pidy}}
      wlasne == {x \in strony : x[2] \in mapowania[x[1]]}
      ramki  == {x[2][2] : x \in wlasne}
      zbiory == {s.wolne, tabele \ Statyczne, ramki, RamkiSterty, zgubione}
  IN /\ Cardinality(tabele) = Cardinality(WszystkieTabele)
     /\ Cardinality(ramki) = Cardinality(wlasne)
     /\ UNION zbiory = RamkiPmm
     /\ \A x, y \in zbiory : x # y => x \cap y = {}
     /\ DOMAIN s.tab = tabele

(* What the walker finds at a page of an address space is what was mapped  *)
(* there for its process, with these rights, and the kernel's own page     *)
(* everywhere else: USER entries on the way to a page, the splitting of a  *)
(* large page and the work in other spaces change nothing, and a process   *)
(* that was started has all its pages (vmm.cpp 524-884, loader.cpp         *)
(* 540-620).  So the kernel finds every table and every frame it hands out *)
(* at its physical address in every space (vmm.cpp 12-13).                 *)
PrzestrzenZgodna ==
  \A p \in {q \in Pidy : pml4[q] # 0} :
    /\ ZKolejki(obraz[p] \o StronyStosu) \subseteq {m[1] : m \in mapowania[p]}
    /\ \A v \in Strony :
         LET w == sprawdz_mapowanie(s, pml4[p], v)
             m == {x \in mapowania[p] : x[1] = v}
         IN  IF m = {}
               THEN w = sprawdz_mapowanie(s, bazowe_pml4_jadra, v) /\ ~ w.user
               ELSE w.user /\ <<v, w.ramka, w.zapis>> \in m

(* The pages whose address BWS 35 has returned can be used: syscalls.cpp   *)
(* 2493 says that the address of a failed mapping is not published.        *)
PrzydzielonaJestZmapowana ==
  \A p \in Pidy : \A v \in wydane[p] :
    LET w == sprawdz_mapowanie(s, pml4[p], v) IN w.obecna /\ w.user /\ w.zapis
=============================================================================
