------------------------------- MODULE Sterta -------------------------------
(***************************************************************************)
(* The kernel heap of heap.cpp: a first-fit allocator over a doubly linked *)
(* list of blocks in address order, each a header (BlokSterty) and its     *)
(* data. Every operation holds blokada_sterty with interrupts off, so it   *)
(* is atomic.                                                              *)
(*                                                                         *)
(* Addresses and sizes are in bytes. blok maps the address of a header     *)
(* whose magic is MAGIC_STERTY to its fields. The checks of the address    *)
(* arithmetic against UINTPTR_MAX are left out, except the one that a      *)
(* caller can reach: a size too large to be rounded up. pierwszy_blok is   *)
(* poczatek_sterty. uzywane and wynik_kmalloc are not in the code: the     *)
(* size that the owner of each pointer asked for, and the last call of     *)
(* kmalloc.                                                                *)
(***************************************************************************)
EXTENDS Integers, Functions

CONSTANTS WYROWNANIE,               \* 16
          NAGLOWEK,                 \* sizeof(BlokSterty), 48
          MINIMALNY_BLOK_UZYTKOWY,  \* 16
          UINT64_MAX,
          Obszary,                  \* the areas the boot may give: adres, rozmiar
          Rozmiary,                 \* the sizes callers ask for
          Wskazniki                 \* the pointers callers free

(* What is assumed of the constants; an area that would wrap around is     *)
(* refused by the code.                                                    *)
StertaZalozenia ==
  /\ WYROWNANIE \in Nat /\ WYROWNANIE > 0
  /\ NAGLOWEK \in Nat /\ NAGLOWEK > 0 /\ NAGLOWEK % WYROWNANIE = 0
  /\ MINIMALNY_BLOK_UZYTKOWY \in Nat /\ MINIMALNY_BLOK_UZYTKOWY > 0
  /\ MINIMALNY_BLOK_UZYTKOWY % WYROWNANIE = 0
  /\ UINT64_MAX \in Nat
  /\ \A o \in Obszary : o.adres \in Nat /\ o.rozmiar \in Nat /\ o.adres + o.rozmiar <= UINT64_MAX
  /\ Rozmiary \subseteq 0 .. UINT64_MAX
  /\ Wskazniki \subseteq Nat

VARIABLES poczatek_sterty, koniec_sterty, blok, uzywane, wynik_kmalloc

zakres == <<poczatek_sterty, koniec_sterty>>
sterta == <<zakres, blok, uzywane, wynik_kmalloc>>

NULLPTR == 0
BEZ_WYNIKU == [rozmiar |-> 0, adres |-> NULLPTR]  \* the last call was not kmalloc
Naglowki == DOMAIN blok

(* A function with one value more, or anew.                                *)
Dopisane(f, x, y) == [z \in DOMAIN f \cup {x} |-> IF z = x THEN y ELSE f[z]]

WyrownanyWGore(x) == ((x + WYROWNANIE - 1) \div WYROWNANIE) * WYROWNANIE
WyrownanyWDol(x) == (x \div WYROWNANIE) * WYROWNANIE
Wyrownany(x) == x % WYROWNANIE = 0

-----------------------------------------------------------------------------
(* The validation of the list, which guards every operation.               *)

sterta_ma_poprawny_zakres ==
  /\ poczatek_sterty # NULLPTR /\ koniec_sterty > poczatek_sterty
  /\ Wyrownany(poczatek_sterty) /\ Wyrownany(koniec_sterty)

adres_naglowka_w_stercie(b) ==
  /\ Wyrownany(b)
  /\ poczatek_sterty <= b /\ b + NAGLOWEK <= koniec_sterty

(* The end of a block, as pobierz_koniec_bloku computes it, and the checks *)
(* it makes.                                                               *)
KoniecBloku(H, b) == b + NAGLOWEK + H[b].rozmiar

BlokPoprawny(H, b) ==
  /\ adres_naglowka_w_stercie(b) /\ b \in DOMAIN H
  /\ H[b].rozmiar >= MINIMALNY_BLOK_UZYTKOWY /\ Wyrownany(H[b].rozmiar)
  /\ KoniecBloku(H, b) <= koniec_sterty

(* The links of a block: the next header begins where its data end, and    *)
(* points back; the last block ends with the heap.                         *)
OgniwoPoprawne(H, b) ==
  IF H[b].nastepny = NULLPTR THEN KoniecBloku(H, b) = koniec_sterty
  ELSE /\ H[b].nastepny = KoniecBloku(H, b)
       /\ adres_naglowka_w_stercie(H[b].nastepny) /\ H[b].nastepny \in DOMAIN H
       /\ H[H[b].nastepny].poprzedni = b

(* The block lista_sterty_poprawna looks at after i steps, NULLPTR behind  *)
(* the last one.                                                           *)
Obejscie ==
  LET b[i \in Nat] == IF i = 0 THEN poczatek_sterty
                      ELSE IF b[i - 1] \in Naglowki THEN blok[b[i - 1]].nastepny ELSE NULLPTR
  IN b

maks_blokow ==
  ((koniec_sterty - poczatek_sterty) \div (NAGLOWEK + MINIMALNY_BLOK_UZYTKOWY)) + 1

(* The walk ends after no more than maks_blokow blocks, and every one of   *)
(* them passes the checks.                                                 *)
lista_sterty_poprawna ==
  /\ sterta_ma_poprawny_zakres
  /\ \E n \in 1 .. maks_blokow :
       /\ Obejscie[n] = NULLPTR
       /\ \A i \in 0 .. n - 1 :
            LET b == Obejscie[i]
            IN /\ BlokPoprawny(blok, b)
               /\ blok[b].poprzedni = (IF i = 0 THEN NULLPTR ELSE Obejscie[i - 1])
               /\ OgniwoPoprawne(blok, b)

-----------------------------------------------------------------------------
StertaInit ==
  /\ poczatek_sterty = NULLPTR /\ koniec_sterty = 0
  /\ blok = [b \in {} |-> NULLPTR]
  /\ uzywane = [w \in {} |-> 0]
  /\ wynik_kmalloc = BEZ_WYNIKU

(* Called once, at boot: one free block from the first aligned address to  *)
(* the last one, if it holds a header and the smallest block.              *)
inicjalizuj_sterte_jadra(o) ==
  LET poczatek == WyrownanyWGore(o.adres)
      koniec == WyrownanyWDol(o.adres + o.rozmiar)
  IN /\ poczatek_sterty = NULLPTR
     /\ IF \/ o.adres = NULLPTR \/ o.rozmiar = 0
           \/ koniec - poczatek < NAGLOWEK + MINIMALNY_BLOK_UZYTKOWY
        THEN UNCHANGED <<zakres, blok>>
        ELSE /\ poczatek_sterty' = poczatek
             /\ koniec_sterty' = koniec
             /\ blok' = [b \in {poczatek} |->
                           [rozmiar |-> koniec - poczatek - NAGLOWEK, czy_wolny |-> TRUE,
                            nastepny |-> NULLPTR, poprzedni |-> NULLPTR]]
     /\ wynik_kmalloc' = BEZ_WYNIKU
     /\ UNCHANGED uzywane

-----------------------------------------------------------------------------
(* kmalloc.                                                                *)

(* Mutated form: the size is not checked.                                  *)
BladBezKontroliRozmiaru(r) == TRUE

(* wyrownaj_rozmiar fails when its sum would wrap around.                  *)
DaSieWyrownac(r) == r <= UINT64_MAX - (WYROWNANIE - 1)

(* The size of the data after rounding, at least the smallest block.       *)
wyrownaj_rozmiar(r) ==
  LET x == WyrownanyWDol((r + WYROWNANIE - 1) % (UINT64_MAX + 1))
  IN IF x < MINIMALNY_BLOK_UZYTKOWY THEN MINIMALNY_BLOK_UZYTKOWY ELSE x

(* Mutated form: a block of the exact size is passed over.                 *)
BladTylkoWieksze(n) == { b \in Naglowki : blok[b].czy_wolny /\ blok[b].rozmiar > n }

Pasujace(n) == { b \in Naglowki : blok[b].czy_wolny /\ blok[b].rozmiar >= n }

(* The block b is cut after n bytes of data; the rest becomes a free block.*)
Podzielony(H, b, n) ==
  LET nowy == b + NAGLOWEK + n
      nastepny == H[b].nastepny
      reszta == [rozmiar |-> H[b].rozmiar - n - NAGLOWEK, czy_wolny |-> TRUE,
                 nastepny |-> nastepny, poprzedni |-> b]
  IN [x \in DOMAIN H \cup {nowy} |->
        CASE x = nowy -> reszta
          [] x = b -> [H[b] EXCEPT !.rozmiar = n, !.nastepny = nowy]
          [] x = nastepny -> [H[x] EXCEPT !.poprzedni = nowy]
          [] OTHER -> H[x]]

(* The rest holds a header and the smallest block.                         *)
WartoDzielic(b, n) == blok[b].rozmiar - n >= NAGLOWEK + MINIMALNY_BLOK_UZYTKOWY

PoPodziale(b, n) == IF WartoDzielic(b, n) THEN Podzielony(blok, b, n) ELSE blok

kmalloc(r) ==
  LET n == wyrownaj_rozmiar(r)
      Odmowa == r = 0 \/ ~ lista_sterty_poprawna \/ ~ DaSieWyrownac(r) \/ Pasujace(n) = {}
  IN /\ IF Odmowa
        THEN /\ wynik_kmalloc' = [rozmiar |-> r, adres |-> NULLPTR]
             /\ UNCHANGED <<blok, uzywane>>
        ELSE \E b \in Pasujace(n) :
               /\ \A c \in Pasujace(n) : b <= c
               /\ blok' = [PoPodziale(b, n) EXCEPT ![b].czy_wolny = FALSE]
               /\ uzywane' = Dopisane(uzywane, b + NAGLOWEK, r)
               /\ wynik_kmalloc' = [rozmiar |-> r, adres |-> b + NAGLOWEK]
     /\ UNCHANGED zakres

(* operator new: a size of zero still gets a pointer of its own.           *)
operator_new(r) == kmalloc(IF r = 0 THEN 1 ELSE r)

-----------------------------------------------------------------------------
(* kfree.                                                                  *)

(* The next block is absorbed, its header becomes data.                    *)
Wchloniety(H, b) ==
  LET n == H[b].nastepny
      po == H[n].nastepny
  IN [x \in DOMAIN H \ {n} |->
        CASE x = b -> [H[b] EXCEPT !.rozmiar = @ + NAGLOWEK + H[n].rozmiar, !.nastepny = po]
          [] x = po -> [H[x] EXCEPT !.poprzedni = b]
          [] OTHER -> H[x]]

polacz_z_nastepnym(H, b) ==
  LET n == H[b].nastepny
  IN IF /\ H[b].czy_wolny /\ n # NULLPTR
        /\ n \in DOMAIN H /\ H[n].czy_wolny /\ H[n].poprzedni = b
        /\ KoniecBloku(H, b) = n
     THEN Wchloniety(H, b) ELSE H

(* Mutated form: only the block on the right is absorbed.                  *)
BladTylkoPrawy(b) == polacz_z_nastepnym([blok EXCEPT ![b].czy_wolny = TRUE], b)

(* The block is freed, absorbs the one on its right, and is absorbed by    *)
(* the one on its left.                                                    *)
Zwolniony(b) ==
  LET H == polacz_z_nastepnym([blok EXCEPT ![b].czy_wolny = TRUE], b)
      p == H[b].poprzedni
  IN IF p # NULLPTR /\ p \in DOMAIN H THEN polacz_z_nastepnym(H, p) ELSE H

(* The pointer is the beginning of the data of a busy block, which         *)
(* znajdz_blok_po_wskazniku looks for on the list.                         *)
MoznaZwolnic(w) == w - NAGLOWEK \in Naglowki /\ ~ blok[w - NAGLOWEK].czy_wolny

kfree(w) ==
  /\ IF w # NULLPTR /\ lista_sterty_poprawna /\ MoznaZwolnic(w)
     THEN blok' = Zwolniony(w - NAGLOWEK)
     ELSE UNCHANGED blok
  /\ uzywane' = Restrict(uzywane, DOMAIN uzywane \ {w})
  /\ wynik_kmalloc' = BEZ_WYNIKU
  /\ UNCHANGED zakres

(* kfree is called with any pointer: one in use, one freed before, one     *)
(* into the middle of a block, one outside the heap.                       *)
StertaNext ==
  \/ \E o \in Obszary : inicjalizuj_sterte_jadra(o)
  \/ \E r \in Rozmiary : kmalloc(r) \/ operator_new(r)
  \/ \E w \in Wskazniki : kfree(w)

StertaSpec == StertaInit /\ [][StertaNext]_sterta

-----------------------------------------------------------------------------
(* Properties.                                                             *)

(* The list stays sound whatever is allocated and freed in whatever order: *)
(* every header passes the checks, the links agree in both directions, no  *)
(* header lies inside another block, so the blocks cover the heap without  *)
(* holes (heap.h 46-54); and two free blocks never lie side by side, so    *)
(* free memory does not stay in pieces (heap.cpp 791-814).  The validator  *)
(* (heap.cpp 245-332), its limit on the number of blocks included, accepts *)
(* every such list: otherwise all later calls would refuse to work.        *)
ListaSpojna ==
  /\ \A b \in Naglowki : /\ BlokPoprawny(blok, b)
                         /\ OgniwoPoprawne(blok, b)
                         /\ IF blok[b].poprzedni = NULLPTR THEN b = poczatek_sterty
                            ELSE /\ blok[b].poprzedni \in Naglowki
                                 /\ blok[blok[b].poprzedni].nastepny = b
                                 /\ ~ (blok[b].czy_wolny /\ blok[blok[b].poprzedni].czy_wolny)
  /\ \A b, c \in Naglowki : b < c => KoniecBloku(blok, b) <= c
  /\ poczatek_sterty # NULLPTR => poczatek_sterty \in Naglowki /\ lista_sterty_poprawna

(* Every pointer in use is the aligned beginning of a busy block that      *)
(* holds what was asked for, and every busy block has an owner: no two     *)
(* allocations share memory and none is lost, though any pointer may be    *)
(* passed to kfree (heap.cpp 776-789).                                     *)
KazdyBlokMaWlasciciela ==
  /\ \A w \in DOMAIN uzywane :
       /\ Wyrownany(w) /\ w - NAGLOWEK \in Naglowki
       /\ ~ blok[w - NAGLOWEK].czy_wolny
       /\ uzywane[w] <= blok[w - NAGLOWEK].rozmiar
  /\ \A b \in Naglowki : ~ blok[b].czy_wolny => b + NAGLOWEK \in DOMAIN uzywane

(* The bytes of the busy blocks, headers included.                         *)
Zajete == UNION { b .. KoniecBloku(blok, b) - 1 : b \in { c \in Naglowki : ~ blok[c].czy_wolny } }

(* The bytes of data a request needs.                                      *)
Potrzebne(r) ==
  IF WyrownanyWGore(r) < MINIMALNY_BLOK_UZYTKOWY THEN MINIMALNY_BLOK_UZYTKOWY
  ELSE WyrownanyWGore(r)

(* kmalloc fails only if the heap has no free range for the header and the *)
(* data, whatever blocks that range was once divided into.                 *)
OdmowaTylkoBezMiejsca ==
  (wynik_kmalloc.rozmiar > 0 /\ wynik_kmalloc.adres = NULLPTR /\ poczatek_sterty # NULLPTR) =>
    ~ \E a \in poczatek_sterty .. koniec_sterty :
        /\ Wyrownany(a) /\ a + NAGLOWEK + Potrzebne(wynik_kmalloc.rozmiar) <= koniec_sterty
        /\ (a .. a + NAGLOWEK + Potrzebne(wynik_kmalloc.rozmiar) - 1) \cap Zajete = {}
=============================================================================
