--------------------------------- MODULE Pmm ---------------------------------
(***************************************************************************)
(* The physical memory manager of pmm.cpp: two bitmaps over frames of      *)
(* ROZMIAR_STRONY bytes, filled once from the Multiboot2 memory map, a     *)
(* next-fit allocator of single frames and a first-fit allocator of runs.  *)
(* Every operation holds blokada_pmm with interrupts off, so it is atomic. *)
(*                                                                         *)
(* The walk over the Multiboot2 tags is abstracted to the entries it finds *)
(* and to whether the structure is well formed. OdblokujRamke and          *)
(* ZabezpieczRamke have no caller and are left out. wydane, wynik and opis *)
(* are not in the code: the blocks the rest of the kernel holds, the size  *)
(* and the answer of the last allocation, and the map of the boot loader.  *)
(***************************************************************************)
EXTENDS Integers, FiniteSetsExt

CONSTANTS ROZMIAR_STRONY,          \* bytes in a frame
          MAX_RAMEK,               \* frames below MAKS_ADRES_FIZYCZNY_PMM
          MAX_RAMEK_ALOKOWALNYCH,  \* frames the allocator may hand out
          NISKIE_RAMKI,            \* frames below GRANICA_NISKIEJ_PAMIECI
          Mapy,                    \* memory maps: sets of ranges MEMORY_AVAILABLE
          Rezerwacje,              \* sets of ranges: kernel, tags, modules, MMIO
          MAKS_CIAG                \* bound: length of a run, unbounded in the code

Ramki == 0 .. MAX_RAMEK - 1
MAKS_ADRES == MAX_RAMEK * ROZMIAR_STRONY

ASSUME PmmZalozenia ==
  /\ ROZMIAR_STRONY \in Nat /\ ROZMIAR_STRONY > 0
  /\ MAX_RAMEK \in Nat /\ MAX_RAMEK > 0 /\ MAX_RAMEK_ALOKOWALNYCH \in Nat
  /\ MAX_RAMEK_ALOKOWALNYCH <= MAX_RAMEK
  /\ NISKIE_RAMKI \in Nat /\ NISKIE_RAMKI > 0 /\ NISKIE_RAMKI <= MAX_RAMEK
  /\ MAKS_CIAG \in Nat /\ MAKS_CIAG > 0
  /\ \A z \in UNION (Mapy \cup Rezerwacje) : z.poczatek \in Nat /\ z.dlugosc \in Nat

VARIABLES mapa_dostepnosci, mapa_bitowa, najwyzsza_znaleziona_ramka,
          ostatnia_alokacja, pmm_zainicjalizowany,
          wydane, wynik, opis

vars == <<mapa_dostepnosci, mapa_bitowa, najwyzsza_znaleziona_ramka,
          ostatnia_alokacja, pmm_zainicjalizowany, wydane, wynik, opis>>
mapy == <<mapa_dostepnosci, mapa_bitowa>>
stale == <<mapa_dostepnosci, najwyzsza_znaleziona_ramka, pmm_zainicjalizowany, opis>>

NULL == 0
NIC == <<0, NULL>>   \* wynik, when the last call was not an allocation

Najmniejsza(x, S) == x \in S /\ \A y \in S : x <= y
Najwieksza(x, S) == x \in S /\ \A y \in S : y <= x

(* The frames of the run of n frames that begins at s.                     *)
Ciag(s, n) == s .. s + n - 1

Trzymane == UNION { Ciag(b[1], b[2]) : b \in wydane }

-----------------------------------------------------------------------------
(* The memory map.                                                         *)

WDol(a) == a \div ROZMIAR_STRONY
WGore(a) == (a + ROZMIAR_STRONY - 1) \div ROZMIAR_STRONY

(* The end of a range, cut at MAKS_ADRES_FIZYCZNY_PMM.                     *)
Koniec(z) == IF z.dlugosc > MAKS_ADRES - z.poczatek THEN MAKS_ADRES
             ELSE z.poczatek + z.dlugosc

(* Mutated form: a frame that is partly RAM counts.                        *)
BladZaokraglaWGore(z) ==
  IF z.dlugosc = 0 \/ z.poczatek >= MAKS_ADRES THEN {}
  ELSE WGore(z.poczatek) .. WGore(Koniec(z)) - 1

(* The frames that lie inside the range.                                   *)
dodaj_dostepny_zakres(z) ==
  IF z.dlugosc = 0 \/ z.poczatek >= MAKS_ADRES THEN {}
  ELSE WGore(z.poczatek) .. WDol(Koniec(z)) - 1

(* The frames the range touches.                                           *)
zarezerwuj_zakres_na_stale(z) ==
  IF z.dlugosc = 0 \/ z.poczatek >= MAKS_ADRES THEN {}
  ELSE WDol(z.poczatek) .. WGore(Koniec(z)) - 1

NiskaPamiec == [poczatek |-> 0, dlugosc |-> NISKIE_RAMKI * ROZMIAR_STRONY]

Init ==
  /\ mapa_dostepnosci = {} /\ mapa_bitowa = {}
  /\ najwyzsza_znaleziona_ramka = 0 /\ ostatnia_alokacja = 0
  /\ pmm_zainicjalizowany = FALSE
  /\ wydane = {} /\ wynik = NIC
  /\ opis = [ram |-> {}, rezerwacje |-> {}]

(* A malformed structure, or a map without RAM, leaves the PMM closed.     *)
InicjalizujPMM ==
  \E mapa \in Mapy, rez \in Rezerwacje :
    LET ram == UNION { dodaj_dostepny_zakres(z) : z \in mapa }
        zajete == UNION { zarezerwuj_zakres_na_stale(z) : z \in rez \cup {NiskaPamiec} }
    IN /\ ~ pmm_zainicjalizowany
       /\ \/ UNCHANGED <<mapy, najwyzsza_znaleziona_ramka, ostatnia_alokacja,
                         pmm_zainicjalizowany, opis>>
          \/ /\ ram # {}
             /\ mapa_dostepnosci' = ram \ zajete
             /\ mapa_bitowa' = ram \ zajete
             /\ \E r \in ram : /\ Najwieksza(r, ram)
                               /\ najwyzsza_znaleziona_ramka' = r + 1
             /\ ostatnia_alokacja' = NISKIE_RAMKI
             /\ pmm_zainicjalizowany' = TRUE
             /\ opis' = [ram |-> mapa, rezerwacje |-> rez]
       /\ UNCHANGED <<wydane, wynik>>

-----------------------------------------------------------------------------
(* Allocation.                                                             *)

Limit == IF najwyzsza_znaleziona_ramka > MAX_RAMEK_ALOKOWALNYCH
         THEN MAX_RAMEK_ALOKOWALNYCH ELSE najwyzsza_znaleziona_ramka

Zawin(k) == IF k >= Limit THEN 0 ELSE k

Wolne == mapa_dostepnosci \cap mapa_bitowa

(* The two passes of ZaalokujRamke: from the cursor to the limit, then     *)
(* from the start of the map to the cursor.                                *)
Przebieg1 == { r \in Wolne : Zawin(ostatnia_alokacja) <= r /\ r < Limit }

(* Mutated form: the search does not wrap around.                          *)
BladBezZawiniecia == {}

Przebieg2 == { r \in Wolne : r < Zawin(ostatnia_alokacja) }

WydajRamke(r) ==
  /\ mapa_bitowa' = mapa_bitowa \ {r}
  /\ ostatnia_alokacja' = Zawin(r + 1)
  /\ wydane' = wydane \cup {<<r, 1>>}
  /\ wynik' = <<1, r>>

(* Frame 0 is reserved, so the second guard against nullptr in the passes  *)
(* never applies (RamkiToRam).                                             *)
ZaalokujRamke ==
  /\ pmm_zainicjalizowany
  /\ \/ \E r \in Ramki : Najmniejsza(r, Przebieg1) /\ WydajRamke(r)
     \/ /\ Przebieg1 = {}
        /\ \E r \in Ramki : Najmniejsza(r, Przebieg2) /\ WydajRamke(r)
     \/ /\ Przebieg1 = {} /\ Przebieg2 = {}
        /\ wynik' = <<1, NULL>>
        /\ ostatnia_alokacja' = Zawin(ostatnia_alokacja)
        /\ UNCHANGED <<mapa_bitowa, wydane>>
  /\ UNCHANGED stale

(* Mutated form: a run that is not free is skipped as a whole.             *)
BladPrzeskok(n) ==
  LET szukaj[s \in 0 .. MAX_RAMEK + MAKS_CIAG + 1] ==
        IF s > Limit - n THEN NULL
        ELSE IF Ciag(s, n) \subseteq Wolne THEN s ELSE szukaj[s + n]
  IN szukaj[NISKIE_RAMKI]

(* The loop of ZaalokujCiagleRamki: a frame that is not free moves the     *)
(* start of the run behind it.                                             *)
PetlaPoCiagach(n) ==
  LET szukaj[s \in 0 .. MAX_RAMEK + MAKS_CIAG + 1] ==
        IF s > Limit - n THEN NULL
        ELSE IF Ciag(s, n) \subseteq Wolne THEN s
        ELSE szukaj[Min(Ciag(s, n) \ Wolne) + 1]
  IN szukaj[NISKIE_RAMKI]

(* What the loop finds (PetlaZnajdujePierwszyCiag): the first free run.    *)
WolneCiagi(n) == { s \in NISKIE_RAMKI .. Limit - n : Ciag(s, n) \subseteq Wolne }

ZaalokujCiagleRamki(n) ==
  /\ pmm_zainicjalizowany
  /\ \/ \E s \in Ramki :
          /\ Najmniejsza(s, WolneCiagi(n))
          /\ mapa_bitowa' = mapa_bitowa \ Ciag(s, n)
          /\ ostatnia_alokacja' = Zawin(s + n)
          /\ wydane' = wydane \cup {<<s, n>>}
          /\ wynik' = <<n, s>>
     \/ /\ WolneCiagi(n) = {}
        /\ wynik' = <<n, NULL>>
        /\ UNCHANGED <<mapa_bitowa, ostatnia_alokacja, wydane>>
  /\ UNCHANGED stale

-----------------------------------------------------------------------------
(* Freeing. The owner of a block frees it; a stray call names something    *)
(* that no one holds: a frame that is free, reserved or no RAM at all.     *)

CofnijKursor(s) == IF s < ostatnia_alokacja THEN s ELSE ostatnia_alokacja

(* Mutated form: the permanent frames are not checked.                     *)
BladBezKontroliDostepnosci(r) == r \in mapa_bitowa

(* Frames ZwolnijRamke refuses: the permanent ones and a double free.      *)
Odmawia(r) == r \notin mapa_dostepnosci \/ r \in mapa_bitowa

ZwolnijRamke(r) ==
  /\ pmm_zainicjalizowany /\ r # NULL
  /\ <<r, 1>> \in wydane \/ r \notin Trzymane
  /\ IF Odmawia(r)
     THEN UNCHANGED <<mapa_bitowa, ostatnia_alokacja>>
     ELSE /\ mapa_bitowa' = mapa_bitowa \cup {r}
          /\ ostatnia_alokacja' = CofnijKursor(r)
  /\ wydane' = wydane \ {<<r, 1>>}
  /\ wynik' = NIC
  /\ UNCHANGED stale

(* ZwolnijCiagleRamki frees the whole run or nothing.                      *)
OdmawiaCiagu(s, n) ==
  \/ s >= MAX_RAMEK_ALOKOWALNYCH \/ n > MAX_RAMEK_ALOKOWALNYCH - s
  \/ \E r \in Ciag(s, n) : Odmawia(r)

ZwolnijCiagleRamki(s, n) ==
  /\ pmm_zainicjalizowany /\ s # NULL
  /\ <<s, n>> \in wydane \/ ~ (Ciag(s, n) \subseteq Trzymane)
  /\ IF OdmawiaCiagu(s, n)
     THEN UNCHANGED <<mapa_bitowa, ostatnia_alokacja>>
     ELSE /\ mapa_bitowa' = mapa_bitowa \cup Ciag(s, n)
          /\ ostatnia_alokacja' = CofnijKursor(s)
  /\ wydane' = wydane \ {<<s, n>>}
  /\ wynik' = NIC
  /\ UNCHANGED stale

Next ==
  \/ InicjalizujPMM
  \/ ZaalokujRamke
  \/ \E n \in 1 .. MAKS_CIAG : ZaalokujCiagleRamki(n)
  \/ \E r \in Ramki : ZwolnijRamke(r)
  \/ \E s \in Ramki, n \in 1 .. MAKS_CIAG : ZwolnijCiagleRamki(s, n)

Spec == Init /\ [][Next]_vars

-----------------------------------------------------------------------------
(* Properties.                                                             *)

(* The shape of the state: the bitmaps are sets of frames, the cursor is a *)
(* position in the map.                                                    *)
TypeOK ==
  /\ mapa_dostepnosci \subseteq Ramki
  /\ mapa_bitowa \subseteq Ramki
  /\ najwyzsza_znaleziona_ramka \in 0 .. MAX_RAMEK
  /\ ostatnia_alokacja \in Nat
  /\ pmm_zainicjalizowany \in BOOLEAN
  /\ wydane \subseteq Ramki \X (1 .. MAKS_CIAG)
  /\ wynik \in (0 .. MAKS_CIAG) \X Ramki

(* Only whole frames of RAM are managed: every byte of such a frame lies   *)
(* in a range MEMORY_AVAILABLE and in no reserved one, partial pages at    *)
(* both ends and ranges cut at the limit included; frame 0 never is, so    *)
(* nullptr always means failure (pmm.cpp 105-117 and 1258-1260).           *)
RamkiToRam ==
  \A r \in mapa_dostepnosci :
    /\ r >= NISKIE_RAMKI
    /\ \A b \in r * ROZMIAR_STRONY .. (r + 1) * ROZMIAR_STRONY - 1 :
         /\ \E z \in opis.ram : z.poczatek <= b /\ b < z.poczatek + z.dlugosc
         /\ \A z \in opis.rezerwacje : ~ (z.poczatek <= b /\ b < z.poczatek + z.dlugosc)

(* No frame is handed out twice: the blocks in use are disjoint from each  *)
(* other and from the free frames, whatever stray and double frees happen, *)
(* and every managed frame is free or in a block: none leaks.              *)
KazdaRamkaRaz ==
  /\ \A b, c \in wydane : b # c => Ciag(b[1], b[2]) \cap Ciag(c[1], c[2]) = {}
  /\ mapa_bitowa \cap Trzymane = {}
  /\ mapa_dostepnosci = mapa_bitowa \cup Trzymane

(* An allocation fails only when the map holds no free run of that length: *)
(* the two passes of ZaalokujRamke together see every frame below the      *)
(* limit, wherever the cursor stands.                                      *)
OdmowaTylkoBezRamek ==
  \A n \in 1 .. MAKS_CIAG : wynik = <<n, NULL>> =>
    ~ \E s \in 0 .. Limit - n : Ciag(s, n) \subseteq Wolne

(* The loop over starts of runs, which skips behind the first frame that   *)
(* is not free, finds the first free run (pmm.cpp 1332-1347).              *)
PetlaZnajdujePierwszyCiag ==
  pmm_zainicjalizowany => \A n \in 1 .. MAKS_CIAG :
    IF WolneCiagi(n) = {} THEN PetlaPoCiagach(n) = NULL
    ELSE Najmniejsza(PetlaPoCiagach(n), WolneCiagi(n))
=============================================================================
