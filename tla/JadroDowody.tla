----------------------------- MODULE JadroDowody -----------------------------
(***************************************************************************)
(* Proofs about the kernel of module Jadro, for every number of slots,     *)
(* every set of PML4 tables, stacks and paths, with and without a USB      *)
(* keyboard and with and without failing writes of CR3.                    *)
(***************************************************************************)
EXTENDS Jadro, TLAPS

(* PID 0 keeps the boot PML4 and the boot stack and is always ready.       *)
InwPid0 ==
  /\ stan[0] = "GOTOWY"
  /\ przestrzen[0] = PML4_JADRA /\ cr3_procesu[0] = PML4_JADRA
  /\ stos[0] = STOS_JADRA /\ kernel_rsp[0] \in {BRAK, STOS_JADRA}
  /\ ~ oczekuje[0]

(* The row of a user slot.                                                 *)
InwSlotu(p) ==
  /\ przestrzen[p] \in BrakLub(Przestrzenie)
  /\ stos[p] \in BrakLub(Stosy)
  /\ stan[p] \in {"PUSTY", "ZABLOKOWANY"} => stos[p] = BRAK
  /\ stos[p] = BRAK <=> przestrzen[p] = BRAK
  /\ kernel_rsp[p] \in {BRAK, stos[p]}
  /\ przestrzen[p] # BRAK => cr3_procesu[p] = przestrzen[p]
  /\ oczekuje[p] => /\ stos[p] # BRAK
                    /\ dz_stos[p] = stos[p]
                    /\ dz_przestrzen[p] = przestrzen[p]

(* A process waits in "hlt" exactly when it has handed in its resources    *)
(* and still runs; PID 0 makes no system call.                             *)
InwKroku ==
  /\ aktualny_pid = 0 => krok = "ring3"
  /\ krok = "hlt" <=> oczekuje[aktualny_pid]
  /\ krok = "hlt" <=> stan[aktualny_pid] = "KONCZACY"

(* The locals of the loader at each of its steps.                          *)
InwLoadera ==
  /\ krok \in KrokiLoadera =>
       /\ nowy_pid \in PidyUzytkownika
       /\ stan[nowy_pid] = "ZABLOKOWANY"
  /\ nowy_stos # BRAK <=> krok \in {"pml4", "mapuj"}
  /\ nowa_przestrzen # BRAK <=> krok = "mapuj"
  /\ \A p \in PidyUzytkownika :
       stan[p] = "ZABLOKOWANY" => krok \in KrokiLoadera /\ nowy_pid = p

InwUsb == usb_widzial => usb_pid \in PidyUzytkownika

Inw ==
  /\ TypeOK
  /\ InwPid0
  /\ \A p \in PidyUzytkownika : InwSlotu(p)
  /\ InwKroku
  /\ InwLoadera
  /\ InwUsb
  /\ ZgodnoscKontekstu
  /\ ZasobyMajaJednegoWlasciciela

USE DEF Pidy, PidyUzytkownika

(* In the first state every part of the invariant holds (kernel.cpp        *)
(* 1094-1129).                                                             *)
LEMMA InitInw == Init => Inw
<1> SUFFICES ASSUME NEW a \in Przestrzenie, NEW s \in Stosy, NEW sc \in Sciezki,
                    StanPoczatkowy(a, s, sc)
             PROVE  Inw
  BY DEF Init
<1> USE PlanistaZalozenia DEF PlanistaZalozenia
<1>1. TypeOK
  <2>1. oczekuje \in [Pidy -> BOOLEAN] /\ usb_widzial \in BOOLEAN
    BY Zenon DEF StanPoczatkowy
  <2>2. dlugosc \in [PidyUzytkownika -> 0 .. MAKS_ZDARZEN] /\ bufor \in 0 .. MAKS_BAJTOW
    BY DEF StanPoczatkowy
  <2>3. /\ aktualny_pid \in Pidy /\ nowy_pid \in Pidy /\ usb_pid \in Pidy
    BY DEF StanPoczatkowy
  <2>4. /\ stan \in [Pidy -> Stany]
        /\ sciezka \in [Pidy -> BrakLub(Sciezki)]
        /\ przestrzen \in [Pidy -> BrakLub(Przestrzenie \cup {PML4_JADRA})]
        /\ stos \in [Pidy -> BrakLub(Stosy \cup {STOS_JADRA})]
        /\ kernel_rsp \in [Pidy -> BrakLub(Stosy \cup {STOS_JADRA})]
        /\ cr3_procesu \in [Pidy -> BrakLub(Przestrzenie \cup {PML4_JADRA})]
        /\ dz_przestrzen \in [Pidy -> BrakLub(Przestrzenie)]
        /\ dz_stos \in [Pidy -> BrakLub(Stosy)]
    BY DEF StanPoczatkowy, BrakLub, Stany
  <2>5. /\ cr3 \in Przestrzenie \cup {PML4_JADRA}
        /\ tss_rsp0 \in Stosy \cup {STOS_JADRA}
        /\ bezpieczny_stos_jadra \in Stosy \cup {STOS_JADRA}
        /\ stos_cpu \in Stosy \cup {STOS_JADRA}
        /\ krok \in {"ring3", "czekaj", "zakoncz", "hlt"} \cup KrokiLoadera
        /\ przestrzenie_zywe \subseteq Przestrzenie
        /\ stosy_zywe \subseteq Stosy
        /\ nowy_stos \in BrakLub(Stosy)
        /\ nowa_przestrzen \in BrakLub(Przestrzenie)
    BY DEF StanPoczatkowy, BrakLub
  <2>6. QED
    BY <2>1, <2>2, <2>3, <2>4, <2>5 DEF TypeOK
<1>2. InwPid0
  BY DEF StanPoczatkowy, InwPid0
<1>3. \A p \in PidyUzytkownika : InwSlotu(p)
  BY DEF StanPoczatkowy, InwSlotu, BrakLub
<1>4. InwKroku /\ InwLoadera /\ InwUsb
  <2>1. ~ oczekuje[0] /\ ~ usb_widzial /\ aktualny_pid = 0 /\ krok = "ring3"
        /\ stan[aktualny_pid] = "GOTOWY"
    BY DEF StanPoczatkowy
  <2>2. InwKroku /\ InwUsb
    BY <2>1 DEF InwKroku, InwUsb
  <2>3. InwLoadera
    <3>1. \A p \in PidyUzytkownika : stan[p] # "ZABLOKOWANY"
      BY DEF StanPoczatkowy
    <3>2. nowy_stos = BRAK /\ nowa_przestrzen = BRAK
      BY DEF StanPoczatkowy
    <3>3. QED
      BY <2>1, <3>1, <3>2 DEF InwLoadera, KrokiLoadera
  <2>4. QED
    BY <2>2, <2>3
<1>5. ZgodnoscKontekstu
  BY DEF StanPoczatkowy, ZgodnoscKontekstu
<1>6. ZasobyMajaJednegoWlasciciela
  <2>1. /\ stos[0] = STOS_JADRA /\ stos[1] = s
        /\ \A p \in Pidy : p \notin {0, 1} => stos[p] = BRAK
        /\ przestrzen[0] = PML4_JADRA /\ przestrzen[1] = a
        /\ \A p \in Pidy : p \notin {0, 1} => przestrzen[p] = BRAK
        /\ stosy_zywe = {s} /\ przestrzenie_zywe = {a}
        /\ nowy_stos = BRAK /\ nowa_przestrzen = BRAK
    BY DEF StanPoczatkowy
  <2>2. 1 \in PidyUzytkownika
    OBVIOUS
  <2>3. QED
    BY <2>1, <2>2 DEF ZasobyMajaJednegoWlasciciela
<1>7. QED
  BY <1>1, <1>2, <1>3, <1>4, <1>5, <1>6 DEF Inw

(* A step that only wakes or blocks processes, moves to another point of a *)
(* system call, or returns to the stack of the SYSCALL gate: what the      *)
(* interrupts and the system calls on queues do.                           *)
DozwolonaZmiana(p) ==
  \/ stan'[p] = stan[p]
  \/ stan[p] \in Zablokowane /\ stan'[p] = "GOTOWY"
  \/ stan[p] = "GOTOWY" /\ stan'[p] \in Zablokowane /\ p # 0
  \/ aktualny_pid = 0 /\ p # 0 /\ stan'[p] = "GOTOWY"

ZmianaKroku ==
  \/ krok' = krok
  \/ aktualny_pid # 0 /\ {krok, krok'} \subseteq {"ring3", "czekaj", "zakoncz"}

BezZmianyZasobow ==
  UNCHANGED <<sciezka, przestrzen, stos, kernel_rsp, cr3_procesu, zwolnienia,
              aktualny_pid, cr3, tss_rsp0, bezpieczny_stos_jadra, pamiec, budowa>>

ZmianaStanow ==
  /\ stan' \in [Pidy -> Stany]
  /\ \A p \in Pidy : DozwolonaZmiana(p)
  /\ ZmianaKroku
  /\ stos_cpu' \in {stos_cpu, bezpieczny_stos_jadra}
  /\ dlugosc' \in [PidyUzytkownika -> 0 .. MAKS_ZDARZEN]
  /\ bufor' \in 0 .. MAKS_BAJTOW
  /\ usb_pid' \in Pidy /\ usb_widzial' \in BOOLEAN /\ InwUsb'
  /\ BezZmianyZasobow

LEMMA ZmianaStanowInw == Inw /\ ZmianaStanow => Inw'
<1> SUFFICES ASSUME Inw, ZmianaStanow PROVE Inw'
  OBVIOUS
<1> USE PlanistaZalozenia DEF PlanistaZalozenia, DozwolonaZmiana, ZmianaKroku, BezZmianyZasobow
<1>1. TypeOK'
  BY DEF Inw, TypeOK, ZmianaStanow, BrakLub, zwolnienia, pamiec, budowa, KrokiLoadera
<1>2. InwPid0'
  BY DEF Inw, InwPid0, ZmianaStanow, zwolnienia, Zablokowane
<1>3. ASSUME NEW p \in PidyUzytkownika PROVE InwSlotu(p)'
  <2>1. InwSlotu(p) /\ p \in Pidy
    BY DEF Inw
  <2>2. stan'[p] \in {"PUSTY", "ZABLOKOWANY"} => stan'[p] = stan[p]
    BY <2>1 DEF ZmianaStanow, Zablokowane
  <2>3. QED
    BY <2>1, <2>2 DEF InwSlotu, ZmianaStanow, zwolnienia
<1>4. InwKroku'
  BY DEF Inw, InwKroku, InwPid0, ZmianaStanow, zwolnienia, Zablokowane, TypeOK
<1>5. InwLoadera'
  <2>1. \A p \in PidyUzytkownika : stan'[p] = "ZABLOKOWANY" => stan[p] = "ZABLOKOWANY"
    BY DEF ZmianaStanow, Zablokowane
  <2>2. krok \in KrokiLoadera => krok' = krok /\ aktualny_pid # 0
    BY DEF Inw, InwKroku, ZmianaStanow, KrokiLoadera
  <2>3. krok' \in KrokiLoadera => krok' = krok
    BY DEF ZmianaStanow, KrokiLoadera
  <2>4. krok \in KrokiLoadera => stan'[nowy_pid] = "ZABLOKOWANY"
    BY <2>2 DEF Inw, InwLoadera, ZmianaStanow, Zablokowane
  <2>5. QED
    BY <2>1, <2>2, <2>3, <2>4 DEF Inw, InwLoadera, ZmianaStanow, budowa, KrokiLoadera
<1>6. InwUsb'
  BY DEF ZmianaStanow, ZmianaKroku
<1>7. ZgodnoscKontekstu'
  BY DEF Inw, ZgodnoscKontekstu, ZmianaStanow, Zablokowane, TypeOK
<1>8. ZasobyMajaJednegoWlasciciela'
  BY DEF Inw, ZasobyMajaJednegoWlasciciela, ZmianaStanow, pamiec, budowa
<1>9. QED
  BY <1>1, <1>2, <1>3, <1>4, <1>5, <1>6, <1>7, <1>8 DEF Inw

(* Events wake only processes that wait for events.                        *)
LEMMA PoZdarzeniachBudzi ==
  ASSUME TypeOK, NEW C, NEW odrzucone
  PROVE  /\ PoZdarzeniach(C, odrzucone) \in [Pidy -> Stany]
         /\ \A p \in Pidy :
              \/ PoZdarzeniach(C, odrzucone)[p] = stan[p]
              \/ /\ stan[p] = "ZABL_ZDARZENIE"
                 /\ PoZdarzeniach(C, odrzucone)[p] = "GOTOWY"
  BY DEF TypeOK, PoZdarzeniach, Stany

(* The interrupts that do not switch processes, and the system calls on    *)
(* queues, are changes of states.                                          *)
LEMMA KlawiaturaInw == Inw /\ PrzerwanieKlawiatury => Inw'
<1> SUFFICES ASSUME Inw, PrzerwanieKlawiatury PROVE ZmianaStanow
  BY ZmianaStanowInw
<1> USE PlanistaZalozenia DEF PlanistaZalozenia
<1>1. stan' \in [Pidy -> Stany] /\ \A p \in Pidy : DozwolonaZmiana(p)
  BY DEF Inw, TypeOK, PrzerwanieKlawiatury, PoKlawiaturze, Stany, Zablokowane, DozwolonaZmiana
<1>2. bufor' \in 0 .. MAKS_BAJTOW
  BY DEF Inw, TypeOK, PrzerwanieKlawiatury
<1>3. /\ dlugosc' \in [PidyUzytkownika -> 0 .. MAKS_ZDARZEN]
      /\ usb_pid' \in Pidy /\ usb_widzial' \in BOOLEAN /\ InwUsb'
  BY Zenon DEF Inw, TypeOK, InwUsb, PrzerwanieKlawiatury, usb
<1>4. BezZmianyZasobow /\ stos_cpu' = stos_cpu /\ krok' = krok
  BY DEF BezZmianyZasobow, PrzerwanieKlawiatury, cpu, pamiec, zwolnienia, budowa
<1>5. QED
  BY <1>1, <1>2, <1>3, <1>4 DEF ZmianaStanow, ZmianaKroku

(* Events posted to the PIDs of C by a step that changes nothing else but  *)
(* the place in a system call.                                             *)
LEMMA ZdarzeniaInw ==
  ASSUME Inw, NEW C, NEW odrzucone,
         DluzszeKolejki(C), stan' = PoZdarzeniach(C, odrzucone),
         ZmianaKroku,
         stos_cpu' \in {stos_cpu, bezpieczny_stos_jadra},
         UNCHANGED <<bufor, usb>>, BezZmianyZasobow
  PROVE  Inw'
<1>1. stan' \in [Pidy -> Stany] /\ \A p \in Pidy : DozwolonaZmiana(p)
  BY PoZdarzeniachBudzi DEF Inw, Zablokowane, DozwolonaZmiana
<1>2. dlugosc' \in [PidyUzytkownika -> 0 .. MAKS_ZDARZEN]
  BY DEF DluzszeKolejki
<1>3. bufor' \in 0 .. MAKS_BAJTOW
  BY DEF Inw, TypeOK
<1>4. usb_pid' \in Pidy /\ usb_widzial' \in BOOLEAN /\ InwUsb'
  BY Zenon DEF Inw, TypeOK, InwUsb, usb
<1>5. ZmianaStanow
  BY <1>1, <1>2, <1>3, <1>4 DEF ZmianaStanow, ZmianaKroku
<1>6. QED
  BY <1>5, ZmianaStanowInw

LEMMA PowiadomieniaInw ==
  Inw /\ (ZdarzenieWejscia \/ RozeslijZdarzenie \/ WejdzWZakonczenie) => Inw'
<1>1. ASSUME Inw, ZdarzenieWejscia PROVE Inw'
  <2>1. PICK p, odrzucone : DluzszeKolejki({p}) /\ stan' = PoZdarzeniach({p}, odrzucone)
    BY <1>1 DEF ZdarzenieWejscia
  <2>2. UNCHANGED <<bufor, usb>> /\ BezZmianyZasobow /\ stos_cpu' = stos_cpu /\ krok' = krok
    BY <1>1 DEF ZdarzenieWejscia, BezZmianyZasobow, cpu, pamiec, zwolnienia, budowa
  <2>3. QED
    BY <1>1, <2>1, <2>2, ZdarzeniaInw DEF ZmianaKroku
<1>2. ASSUME Inw, RozeslijZdarzenie PROVE Inw'
  <2>1. PICK C, odrzucone : DluzszeKolejki(C) /\ stan' = PoZdarzeniach(C, odrzucone)
    BY <1>2 DEF RozeslijZdarzenie
  <2>2. /\ UNCHANGED <<bufor, usb>> /\ BezZmianyZasobow
        /\ stos_cpu' = bezpieczny_stos_jadra /\ krok' = krok
    BY <1>2 DEF RozeslijZdarzenie, BezZmianyZasobow, pamiec, zwolnienia, budowa
  <2>3. QED
    BY <1>2, <2>1, <2>2, ZdarzeniaInw DEF ZmianaKroku
<1>3. ASSUME Inw, WejdzWZakonczenie PROVE Inw'
  <2>1. PICK C, odrzucone : DluzszeKolejki(C) /\ stan' = PoZdarzeniach(C, odrzucone)
    BY <1>3 DEF WejdzWZakonczenie
  <2>2. /\ UNCHANGED <<bufor, usb>> /\ BezZmianyZasobow
        /\ stos_cpu' = bezpieczny_stos_jadra
        /\ krok = "ring3" /\ krok' = "zakoncz" /\ aktualny_pid # 0
    BY <1>3 DEF WejdzWZakonczenie, WRing3, BezZmianyZasobow, pamiec, zwolnienia, budowa
  <2>3. QED
    BY <1>3, <2>1, <2>2, ZdarzeniaInw DEF ZmianaKroku
<1>4. QED
  BY <1>1, <1>2, <1>3

LEMMA PobierzZdarzenieInw == Inw /\ PobierzZdarzenie => Inw'
<1> SUFFICES ASSUME Inw, PobierzZdarzenie PROVE ZmianaStanow
  BY ZmianaStanowInw
<1> USE PlanistaZalozenia DEF PlanistaZalozenia
<1>1. dlugosc' \in [PidyUzytkownika -> 0 .. MAKS_ZDARZEN]
  BY DEF Inw, TypeOK, PobierzZdarzenie, WRing3
<1>2. stan' \in [Pidy -> Stany] /\ \A p \in Pidy : DozwolonaZmiana(p)
  BY Zenon DEF Inw, TypeOK, PobierzZdarzenie, tablica, DozwolonaZmiana
<1>3. /\ bufor' \in 0 .. MAKS_BAJTOW
      /\ usb_pid' \in Pidy /\ usb_widzial' \in BOOLEAN /\ InwUsb'
  BY Zenon DEF Inw, TypeOK, InwUsb, PobierzZdarzenie, tablica, usb
<1>4. BezZmianyZasobow /\ stos_cpu' = bezpieczny_stos_jadra
  BY DEF BezZmianyZasobow, PobierzZdarzenie, tablica, pamiec, zwolnienia, budowa
<1>5. ZmianaKroku
  BY DEF PobierzZdarzenie, WRing3, ZmianaKroku
<1>6. QED
  BY <1>1, <1>2, <1>3, <1>4, <1>5 DEF ZmianaStanow, ZmianaKroku

LEMMA CzekajInw == Inw /\ scheduler_czekaj_na_zdarzenie => Inw'
<1> SUFFICES ASSUME Inw, scheduler_czekaj_na_zdarzenie PROVE ZmianaStanow
  BY ZmianaStanowInw
<1>1. aktualny_pid # 0 /\ aktualny_pid \in Pidy
  BY DEF Inw, InwKroku, TypeOK, scheduler_czekaj_na_zdarzenie
<1>2. stan' \in [Pidy -> Stany] /\ \A p \in Pidy : DozwolonaZmiana(p)
  BY <1>1 DEF Inw, TypeOK, scheduler_czekaj_na_zdarzenie, Stany, Zablokowane, DozwolonaZmiana
<1>3. /\ dlugosc' \in [PidyUzytkownika -> 0 .. MAKS_ZDARZEN] /\ bufor' \in 0 .. MAKS_BAJTOW
      /\ usb_pid' \in Pidy /\ usb_widzial' \in BOOLEAN /\ InwUsb'
  BY Zenon DEF Inw, TypeOK, InwUsb, scheduler_czekaj_na_zdarzenie, kolejki, usb
<1>4. BezZmianyZasobow /\ stos_cpu' = stos_cpu /\ krok = "czekaj" /\ krok' = "ring3"
  BY DEF BezZmianyZasobow, scheduler_czekaj_na_zdarzenie, cpu, pamiec, zwolnienia, budowa
<1>5. QED
  BY <1>1, <1>2, <1>3, <1>4 DEF ZmianaStanow, ZmianaKroku

LEMMA KlawiszInw == Inw /\ scheduler_pobierz_klawisz_lub_zablokuj => Inw'
<1> SUFFICES ASSUME Inw, scheduler_pobierz_klawisz_lub_zablokuj PROVE ZmianaStanow
  BY ZmianaStanowInw
<1> USE PlanistaZalozenia DEF PlanistaZalozenia
<1>1. aktualny_pid # 0 /\ aktualny_pid \in Pidy
  BY DEF Inw, TypeOK, scheduler_pobierz_klawisz_lub_zablokuj, WRing3
<1>2. stan' \in [Pidy -> Stany] /\ \A p \in Pidy : DozwolonaZmiana(p)
  BY <1>1 DEF Inw, TypeOK, scheduler_pobierz_klawisz_lub_zablokuj, Stany, Zablokowane,
              DozwolonaZmiana
<1>3. bufor' \in 0 .. MAKS_BAJTOW
  BY DEF Inw, TypeOK, scheduler_pobierz_klawisz_lub_zablokuj
<1>4. /\ dlugosc' \in [PidyUzytkownika -> 0 .. MAKS_ZDARZEN]
      /\ usb_pid' \in Pidy /\ usb_widzial' \in BOOLEAN /\ InwUsb'
  BY Zenon DEF Inw, TypeOK, InwUsb, scheduler_pobierz_klawisz_lub_zablokuj, usb
<1>5. BezZmianyZasobow /\ stos_cpu' = bezpieczny_stos_jadra /\ krok' = krok
  BY DEF BezZmianyZasobow, scheduler_pobierz_klawisz_lub_zablokuj, pamiec, zwolnienia, budowa
<1>6. QED
  BY <1>1, <1>2, <1>3, <1>4, <1>5 DEF ZmianaStanow, ZmianaKroku

(* PID 0 reads and writes states with interrupts enabled. What it writes   *)
(* may be stale, and still breaks no part of the invariant.                *)
LEMMA UsbInw == Inw /\ KrokPid0 => Inw'
<1> USE PlanistaZalozenia DEF PlanistaZalozenia
<1>1. ASSUME Inw, UsbBajt \/ UsbCzytajStan PROVE ZmianaStanow
  <2>1. stan' \in [Pidy -> Stany] /\ \A p \in Pidy : DozwolonaZmiana(p)
    BY <1>1, Zenon DEF Inw, TypeOK, UsbBajt, UsbCzytajStan, tablica, DozwolonaZmiana
  <2>2. bufor' \in 0 .. MAKS_BAJTOW
    BY <1>1 DEF Inw, TypeOK, UsbBajt, UsbCzytajStan, kolejki
  <2>3. dlugosc' \in [PidyUzytkownika -> 0 .. MAKS_ZDARZEN]
    BY <1>1, Zenon DEF Inw, TypeOK, UsbBajt, UsbCzytajStan, kolejki
  <2>4. usb_pid' \in Pidy
    BY <1>1 DEF Inw, TypeOK, UsbBajt, UsbCzytajStan, DalejUsb
  <2>5. usb_widzial' \in BOOLEAN
    BY <1>1, Zenon DEF Inw, TypeOK, UsbBajt, UsbCzytajStan
  <2>6. InwUsb'
    <3>1. CASE UsbBajt
      <4>1. usb_pid' \in PidyUzytkownika
        BY <3>1 DEF UsbBajt
      <4>2. QED
        BY <4>1 DEF InwUsb
    <3>2. CASE UsbCzytajStan
      <4>1. CASE stan[usb_pid] = "ZABL_KLAWIATURA"
        <5>1. usb_pid' \in PidyUzytkownika
          BY <1>1, <3>2, <4>1 DEF Inw, TypeOK, UsbCzytajStan
        <5>2. QED
          BY <5>1 DEF InwUsb
      <4>2. CASE stan[usb_pid] # "ZABL_KLAWIATURA"
        <5>1. ~ usb_widzial'
          BY <3>2, <4>2 DEF UsbCzytajStan
        <5>2. QED
          BY <5>1 DEF InwUsb
      <4>3. QED
        BY <4>1, <4>2
    <3>3. QED
      BY <1>1, <3>1, <3>2
  <2>7. BezZmianyZasobow /\ stos_cpu' = stos_cpu /\ krok' = krok
    BY <1>1 DEF UsbBajt, UsbCzytajStan, BezZmianyZasobow, tablica, cpu, pamiec, zwolnienia, budowa
  <2>8. QED
    BY <2>1, <2>2, <2>3, <2>4, <2>5, <2>6, <2>7 DEF ZmianaStanow, ZmianaKroku
<1>2. ASSUME Inw, UsbZapiszGotowy PROVE ZmianaStanow
  <2>1. aktualny_pid = 0 /\ usb_pid \in PidyUzytkownika
    BY <1>2 DEF Inw, TypeOK, InwUsb, UsbZapiszGotowy, WPid0
  <2>2. stan' \in [Pidy -> Stany] /\ \A p \in Pidy : DozwolonaZmiana(p)
    BY <1>2, <2>1 DEF Inw, TypeOK, UsbZapiszGotowy, Stany, DozwolonaZmiana
  <2>3. dlugosc' \in [PidyUzytkownika -> 0 .. MAKS_ZDARZEN] /\ bufor' \in 0 .. MAKS_BAJTOW
    BY <1>2, Zenon DEF Inw, TypeOK, UsbZapiszGotowy, kolejki
  <2>4. usb_pid' \in Pidy
    BY <1>2 DEF Inw, TypeOK, UsbZapiszGotowy, DalejUsb
  <2>5. usb_widzial' \in BOOLEAN /\ InwUsb'
    BY <1>2, Zenon DEF UsbZapiszGotowy, InwUsb
  <2>6. BezZmianyZasobow /\ stos_cpu' = stos_cpu /\ krok' = krok
    BY <1>2 DEF UsbZapiszGotowy, BezZmianyZasobow, cpu, pamiec, zwolnienia, budowa
  <2>7. QED
    BY <2>2, <2>3, <2>4, <2>5, <2>6 DEF ZmianaStanow, ZmianaKroku
<1>3. QED
  BY <1>1, <1>2, ZmianaStanowInw DEF KrokPid0

(* The running process owns a stack and a PML4, PID 0 included.            *)
LEMMA BiezacyMaZasoby ==
  ASSUME Inw
  PROVE  /\ stos[aktualny_pid] # BRAK /\ przestrzen[aktualny_pid] # BRAK
         /\ aktualny_pid # 0 => /\ aktualny_pid \in PidyUzytkownika
                                /\ InwSlotu(aktualny_pid)
  BY PlanistaZalozenia DEF PlanistaZalozenia, Inw, TypeOK, ZgodnoscKontekstu

(* Ending keeps every resource: it is only noted for the cleanup.          *)
LEMMA ZakonczInw == Inw /\ Zakoncz => Inw'
<1> SUFFICES ASSUME Inw, Zakoncz PROVE Inw'
  OBVIOUS
<1> USE PlanistaZalozenia DEF PlanistaZalozenia
<1> DEFINE p == aktualny_pid
<1>1. /\ p # 0 /\ p \in PidyUzytkownika /\ InwSlotu(p) /\ ~ oczekuje[p]
      /\ stos[p] # BRAK /\ przestrzen[p] # BRAK
  BY BiezacyMaZasoby DEF Zakoncz, Inw, InwKroku
<1>2. /\ stos' = stos /\ przestrzen' = przestrzen /\ kernel_rsp' = kernel_rsp
      /\ cr3_procesu' = cr3_procesu /\ sciezka' = sciezka
      /\ stosy_zywe' = stosy_zywe /\ przestrzenie_zywe' = przestrzenie_zywe
      /\ nowy_pid' = nowy_pid /\ nowy_stos' = nowy_stos /\ nowa_przestrzen' = nowa_przestrzen
      /\ cpu' = cpu /\ UNCHANGED usb /\ bufor' = bufor
      /\ krok = "zakoncz" /\ krok' = "hlt"
  BY DEF Zakoncz, zakoncz_aktualny_proces, pamiec, budowa
<1>3. /\ dlugosc' = [dlugosc EXCEPT ![p] = 0]
      /\ dz_przestrzen' = [dz_przestrzen EXCEPT ![p] = przestrzen[p]]
      /\ dz_stos' = [dz_stos EXCEPT ![p] = stos[p]]
      /\ oczekuje' = [oczekuje EXCEPT ![p] = TRUE]
      /\ stan' = [stan EXCEPT ![p] = "KONCZACY"]
  BY <1>1 DEF Zakoncz, zakoncz_aktualny_proces
<1>4. TypeOK'
  <2>1. oczekuje' \in [Pidy -> BOOLEAN] /\ usb_widzial' \in BOOLEAN
    BY <1>1, <1>2, <1>3, Zenon DEF Inw, TypeOK, usb
  <2>2. dlugosc' \in [PidyUzytkownika -> 0 .. MAKS_ZDARZEN]
    BY <1>1, <1>3 DEF Inw, TypeOK
  <2>3. stan' \in [Pidy -> Stany]
    BY <1>1, <1>3 DEF Inw, TypeOK, Stany
  <2>4. dz_przestrzen' \in [Pidy -> BrakLub(Przestrzenie)] /\ dz_stos' \in [Pidy -> BrakLub(Stosy)]
    BY <1>1, <1>3 DEF Inw, TypeOK, InwSlotu, BrakLub
  <2>5. QED
    BY <1>2, <2>1, <2>2, <2>3, <2>4 DEF Inw, TypeOK, cpu, usb
<1>5. InwPid0'
  BY <1>1, <1>2, <1>3 DEF Inw, InwPid0, TypeOK
<1>6. ASSUME NEW q \in PidyUzytkownika PROVE InwSlotu(q)'
  <2>1. CASE q = p
    BY <1>1, <1>2, <1>3, <2>1 DEF Inw, InwSlotu, TypeOK
  <2>2. CASE q # p
    <3>1. oczekuje'[q] = oczekuje[q] /\ stan'[q] = stan[q]
          /\ dz_stos'[q] = dz_stos[q] /\ dz_przestrzen'[q] = dz_przestrzen[q]
      BY <1>3, <2>2 DEF Inw, TypeOK
    <3>2. QED
      BY <1>2, <3>1 DEF Inw, InwSlotu
  <2>3. QED
    BY <2>1, <2>2
<1>7. InwKroku'
  BY <1>1, <1>2, <1>3 DEF Inw, InwKroku, TypeOK, cpu
<1>8. InwLoadera'
  <2>1. \A q \in PidyUzytkownika : stan'[q] # "ZABLOKOWANY"
    BY <1>1, <1>2, <1>3 DEF Inw, InwLoadera, TypeOK, KrokiLoadera
  <2>2. QED
    BY <1>2, <2>1 DEF Inw, InwLoadera, KrokiLoadera
<1>9. InwUsb'
  BY <1>2, Zenon DEF Inw, InwUsb, usb
<1>10. ZgodnoscKontekstu'
  BY <1>1, <1>2, <1>3 DEF Inw, ZgodnoscKontekstu, TypeOK, cpu
<1>11. ZasobyMajaJednegoWlasciciela'
  BY <1>2 DEF Inw, ZasobyMajaJednegoWlasciciela
<1>12. QED
  BY <1>4, <1>5, <1>6, <1>7, <1>8, <1>9, <1>10, <1>11 DEF Inw

(* The reservation takes a free slot, which owns nothing.                  *)
LEMMA RezerwacjaInw == Inw /\ UruchomProgram => Inw'
<1> SUFFICES ASSUME Inw, NEW s \in Sciezki, WRing3, zarezerwuj_slot_procesu(s) PROVE Inw'
  BY DEF UruchomProgram
<1> USE PlanistaZalozenia DEF PlanistaZalozenia
<1>1. CASE UNCHANGED <<tablica, nowy_pid, krok>>
  <2>1. stan' \in [Pidy -> Stany] /\ \A p \in Pidy : DozwolonaZmiana(p)
    BY <1>1, Zenon DEF Inw, TypeOK, tablica, DozwolonaZmiana
  <2>2. /\ bufor' \in 0 .. MAKS_BAJTOW /\ dlugosc' \in [PidyUzytkownika -> 0 .. MAKS_ZDARZEN]
        /\ usb_pid' \in Pidy /\ usb_widzial' \in BOOLEAN /\ InwUsb'
    BY Zenon DEF Inw, TypeOK, InwUsb, zarezerwuj_slot_procesu, usb, kolejki
  <2>3. BezZmianyZasobow /\ stos_cpu' = bezpieczny_stos_jadra /\ krok' = krok
    BY <1>1 DEF BezZmianyZasobow, zarezerwuj_slot_procesu, tablica, pamiec, zwolnienia, budowa
  <2>4. ZmianaStanow
    BY <2>1, <2>2, <2>3 DEF ZmianaStanow, ZmianaKroku
  <2>5. QED
    BY <2>4, ZmianaStanowInw
<1>2. ASSUME NEW p \in PidyUzytkownika, PierwszyPusty(p),
             stan' = [stan EXCEPT ![p] = "ZABLOKOWANY"],
             sciezka' = [sciezka EXCEPT ![p] = s],
             przestrzen' = [przestrzen EXCEPT ![p] = BRAK],
             stos' = [stos EXCEPT ![p] = BRAK],
             kernel_rsp' = [kernel_rsp EXCEPT ![p] = BRAK],
             cr3_procesu' = [cr3_procesu EXCEPT ![p] = BRAK],
             nowy_pid' = p, krok' = "plik"
      PROVE  Inw'
  <2>1. /\ stan[p] = "PUSTY" /\ InwSlotu(p) /\ stos[p] = BRAK /\ przestrzen[p] = BRAK
        /\ p # aktualny_pid /\ ~ oczekuje[p]
    BY <1>2 DEF Inw, InwSlotu, PierwszyPusty, ZgodnoscKontekstu
  <2>2. /\ aktualny_pid' = aktualny_pid /\ cr3' = cr3 /\ tss_rsp0' = tss_rsp0
        /\ bezpieczny_stos_jadra' = bezpieczny_stos_jadra /\ stos_cpu' = bezpieczny_stos_jadra
        /\ zwolnienia' = zwolnienia /\ kolejki' = kolejki /\ pamiec' = pamiec
        /\ nowy_stos' = nowy_stos /\ nowa_przestrzen' = nowa_przestrzen /\ UNCHANGED usb
        /\ krok = "ring3" /\ aktualny_pid # 0
    BY DEF zarezerwuj_slot_procesu, WRing3
  <2>3. stos' = stos /\ przestrzen' = przestrzen
    BY <1>2, <2>1 DEF Inw, TypeOK
  <2>4. TypeOK'
    <3>1. /\ stan' \in [Pidy -> Stany] /\ sciezka' \in [Pidy -> BrakLub(Sciezki)]
          /\ kernel_rsp' \in [Pidy -> BrakLub(Stosy \cup {STOS_JADRA})]
          /\ cr3_procesu' \in [Pidy -> BrakLub(Przestrzenie \cup {PML4_JADRA})]
      BY <1>2 DEF Inw, TypeOK, Stany, BrakLub
    <3>2. /\ oczekuje' \in [Pidy -> BOOLEAN] /\ usb_pid' \in Pidy /\ usb_widzial' \in BOOLEAN
          /\ dz_przestrzen' \in [Pidy -> BrakLub(Przestrzenie)] /\ dz_stos' \in [Pidy -> BrakLub(Stosy)]
          /\ dlugosc' \in [PidyUzytkownika -> 0 .. MAKS_ZDARZEN] /\ bufor' \in 0 .. MAKS_BAJTOW
          /\ przestrzenie_zywe' \subseteq Przestrzenie /\ stosy_zywe' \subseteq Stosy
      BY Zenon DEF Inw, TypeOK, zarezerwuj_slot_procesu, zwolnienia, kolejki, pamiec, usb
    <3>3. /\ przestrzen' \in [Pidy -> BrakLub(Przestrzenie \cup {PML4_JADRA})]
          /\ stos' \in [Pidy -> BrakLub(Stosy \cup {STOS_JADRA})]
          /\ aktualny_pid' \in Pidy /\ cr3' \in Przestrzenie \cup {PML4_JADRA}
          /\ tss_rsp0' \in Stosy \cup {STOS_JADRA}
          /\ bezpieczny_stos_jadra' \in Stosy \cup {STOS_JADRA}
          /\ stos_cpu' \in Stosy \cup {STOS_JADRA}
          /\ nowy_stos' \in BrakLub(Stosy) /\ nowa_przestrzen' \in BrakLub(Przestrzenie)
      BY <2>2, <2>3, Zenon DEF Inw, TypeOK
    <3>4. nowy_pid' \in Pidy /\ krok' \in {"ring3", "czekaj", "zakoncz", "hlt"} \cup KrokiLoadera
      BY <1>2 DEF KrokiLoadera
    <3>5. QED
      BY <3>1, <3>2, <3>3, <3>4, Zenon DEF TypeOK
  <2>5. InwPid0'
    BY <1>2, <2>2, <2>3 DEF Inw, InwPid0, TypeOK, zwolnienia
  <2>6. ASSUME NEW q \in PidyUzytkownika PROVE InwSlotu(q)'
    BY <1>2, <2>1, <2>2, <2>3 DEF Inw, InwSlotu, TypeOK, zwolnienia
  <2>7. InwKroku'
    BY <1>2, <2>1, <2>2 DEF Inw, InwKroku, TypeOK, zwolnienia
  <2>8. InwLoadera'
    BY <1>2, <2>1, <2>2 DEF Inw, InwLoadera, TypeOK, KrokiLoadera
  <2>9. InwUsb'
    BY <2>2, Zenon DEF Inw, InwUsb, usb
  <2>10. ZgodnoscKontekstu'
    BY <1>2, <2>1, <2>2, <2>3 DEF Inw, ZgodnoscKontekstu, TypeOK
  <2>11. ZasobyMajaJednegoWlasciciela'
    BY <2>2, <2>3 DEF Inw, ZasobyMajaJednegoWlasciciela, pamiec
  <2>12. QED
    BY <2>4, <2>5, <2>6, <2>7, <2>8, <2>9, <2>10, <2>11 DEF Inw
<1>3. QED
  BY <1>1, <1>2, Zenon DEF zarezerwuj_slot_procesu

(* At every step of the loader the slot under construction owns nothing,   *)
(* is not the running one and is not waiting for the cleanup.              *)
LEMMA SlotWBudowie ==
  ASSUME Inw, krok \in KrokiLoadera
  PROVE  /\ nowy_pid \in PidyUzytkownika /\ InwSlotu(nowy_pid)
         /\ stan[nowy_pid] = "ZABLOKOWANY"
         /\ stos[nowy_pid] = BRAK /\ przestrzen[nowy_pid] = BRAK
         /\ ~ oczekuje[nowy_pid] /\ nowy_pid # aktualny_pid /\ aktualny_pid # 0
<1>1. nowy_pid \in PidyUzytkownika /\ InwSlotu(nowy_pid) /\ stan[nowy_pid] = "ZABLOKOWANY"
  BY DEF Inw, InwLoadera
<1>2. nowy_pid # aktualny_pid /\ aktualny_pid # 0
  BY <1>1 DEF Inw, InwKroku, ZgodnoscKontekstu, KrokiLoadera
<1>3. QED
  BY <1>1, <1>2 DEF InwSlotu

(* What no step of the loader touches keeps its type.                      *)
LEMMA LoaderTypy ==
  ASSUME Inw, UNCHANGED <<zwolnienia, cpu, kolejki, usb>>
  PROVE  /\ dz_przestrzen' \in [Pidy -> BrakLub(Przestrzenie)]
         /\ dz_stos' \in [Pidy -> BrakLub(Stosy)]
         /\ oczekuje' \in [Pidy -> BOOLEAN]
         /\ aktualny_pid' \in Pidy /\ cr3' \in Przestrzenie \cup {PML4_JADRA}
         /\ tss_rsp0' \in Stosy \cup {STOS_JADRA}
         /\ bezpieczny_stos_jadra' \in Stosy \cup {STOS_JADRA}
         /\ stos_cpu' \in Stosy \cup {STOS_JADRA}
         /\ dlugosc' \in [PidyUzytkownika -> 0 .. MAKS_ZDARZEN] /\ bufor' \in 0 .. MAKS_BAJTOW
         /\ usb_pid' \in Pidy /\ usb_widzial' \in BOOLEAN /\ InwUsb'
  BY Zenon DEF Inw, TypeOK, InwUsb, zwolnienia, cpu, kolejki, usb

(* A failure frees exactly the stack and the PML4 taken so far.            *)
LEMMA NiepowodzenieInw ==
  ASSUME Inw, krok \in KrokiLoadera, Niepowodzenie,
         UNCHANGED <<zwolnienia, cpu, kolejki, usb>>
  PROVE  Inw'
<1> USE PlanistaZalozenia DEF PlanistaZalozenia
<1>1. stos' = stos /\ przestrzen' = przestrzen
  BY SlotWBudowie DEF Niepowodzenie, zwolnij_rezerwacje_procesu, Inw, TypeOK
<1>2. /\ stan' = [stan EXCEPT ![nowy_pid] = "PUSTY"]
      /\ sciezka' = [sciezka EXCEPT ![nowy_pid] = BRAK]
      /\ kernel_rsp' = [kernel_rsp EXCEPT ![nowy_pid] = BRAK]
      /\ cr3_procesu' = [cr3_procesu EXCEPT ![nowy_pid] = BRAK]
      /\ nowy_pid' = 0 /\ nowy_stos' = BRAK /\ nowa_przestrzen' = BRAK /\ krok' = "ring3"
      /\ stosy_zywe' = stosy_zywe \ {nowy_stos}
      /\ przestrzenie_zywe' = przestrzenie_zywe \ {nowa_przestrzen}
  BY DEF Niepowodzenie, zwolnij_rezerwacje_procesu
<1>3. oczekuje' = oczekuje /\ dz_stos' = dz_stos /\ dz_przestrzen' = dz_przestrzen
  BY DEF zwolnienia
<1>4. /\ aktualny_pid' = aktualny_pid /\ cr3' = cr3 /\ tss_rsp0' = tss_rsp0
      /\ bezpieczny_stos_jadra' = bezpieczny_stos_jadra /\ stos_cpu' = stos_cpu
  BY DEF cpu
<1>5. TypeOK'
  <2>1. /\ stan' \in [Pidy -> Stany] /\ sciezka' \in [Pidy -> BrakLub(Sciezki)]
        /\ kernel_rsp' \in [Pidy -> BrakLub(Stosy \cup {STOS_JADRA})]
        /\ cr3_procesu' \in [Pidy -> BrakLub(Przestrzenie \cup {PML4_JADRA})]
    BY <1>2, SlotWBudowie DEF Inw, TypeOK, Stany, BrakLub
  <2>2. /\ nowy_pid' \in Pidy /\ nowy_stos' \in BrakLub(Stosy)
        /\ nowa_przestrzen' \in BrakLub(Przestrzenie)
        /\ krok' \in {"ring3", "czekaj", "zakoncz", "hlt"} \cup KrokiLoadera
        /\ stosy_zywe' \subseteq Stosy /\ przestrzenie_zywe' \subseteq Przestrzenie
    BY <1>2 DEF Inw, TypeOK, BrakLub
  <2>3. /\ przestrzen' \in [Pidy -> BrakLub(Przestrzenie \cup {PML4_JADRA})]
        /\ stos' \in [Pidy -> BrakLub(Stosy \cup {STOS_JADRA})]
    BY <1>1 DEF Inw, TypeOK
  <2>4. QED
    BY <2>1, <2>2, <2>3, LoaderTypy, Zenon DEF TypeOK
<1> DEFINE p == nowy_pid
<1>p. /\ p \in PidyUzytkownika /\ InwSlotu(p) /\ ~ oczekuje[p]
      /\ stos[p] = BRAK /\ przestrzen[p] = BRAK
  BY SlotWBudowie
<1>w. /\ stan'[p] = "PUSTY" /\ kernel_rsp'[p] = BRAK /\ cr3_procesu'[p] = BRAK
      /\ \A q \in Pidy \ {p} : /\ stan'[q] = stan[q] /\ kernel_rsp'[q] = kernel_rsp[q]
                               /\ cr3_procesu'[q] = cr3_procesu[q]
  BY <1>2, <1>p DEF Inw, TypeOK
<1> HIDE DEF p
<1>6. InwPid0'
  <2>1. 0 \in Pidy \ {p}
    BY <1>p
  <2>2. QED
    BY <1>1, <1>3, <1>w, <2>1 DEF Inw, InwPid0
<1>7. ASSUME NEW q \in PidyUzytkownika PROVE InwSlotu(q)'
  <2>1. CASE q = p
    BY <1>1, <1>3, <1>p, <1>w, <2>1 DEF InwSlotu, BrakLub
  <2>2. CASE q # p
    BY <1>1, <1>3, <1>w, <2>2 DEF Inw, InwSlotu
  <2>3. QED
    BY <2>1, <2>2
<1>8. InwKroku'
  BY <1>2, <1>3, <1>4, SlotWBudowie DEF Inw, InwKroku, TypeOK, KrokiLoadera
<1>9. InwLoadera'
  <2>1. \A q \in PidyUzytkownika : stan'[q] # "ZABLOKOWANY"
    BY <1>2, SlotWBudowie DEF Inw, InwLoadera, TypeOK
  <2>2. QED
    BY <1>2, <2>1 DEF InwLoadera, KrokiLoadera
<1>10. ZgodnoscKontekstu'
  BY <1>1, <1>2, <1>4, SlotWBudowie DEF Inw, ZgodnoscKontekstu, TypeOK
<1>11. ZasobyMajaJednegoWlasciciela'
  BY <1>1, <1>2 DEF Inw, ZasobyMajaJednegoWlasciciela
<1>12. QED
  BY <1>5, <1>6, <1>7, <1>8, <1>9, <1>10, <1>11, LoaderTypy DEF Inw

(* The successful steps before the publication: only the locals of the     *)
(* loader and the sets of what is allocated change.                        *)
LEMMA KrokBudowyInw ==
  ASSUME Inw, krok \in KrokiLoadera, krok' \in KrokiLoadera,
         UNCHANGED <<tablica, nowy_pid, zwolnienia, cpu, kolejki, usb>>,
         nowy_stos' \in BrakLub(Stosy), nowa_przestrzen' \in BrakLub(Przestrzenie),
         nowy_stos' # BRAK <=> krok' \in {"pml4", "mapuj"},
         nowa_przestrzen' # BRAK <=> krok' = "mapuj",
         stosy_zywe' \subseteq Stosy, przestrzenie_zywe' \subseteq Przestrzenie,
         ZasobyMajaJednegoWlasciciela'
  PROVE  Inw'
<1>1. /\ stan' = stan /\ sciezka' = sciezka /\ przestrzen' = przestrzen /\ stos' = stos
      /\ kernel_rsp' = kernel_rsp /\ cr3_procesu' = cr3_procesu /\ nowy_pid' = nowy_pid
      /\ oczekuje' = oczekuje /\ dz_stos' = dz_stos /\ dz_przestrzen' = dz_przestrzen
      /\ aktualny_pid' = aktualny_pid /\ cr3' = cr3 /\ tss_rsp0' = tss_rsp0
      /\ bezpieczny_stos_jadra' = bezpieczny_stos_jadra /\ stos_cpu' = stos_cpu
  BY DEF tablica, zwolnienia, cpu
<1>2. TypeOK'
  <2>1. /\ stan' \in [Pidy -> Stany] /\ sciezka' \in [Pidy -> BrakLub(Sciezki)]
        /\ kernel_rsp' \in [Pidy -> BrakLub(Stosy \cup {STOS_JADRA})]
        /\ cr3_procesu' \in [Pidy -> BrakLub(Przestrzenie \cup {PML4_JADRA})]
        /\ przestrzen' \in [Pidy -> BrakLub(Przestrzenie \cup {PML4_JADRA})]
        /\ stos' \in [Pidy -> BrakLub(Stosy \cup {STOS_JADRA})]
        /\ nowy_pid' \in Pidy
    BY <1>1, Zenon DEF Inw, TypeOK
  <2>2. krok' \in {"ring3", "czekaj", "zakoncz", "hlt"} \cup KrokiLoadera
    OBVIOUS
  <2>3. QED
    BY <2>1, <2>2, LoaderTypy, Zenon DEF TypeOK
<1>3. InwPid0' /\ (\A p \in PidyUzytkownika : InwSlotu(p)')
  BY <1>1, Zenon DEF Inw, InwPid0, InwSlotu
<1>4. InwKroku'
  BY <1>1 DEF Inw, InwKroku, KrokiLoadera
<1>5. InwLoadera'
  BY <1>1 DEF Inw, InwLoadera
<1>6. ZgodnoscKontekstu'
  BY <1>1, Zenon DEF Inw, ZgodnoscKontekstu
<1>7. QED
  BY <1>2, <1>3, <1>4, <1>5, <1>6, LoaderTypy, Zenon DEF Inw

(* The steps that take a stack and a PML4: what is free has no owner.      *)
LEMMA BudowaInw == Inw /\ (WczytajPlik \/ ZaalokujStos \/ UtworzPrzestrzen) => Inw'
<1> USE PlanistaZalozenia DEF PlanistaZalozenia
<1>1. ASSUME Inw, WczytajPlik PROVE Inw'
  <2>0. krok \in KrokiLoadera /\ UNCHANGED <<zwolnienia, cpu, kolejki, usb>>
    BY <1>1 DEF WczytajPlik, KrokiLoadera
  <2>1. CASE krok' = "stos" /\ UNCHANGED <<tablica, pamiec, budowa>>
    <3>1. /\ nowy_stos' = nowy_stos /\ nowa_przestrzen' = nowa_przestrzen
          /\ nowy_pid' = nowy_pid /\ stosy_zywe' = stosy_zywe
          /\ przestrzenie_zywe' = przestrzenie_zywe
          /\ stos' = stos /\ przestrzen' = przestrzen /\ krok = "plik"
      BY <1>1, <2>1 DEF WczytajPlik, tablica, pamiec, budowa
    <3>2. nowy_stos = BRAK /\ nowa_przestrzen = BRAK
      BY <1>1, <3>1 DEF Inw, InwLoadera
    <3>3. ZasobyMajaJednegoWlasciciela'
      BY <1>1, <3>1, Zenon DEF Inw, ZasobyMajaJednegoWlasciciela
    <3>4. /\ krok' \in KrokiLoadera
          /\ nowy_stos' \in BrakLub(Stosy) /\ nowa_przestrzen' \in BrakLub(Przestrzenie)
          /\ nowy_stos' # BRAK <=> krok' \in {"pml4", "mapuj"}
          /\ nowa_przestrzen' # BRAK <=> krok' = "mapuj"
          /\ stosy_zywe' \subseteq Stosy /\ przestrzenie_zywe' \subseteq Przestrzenie
      BY <1>1, <2>1, <3>1, <3>2 DEF Inw, TypeOK, KrokiLoadera
    <3>5. QED
      BY <1>1, <2>0, <2>1, <3>1, <3>3, <3>4, KrokBudowyInw
  <2>2. CASE Niepowodzenie
    BY <1>1, <2>0, <2>2, NiepowodzenieInw
  <2>3. QED
    BY <1>1, <2>1, <2>2 DEF WczytajPlik
<1>2. ASSUME Inw, ZaalokujStos PROVE Inw'
  <2>0. krok \in KrokiLoadera /\ UNCHANGED <<zwolnienia, cpu, kolejki, usb>>
    BY <1>2 DEF ZaalokujStos, KrokiLoadera
  <2>1. ASSUME NEW s \in Stosy \ stosy_zywe, nowy_stos' = s,
               stosy_zywe' = stosy_zywe \cup {s}, krok' = "pml4",
               UNCHANGED <<tablica, przestrzenie_zywe, nowy_pid, nowa_przestrzen>>
        PROVE  Inw'
    <3>1. nowy_stos = BRAK /\ nowa_przestrzen = BRAK
      BY <1>2 DEF Inw, InwLoadera, ZaalokujStos
    <3>2. stos' = stos /\ przestrzen' = przestrzen
      BY <2>1 DEF tablica
    <3>3. \A p \in Pidy : stos[p] # s
      BY <1>2, <2>1 DEF Inw, InwPid0, ZasobyMajaJednegoWlasciciela
    <3>4. stosy_zywe' = ({ stos[p] : p \in PidyUzytkownika } \cup {s}) \ {BRAK}
      BY <1>2, <2>1, <3>1 DEF Inw, ZasobyMajaJednegoWlasciciela
    <3>5. ZasobyMajaJednegoWlasciciela'
      BY <1>2, <2>1, <3>1, <3>2, <3>3, <3>4 DEF Inw, ZasobyMajaJednegoWlasciciela
    <3>6. /\ krok' \in KrokiLoadera
          /\ nowy_stos' \in BrakLub(Stosy) /\ nowa_przestrzen' \in BrakLub(Przestrzenie)
          /\ nowy_stos' # BRAK <=> krok' \in {"pml4", "mapuj"}
          /\ nowa_przestrzen' # BRAK <=> krok' = "mapuj"
          /\ stosy_zywe' \subseteq Stosy /\ przestrzenie_zywe' \subseteq Przestrzenie
      BY <1>2, <2>1, <3>1 DEF Inw, TypeOK, KrokiLoadera, BrakLub
    <3>7. QED
      BY <1>2, <2>0, <2>1, <3>5, <3>6, KrokBudowyInw
  <2>2. CASE Niepowodzenie
    BY <1>2, <2>0, <2>2, NiepowodzenieInw
  <2>3. QED
    BY <1>2, <2>1, <2>2, Zenon DEF ZaalokujStos
<1>3. ASSUME Inw, UtworzPrzestrzen PROVE Inw'
  <2>0. krok \in KrokiLoadera /\ UNCHANGED <<zwolnienia, cpu, kolejki, usb>>
    BY <1>3 DEF UtworzPrzestrzen, KrokiLoadera
  <2>1. ASSUME NEW a \in Przestrzenie \ przestrzenie_zywe, nowa_przestrzen' = a,
               przestrzenie_zywe' = przestrzenie_zywe \cup {a}, krok' = "mapuj",
               UNCHANGED <<tablica, stosy_zywe, nowy_pid, nowy_stos>>
        PROVE  Inw'
    <3>1. nowy_stos # BRAK /\ nowa_przestrzen = BRAK
      BY <1>3 DEF Inw, InwLoadera, UtworzPrzestrzen
    <3>2. stos' = stos /\ przestrzen' = przestrzen
      BY <2>1 DEF tablica
    <3>3. \A p \in Pidy : przestrzen[p] # a
      BY <1>3, <2>1 DEF Inw, InwPid0, ZasobyMajaJednegoWlasciciela
    <3>4. przestrzenie_zywe' = ({ przestrzen[p] : p \in PidyUzytkownika } \cup {a}) \ {BRAK}
      BY <1>3, <2>1, <3>1 DEF Inw, ZasobyMajaJednegoWlasciciela
    <3>5. ZasobyMajaJednegoWlasciciela'
      BY <1>3, <2>1, <3>1, <3>2, <3>3, <3>4 DEF Inw, ZasobyMajaJednegoWlasciciela
    <3>6. /\ krok' \in KrokiLoadera
          /\ nowy_stos' \in BrakLub(Stosy) /\ nowa_przestrzen' \in BrakLub(Przestrzenie)
          /\ nowy_stos' # BRAK <=> krok' \in {"pml4", "mapuj"}
          /\ nowa_przestrzen' # BRAK <=> krok' = "mapuj"
          /\ stosy_zywe' \subseteq Stosy /\ przestrzenie_zywe' \subseteq Przestrzenie
      BY <1>3, <2>1, <3>1 DEF Inw, TypeOK, KrokiLoadera, BrakLub
    <3>7. QED
      BY <1>3, <2>0, <2>1, <3>5, <3>6, KrokBudowyInw
  <2>2. CASE Niepowodzenie
    BY <1>3, <2>0, <2>2, NiepowodzenieInw
  <2>3. QED
    BY <1>3, <2>1, <2>2, Zenon DEF UtworzPrzestrzen
<1>4. QED
  BY <1>1, <1>2, <1>3

(* The publication moves the stack and the PML4 from the locals of the     *)
(* loader to the slot.                                                     *)
LEMMA PublikacjaInw == Inw /\ ZmapujIOpublikuj => Inw'
<1> SUFFICES ASSUME Inw, ZmapujIOpublikuj PROVE Inw'
  OBVIOUS
<1> USE PlanistaZalozenia DEF PlanistaZalozenia
<1>1. /\ krok = "mapuj" /\ krok \in KrokiLoadera
      /\ UNCHANGED <<zwolnienia, cpu, kolejki, usb>>
  BY DEF ZmapujIOpublikuj, CR3PoMapowaniu, KrokiLoadera, cpu
<1>2. CASE Niepowodzenie
  BY <1>1, <1>2, NiepowodzenieInw
<1>3. ASSUME przestrzen' = [przestrzen EXCEPT ![nowy_pid] = nowa_przestrzen],
             cr3_procesu' = [cr3_procesu EXCEPT ![nowy_pid] = nowa_przestrzen],
             stos' = [stos EXCEPT ![nowy_pid] = nowy_stos],
             kernel_rsp' = [kernel_rsp EXCEPT ![nowy_pid] = nowy_stos],
             stan' = [stan EXCEPT ![nowy_pid] = "GOTOWY"],
             nowy_pid' = 0, nowy_stos' = BRAK, nowa_przestrzen' = BRAK,
             krok' = "ring3", UNCHANGED <<sciezka, pamiec>>
      PROVE  Inw'
  <2> DEFINE p == nowy_pid
  <2>1. /\ p \in PidyUzytkownika /\ InwSlotu(p) /\ ~ oczekuje[p]
        /\ stan[p] = "ZABLOKOWANY" /\ stos[p] = BRAK /\ przestrzen[p] = BRAK
        /\ p # aktualny_pid /\ aktualny_pid # 0
    BY <1>1, SlotWBudowie
  <2>2. /\ nowy_stos \in Stosy /\ nowa_przestrzen \in Przestrzenie
        /\ nowy_stos # BRAK /\ nowa_przestrzen # BRAK
    BY <1>1 DEF Inw, InwLoadera, TypeOK, BrakLub
  <2>3. /\ stan'[p] = "GOTOWY" /\ kernel_rsp'[p] = nowy_stos
        /\ cr3_procesu'[p] = nowa_przestrzen
        /\ stos'[p] = nowy_stos /\ przestrzen'[p] = nowa_przestrzen
        /\ \A q \in Pidy \ {p} : /\ stan'[q] = stan[q] /\ kernel_rsp'[q] = kernel_rsp[q]
                                 /\ cr3_procesu'[q] = cr3_procesu[q]
                                 /\ stos'[q] = stos[q] /\ przestrzen'[q] = przestrzen[q]
    BY <1>3, <2>1 DEF Inw, TypeOK
  <2>4. oczekuje' = oczekuje /\ dz_stos' = dz_stos /\ dz_przestrzen' = dz_przestrzen
    BY <1>1 DEF zwolnienia
  <2>5. /\ aktualny_pid' = aktualny_pid /\ cr3' = cr3 /\ tss_rsp0' = tss_rsp0
        /\ bezpieczny_stos_jadra' = bezpieczny_stos_jadra /\ stos_cpu' = stos_cpu
    BY <1>1 DEF cpu
  <2>6. stosy_zywe' = stosy_zywe /\ przestrzenie_zywe' = przestrzenie_zywe
    BY <1>3 DEF pamiec
  <2>7. TypeOK'
    <3>1. /\ stan' \in [Pidy -> Stany] /\ sciezka' \in [Pidy -> BrakLub(Sciezki)]
      BY <1>3, <2>1 DEF Inw, TypeOK, Stany
    <3>2. /\ kernel_rsp' \in [Pidy -> BrakLub(Stosy \cup {STOS_JADRA})]
          /\ cr3_procesu' \in [Pidy -> BrakLub(Przestrzenie \cup {PML4_JADRA})]
          /\ przestrzen' \in [Pidy -> BrakLub(Przestrzenie \cup {PML4_JADRA})]
          /\ stos' \in [Pidy -> BrakLub(Stosy \cup {STOS_JADRA})]
      BY <1>3, <2>1, <2>2 DEF Inw, TypeOK, BrakLub
    <3>3. /\ nowy_pid' \in Pidy /\ nowy_stos' \in BrakLub(Stosy)
          /\ nowa_przestrzen' \in BrakLub(Przestrzenie)
          /\ krok' \in {"ring3", "czekaj", "zakoncz", "hlt"} \cup KrokiLoadera
          /\ stosy_zywe' \subseteq Stosy /\ przestrzenie_zywe' \subseteq Przestrzenie
      BY <1>3, <2>6 DEF Inw, TypeOK, BrakLub
    <3>4. QED
      BY <1>1, <3>1, <3>2, <3>3, LoaderTypy, Zenon DEF TypeOK
  <2> HIDE DEF p
  <2>8. InwPid0'
    <3>1. 0 \in Pidy \ {p}
      BY <2>1
    <3>2. QED
      BY <2>3, <2>4, <3>1 DEF Inw, InwPid0
  <2>9. ASSUME NEW q \in PidyUzytkownika PROVE InwSlotu(q)'
    <3>1. CASE q = p
      BY <2>1, <2>2, <2>3, <2>4, <3>1 DEF InwSlotu, BrakLub
    <3>2. CASE q # p
      BY <2>3, <2>4, <3>2 DEF Inw, InwSlotu
    <3>3. QED
      BY <3>1, <3>2
  <2>10. InwKroku'
    BY <1>1, <1>3, <2>1, <2>3, <2>4, <2>5 DEF Inw, InwKroku, TypeOK
  <2>11. InwLoadera'
    <3>1. \A q \in PidyUzytkownika : stan'[q] # "ZABLOKOWANY"
      BY <2>3 DEF Inw, InwLoadera, p
    <3>2. QED
      BY <1>3, <3>1 DEF InwLoadera, KrokiLoadera
  <2>12. ZgodnoscKontekstu'
    BY <2>1, <2>3, <2>5 DEF Inw, ZgodnoscKontekstu, TypeOK
  <2>13. ZasobyMajaJednegoWlasciciela'
    <3>1. \A q, r \in Pidy : (q # r /\ stos'[q] # BRAK) => stos'[q] # stos'[r]
      BY <2>1, <2>2, <2>3 DEF Inw, ZasobyMajaJednegoWlasciciela
    <3>2. \A q, r \in Pidy : (q # r /\ przestrzen'[q] # BRAK) => przestrzen'[q] # przestrzen'[r]
      BY <2>1, <2>2, <2>3 DEF Inw, ZasobyMajaJednegoWlasciciela
    <3>3. stosy_zywe' = ({ stos'[q] : q \in PidyUzytkownika } \cup {nowy_stos'}) \ {BRAK}
      BY <1>3, <2>1, <2>2, <2>3, <2>6 DEF Inw, ZasobyMajaJednegoWlasciciela
    <3>4. przestrzenie_zywe' =
            ({ przestrzen'[q] : q \in PidyUzytkownika } \cup {nowa_przestrzen'}) \ {BRAK}
      BY <1>3, <2>1, <2>2, <2>3, <2>6 DEF Inw, ZasobyMajaJednegoWlasciciela
    <3>5. QED
      BY <1>3, <3>1, <3>2, <3>3, <3>4 DEF ZasobyMajaJednegoWlasciciela
  <2>14. QED
    BY <1>1, <2>7, <2>8, <2>9, <2>10, <2>11, <2>12, <2>13, LoaderTypy DEF Inw
<1>4. QED
  BY <1>2, <1>3, Zenon DEF ZmapujIOpublikuj

(* What the cleanup frees belongs to ended processes other than the one    *)
(* that runs, and is neither in CR3 nor under the interrupt frame.         *)
LEMMA SprzataneFakty ==
  ASSUME Inw, NEW p \in Sprzatane
  PROVE  /\ p \in PidyUzytkownika /\ p # aktualny_pid /\ oczekuje[p]
         /\ stos[p] # BRAK /\ przestrzen[p] # BRAK
         /\ dz_stos[p] = stos[p] /\ dz_przestrzen[p] = przestrzen[p]
         /\ dz_przestrzen[p] # cr3
         /\ stos[p] # stos[aktualny_pid] /\ p \in Pidy
<1>1. p \in PidyUzytkownika /\ p # aktualny_pid /\ oczekuje[p] /\ p \in Pidy
  BY DEF Sprzatane
<1>2. /\ stos[p] # BRAK /\ przestrzen[p] # BRAK
      /\ dz_stos[p] = stos[p] /\ dz_przestrzen[p] = przestrzen[p]
  BY <1>1 DEF Inw, InwSlotu
<1>3. dz_przestrzen[p] # cr3 /\ stos[p] # stos[aktualny_pid]
  BY <1>1, <1>2 DEF Inw, TypeOK, ZasobyMajaJednegoWlasciciela, ZgodnoscKontekstu
<1>4. QED
  BY <1>1, <1>2, <1>3

LEMMA RamkaNaStosieBiezacego ==
  ASSUME Inw PROVE StosRamki = stos[aktualny_pid] /\ stos_cpu = stos[aktualny_pid]
  BY DEF StosRamki, Inw, ZgodnoscKontekstu

(* The table after the cleanup, row by row. stan1 are the states after the *)
(* events of the timer handler.                                            *)
LEMMA TablicaPoSprzataniu ==
  ASSUME Inw, NEW stan1, posprzataj_zakonczone_procesy(stan1)
  PROVE  /\ \A p \in Sprzatane :
              /\ stan'[p] = "PUSTY" /\ stos'[p] = BRAK /\ przestrzen'[p] = BRAK
              /\ kernel_rsp'[p] = BRAK /\ oczekuje'[p] = FALSE
         /\ \A p \in Pidy \ Sprzatane :
              /\ stan'[p] = stan1[p] /\ stos'[p] = stos[p] /\ przestrzen'[p] = przestrzen[p]
              /\ kernel_rsp'[p] \in {kernel_rsp[p], stos[p]}
              /\ p # aktualny_pid => kernel_rsp'[p] = kernel_rsp[p]
              /\ oczekuje'[p] <=> oczekuje[p]
              /\ dz_stos'[p] = dz_stos[p] /\ dz_przestrzen'[p] = dz_przestrzen[p]
         /\ cr3_procesu' = cr3_procesu
         /\ stosy_zywe' = stosy_zywe \ { stos[p] : p \in Sprzatane }
         /\ przestrzenie_zywe' = przestrzenie_zywe \ { przestrzen[p] : p \in Sprzatane }
<1> Sprzatane \subseteq Pidy
  BY DEF Sprzatane
<1>1. ASSUME NEW p \in Sprzatane
      PROVE  /\ stan'[p] = "PUSTY" /\ stos'[p] = BRAK /\ przestrzen'[p] = BRAK
             /\ kernel_rsp'[p] = BRAK /\ oczekuje'[p] = FALSE
  BY DEF posprzataj_zakonczone_procesy
<1>2. ASSUME NEW p \in Pidy \ Sprzatane
      PROVE  /\ stan'[p] = stan1[p] /\ stos'[p] = stos[p] /\ przestrzen'[p] = przestrzen[p]
             /\ kernel_rsp'[p] \in {kernel_rsp[p], stos[p]}
             /\ p # aktualny_pid => kernel_rsp'[p] = kernel_rsp[p]
             /\ oczekuje'[p] <=> oczekuje[p]
             /\ dz_stos'[p] = dz_stos[p] /\ dz_przestrzen'[p] = dz_przestrzen[p]
  BY RamkaNaStosieBiezacego DEF posprzataj_zakonczone_procesy
<1>3. { dz_stos[p] : p \in Sprzatane } = { stos[p] : p \in Sprzatane }
  BY SprzataneFakty
<1>4. NiszczonePrzestrzenie = { przestrzen[p] : p \in Sprzatane }
  BY SprzataneFakty DEF NiszczonePrzestrzenie
<1>5. QED
  BY <1>1, <1>2, <1>3, <1>4 DEF posprzataj_zakonczone_procesy

(* The CPU after a switch, a failed switch, or none.                       *)
LEMMA CpuPoPrzelaczeniu ==
  ASSUME Inw, MoznaPrzelaczyc, NEW stan1, PrzelaczKontekst(stan1)
  PROVE  /\ aktualny_pid' \in Pidy \ Sprzatane
         /\ cr3' = przestrzen[aktualny_pid']
         /\ tss_rsp0' = stos[aktualny_pid'] /\ bezpieczny_stos_jadra' = stos[aktualny_pid']
         /\ stos_cpu' = stos[aktualny_pid']
         /\ \/ aktualny_pid' = aktualny_pid /\ krok' = krok
            \/ /\ krok' = "ring3" /\ ~ oczekuje[aktualny_pid'] /\ stan1[aktualny_pid'] = "GOTOWY"
         /\ krok \in {"ring3", "hlt"}
<1>0. posprzataj_zakonczone_procesy(stan1)
  BY DEF PrzelaczKontekst
<1>1. krok \in {"ring3", "hlt"}
  BY DEF Inw, InwKroku, ZgodnoscKontekstu, MoznaPrzelaczyc
<1>2. aktualny_pid \in Pidy \ Sprzatane
  BY DEF Inw, TypeOK, Sprzatane
<1>3. CASE ZostajeWKontekscie
  BY <1>1, <1>2, <1>3 DEF ZostajeWKontekscie, cpu, Inw, ZgodnoscKontekstu
<1>4. ASSUME NEW p \in Pidy \ {aktualny_pid}, JestNastepnym(aktualny_pid, p),
             PrzejdzDo(p) \/ WycofajPrzejscie(p)
      PROVE  /\ aktualny_pid' \in Pidy \ Sprzatane
             /\ cr3' = przestrzen[aktualny_pid']
             /\ tss_rsp0' = stos[aktualny_pid'] /\ bezpieczny_stos_jadra' = stos[aktualny_pid']
             /\ stos_cpu' = stos[aktualny_pid']
             /\ \/ aktualny_pid' = aktualny_pid /\ krok' = krok
                \/ /\ krok' = "ring3" /\ ~ oczekuje[aktualny_pid'] /\ stan1[aktualny_pid'] = "GOTOWY"
  <2>1. CASE WycofajPrzejscie(p)
    BY <1>2, <2>1 DEF WycofajPrzejscie, Inw, ZgodnoscKontekstu
  <2>2. CASE PrzejdzDo(p)
    <3>1. /\ stan'[p] = "GOTOWY" /\ kernel_rsp'[p] # BRAK /\ stos'[p] # BRAK
          /\ p # 0 => kernel_rsp'[p] = stos'[p] /\ przestrzen'[p] # BRAK
      BY <1>4 DEF JestNastepnym, Uruchamialne, proces_moze_byc_uruchomiony
    <3>2. p \notin Sprzatane
      BY <1>0, <3>1, TablicaPoSprzataniu
    <3>3. /\ stan1[p] = "GOTOWY" /\ kernel_rsp[p] # BRAK /\ stos[p] # BRAK
          /\ p # 0 => kernel_rsp[p] = stos[p] /\ przestrzen[p] # BRAK
      BY <1>0, <1>4, <3>1, <3>2, TablicaPoSprzataniu
    <3>4. ~ oczekuje[p]
      BY <1>4, <3>2 DEF Sprzatane, Inw, InwPid0
    <3>5. cr3_procesu[p] = przestrzen[p] /\ kernel_rsp[p] = stos[p]
      BY <1>4, <3>3 DEF Inw, InwPid0, InwSlotu
    <3>6. QED
      BY <2>2, <3>2, <3>3, <3>4, <3>5 DEF PrzejdzDo
  <2>3. QED
    BY <1>4, <2>1, <2>2
<1>5. QED
  BY <1>1, <1>3, <1>4, Zenon DEF PrzelaczKontekst

(* The states after the timer handler: some waiting processes are awake.   *)
StanyPoZegarze(stan1) ==
  /\ stan1 \in [Pidy -> Stany]
  /\ \A p \in Pidy : \/ stan1[p] = stan[p]
                     \/ stan[p] = "ZABL_ZDARZENIE" /\ stan1[p] = "GOTOWY"

LEMMA PrzelaczInw ==
  ASSUME Inw, MoznaPrzelaczyc, NEW stan1, StanyPoZegarze(stan1), PrzelaczKontekst(stan1),
         dlugosc' \in [PidyUzytkownika -> 0 .. MAKS_ZDARZEN], UNCHANGED <<bufor, usb>>
  PROVE  Inw'
<1> USE PlanistaZalozenia DEF PlanistaZalozenia
<1>s. /\ stan1 \in [Pidy -> Stany]
      /\ \A p \in Pidy : \/ stan1[p] = stan[p]
                         \/ stan[p] = "ZABL_ZDARZENIE" /\ stan1[p] = "GOTOWY"
  BY DEF StanyPoZegarze
<1> USE <1>s
<1> DEFINE b == aktualny_pid'
<1>0. posprzataj_zakonczone_procesy(stan1) /\ UNCHANGED budowa
  BY DEF PrzelaczKontekst
<1>1. /\ \A p \in Sprzatane :
           /\ stan'[p] = "PUSTY" /\ stos'[p] = BRAK /\ przestrzen'[p] = BRAK
           /\ kernel_rsp'[p] = BRAK /\ oczekuje'[p] = FALSE
      /\ \A p \in Pidy \ Sprzatane :
           /\ stan'[p] = stan1[p] /\ stos'[p] = stos[p] /\ przestrzen'[p] = przestrzen[p]
           /\ kernel_rsp'[p] \in {kernel_rsp[p], stos[p]}
           /\ oczekuje'[p] <=> oczekuje[p]
           /\ dz_stos'[p] = dz_stos[p] /\ dz_przestrzen'[p] = dz_przestrzen[p]
      /\ cr3_procesu' = cr3_procesu
      /\ stosy_zywe' = stosy_zywe \ { stos[p] : p \in Sprzatane }
      /\ przestrzenie_zywe' = przestrzenie_zywe \ { przestrzen[p] : p \in Sprzatane }
  BY <1>0, TablicaPoSprzataniu
<1>2. /\ b \in Pidy \ Sprzatane
      /\ cr3' = przestrzen[b] /\ tss_rsp0' = stos[b] /\ bezpieczny_stos_jadra' = stos[b]
      /\ stos_cpu' = stos[b]
      /\ \/ b = aktualny_pid /\ krok' = krok
         \/ krok' = "ring3" /\ ~ oczekuje[b] /\ stan1[b] = "GOTOWY"
      /\ krok \in {"ring3", "hlt"}
  BY CpuPoPrzelaczeniu
<1>3. \A p \in Sprzatane : p \in PidyUzytkownika /\ stos[p] # BRAK /\ przestrzen[p] # BRAK
  BY SprzataneFakty
<1>4. nowy_pid' = nowy_pid /\ nowy_stos' = nowy_stos /\ nowa_przestrzen' = nowa_przestrzen
  BY <1>0 DEF budowa
<1>5. /\ \A p \in PidyUzytkownika : stan[p] # "ZABLOKOWANY"
      /\ nowy_stos = BRAK /\ nowa_przestrzen = BRAK /\ krok' \in {"ring3", "hlt"}
  BY <1>2 DEF Inw, InwLoadera, KrokiLoadera
<1>6. stos[b] # BRAK /\ przestrzen[b] # BRAK /\ stan1[b] \notin {"PUSTY", "ZABLOKOWANY"}
  <2>1. CASE b = aktualny_pid
    BY <1>2, <2>1, BiezacyMaZasoby DEF Inw, ZgodnoscKontekstu, TypeOK
  <2>2. CASE b # aktualny_pid
    <3>1. stan1[b] = "GOTOWY" /\ b \in Pidy
      BY <1>2, <2>2
    <3>2. PICK p \in Pidy \ {aktualny_pid} : JestNastepnym(aktualny_pid, p) /\ aktualny_pid' = p
      BY <2>2 DEF PrzelaczKontekst, ZostajeWKontekscie, cpu, PrzejdzDo, WycofajPrzejscie
    <3>3. stos'[p] # BRAK /\ (p # 0 => przestrzen'[p] # BRAK)
      BY <3>2 DEF JestNastepnym, Uruchamialne, proces_moze_byc_uruchomiony
    <3>4. stos[b] # BRAK /\ (b # 0 => przestrzen[b] # BRAK)
      BY <1>1, <1>2, <3>2, <3>3
    <3>5. QED
      BY <3>1, <3>4 DEF Inw, InwPid0
  <2>3. QED
    BY <2>1, <2>2
<1> HIDE DEF b
<1>7. TypeOK'
  <2>1. /\ stan' \in [Pidy -> Stany]
        /\ sciezka' \in [Pidy -> BrakLub(Sciezki)]
        /\ przestrzen' \in [Pidy -> BrakLub(Przestrzenie \cup {PML4_JADRA})]
        /\ stos' \in [Pidy -> BrakLub(Stosy \cup {STOS_JADRA})]
        /\ dz_przestrzen' \in [Pidy -> BrakLub(Przestrzenie)]
        /\ dz_stos' \in [Pidy -> BrakLub(Stosy)]
    BY <1>0 DEF Inw, TypeOK, posprzataj_zakonczone_procesy, Stany, BrakLub
  <2>2. kernel_rsp' \in [Pidy -> BrakLub(Stosy \cup {STOS_JADRA})]
    BY <1>0, RamkaNaStosieBiezacego DEF Inw, TypeOK, posprzataj_zakonczone_procesy, BrakLub
  <2>3. oczekuje' \in [Pidy -> BOOLEAN]
    BY <1>0 DEF posprzataj_zakonczone_procesy
  <2>4. /\ cr3_procesu' \in [Pidy -> BrakLub(Przestrzenie \cup {PML4_JADRA})]
        /\ przestrzenie_zywe' \subseteq Przestrzenie /\ stosy_zywe' \subseteq Stosy
    BY <1>1 DEF Inw, TypeOK
  <2>5. /\ b \in Pidy /\ cr3' \in Przestrzenie \cup {PML4_JADRA}
        /\ tss_rsp0' \in Stosy \cup {STOS_JADRA}
        /\ bezpieczny_stos_jadra' \in Stosy \cup {STOS_JADRA}
        /\ stos_cpu' \in Stosy \cup {STOS_JADRA}
    BY <1>2, <1>6 DEF Inw, TypeOK, BrakLub
  <2>6. krok' \in {"ring3", "czekaj", "zakoncz", "hlt"} \cup KrokiLoadera
    BY <1>5
  <2>7. /\ bufor' \in 0 .. MAKS_BAJTOW /\ usb_pid' \in Pidy /\ usb_widzial' \in BOOLEAN
        /\ nowy_pid' \in Pidy /\ nowy_stos' \in BrakLub(Stosy)
        /\ nowa_przestrzen' \in BrakLub(Przestrzenie)
    BY <1>4, Zenon DEF Inw, TypeOK, usb
  <2>8. QED
    BY <2>1, <2>2, <2>3, <2>4, <2>5, <2>6, <2>7, Zenon DEF TypeOK, b
<1>8. InwPid0'
  <2>1. 0 \in Pidy \ Sprzatane
    BY DEF Sprzatane
  <2>2. QED
    BY <1>1, <2>1 DEF Inw, InwPid0
<1>9. ASSUME NEW p \in PidyUzytkownika PROVE InwSlotu(p)'
  <2>1. CASE p \in Sprzatane
    BY <1>1, <2>1 DEF InwSlotu, BrakLub
  <2>2. CASE p \notin Sprzatane
    <3>1. InwSlotu(p) /\ p \in Pidy \ Sprzatane
      BY <2>2 DEF Inw
    <3>2. stan1[p] \in {"PUSTY", "ZABLOKOWANY"} => stan[p] \in {"PUSTY", "ZABLOKOWANY"}
      OBVIOUS
    <3>3. QED
      BY <1>1, <3>1, <3>2 DEF InwSlotu
  <2>3. QED
    BY <2>1, <2>2
<1>10. InwKroku'
  <2>1. CASE b = aktualny_pid /\ krok' = krok
    BY <1>1, <1>2, <2>1 DEF Inw, InwKroku, TypeOK, b
  <2>2. CASE krok' = "ring3" /\ ~ oczekuje[b] /\ stan1[b] = "GOTOWY"
    BY <1>1, <1>2, <2>2 DEF InwKroku, b
  <2>3. QED
    BY <1>2, <2>1, <2>2
<1>11. InwLoadera'
  <2>1. \A p \in PidyUzytkownika : stan'[p] # "ZABLOKOWANY"
    BY <1>1, <1>5
  <2>2. QED
    BY <1>4, <1>5, <2>1 DEF InwLoadera, KrokiLoadera
<1>12. InwUsb'
  BY Zenon DEF Inw, InwUsb, usb
<1>13. ZgodnoscKontekstu'
  BY <1>1, <1>2, <1>6 DEF ZgodnoscKontekstu, b
<1>14. ZasobyMajaJednegoWlasciciela'
  <2>1. \A p \in Pidy : stos'[p] \in {stos[p], BRAK} /\ przestrzen'[p] \in {przestrzen[p], BRAK}
    BY <1>1
  <2>2. /\ \A p, q \in Pidy : (p # q /\ stos'[p] # BRAK) => stos'[p] # stos'[q]
        /\ \A p, q \in Pidy : (p # q /\ przestrzen'[p] # BRAK) => przestrzen'[p] # przestrzen'[q]
    BY <2>1, SMTT(30) DEF Inw, ZasobyMajaJednegoWlasciciela
  <2>3. stosy_zywe' = ({ stos'[p] : p \in PidyUzytkownika } \cup {nowy_stos'}) \ {BRAK}
    <3>1. ASSUME NEW x \in stosy_zywe'
          PROVE  x # BRAK /\ \E p \in PidyUzytkownika : stos'[p] = x
      <4>1. PICK p \in PidyUzytkownika : stos[p] = x /\ x # BRAK
        BY <1>1, <1>5 DEF Inw, ZasobyMajaJednegoWlasciciela
      <4>2. QED
        BY <1>1, <4>1
    <3>2. ASSUME NEW p \in PidyUzytkownika, stos'[p] # BRAK PROVE stos'[p] \in stosy_zywe'
      <4>1. stos'[p] = stos[p] /\ p \notin Sprzatane /\ p \in Pidy
        BY <1>1, <3>2
      <4>2. \A q \in Sprzatane : stos[q] # stos[p]
        BY <1>3, <3>2, <4>1 DEF Inw, ZasobyMajaJednegoWlasciciela
      <4>3. stos[p] \in stosy_zywe
        BY <3>2, <4>1 DEF Inw, ZasobyMajaJednegoWlasciciela
      <4>4. QED
        BY <1>1, <4>1, <4>2, <4>3
    <3>3. QED
      BY <1>4, <1>5, <3>1, <3>2
  <2>4. przestrzenie_zywe' =
          ({ przestrzen'[p] : p \in PidyUzytkownika } \cup {nowa_przestrzen'}) \ {BRAK}
    <3>1. ASSUME NEW x \in przestrzenie_zywe'
          PROVE  x # BRAK /\ \E p \in PidyUzytkownika : przestrzen'[p] = x
      <4>1. PICK p \in PidyUzytkownika : przestrzen[p] = x /\ x # BRAK
        BY <1>1, <1>5 DEF Inw, ZasobyMajaJednegoWlasciciela
      <4>2. p \in Pidy \ Sprzatane
        BY <1>1, <4>1
      <4>3. QED
        BY <1>1, <4>1, <4>2
    <3>2. ASSUME NEW p \in PidyUzytkownika, przestrzen'[p] # BRAK
          PROVE  przestrzen'[p] \in przestrzenie_zywe'
      <4>1. przestrzen'[p] = przestrzen[p] /\ p \notin Sprzatane /\ p \in Pidy
        BY <1>1, <3>2
      <4>2. \A q \in Sprzatane : przestrzen[q] # przestrzen[p]
        BY <1>3, <3>2, <4>1 DEF Inw, ZasobyMajaJednegoWlasciciela
      <4>3. przestrzen[p] \in przestrzenie_zywe
        BY <3>2, <4>1 DEF Inw, ZasobyMajaJednegoWlasciciela
      <4>4. QED
        BY <1>1, <4>1, <4>2, <4>3
    <3>3. QED
      BY <1>4, <1>5, <3>1, <3>2
  <2>5. QED
    BY <1>4, <1>5, <2>2, <2>3, <2>4 DEF ZasobyMajaJednegoWlasciciela
<1>15. QED
  BY <1>7, <1>8, <1>9, <1>10, <1>11, <1>12, <1>13, <1>14 DEF Inw

LEMMA ZegarInw == Inw /\ PrzerwanieZegara => Inw'
<1> SUFFICES ASSUME Inw, PrzerwanieZegara PROVE Inw'
  OBVIOUS
<1>1. PICK C, odrzucone :
        /\ DluzszeKolejki(C)
        /\ IF MoznaPrzelaczyc
           THEN PrzelaczKontekst(PoZdarzeniach(C, odrzucone))
           ELSE /\ stan' = PoZdarzeniach(C, odrzucone)
                /\ UNCHANGED <<sciezka, przestrzen, stos, kernel_rsp, cr3_procesu,
                               zwolnienia, cpu, krok, pamiec, budowa>>
        /\ UNCHANGED <<bufor, usb>>
  BY Zenon DEF PrzerwanieZegara
<1>2. CASE MoznaPrzelaczyc
  <2>1. dlugosc' \in [PidyUzytkownika -> 0 .. MAKS_ZDARZEN]
    BY <1>1 DEF DluzszeKolejki
  <2>0. PICK stan1 : stan1 = PoZdarzeniach(C, odrzucone)
    OBVIOUS
  <2>2. StanyPoZegarze(stan1)
    BY <2>0, PoZdarzeniachBudzi DEF Inw, StanyPoZegarze
  <2>3. PrzelaczKontekst(stan1) /\ UNCHANGED <<bufor, usb>>
    BY <1>1, <1>2, <2>0
  <2>4. QED
    BY <1>2, <2>1, <2>2, <2>3, PrzelaczInw
<1>3. CASE ~ MoznaPrzelaczyc
  <2>1. BezZmianyZasobow /\ stos_cpu' = stos_cpu /\ ZmianaKroku
    BY <1>1, <1>3 DEF BezZmianyZasobow, ZmianaKroku, cpu
  <2>2. QED
    BY <1>1, <1>3, <2>1, ZdarzeniaInw
<1>4. QED
  BY <1>2, <1>3

-----------------------------------------------------------------------------
(* Every step of the kernel keeps the inductive invariant.                 *)
LEMMA KrokInw == Inw /\ [Next]_vars => Inw'
<1> SUFFICES ASSUME Inw, [Next]_vars PROVE Inw'
  OBVIOUS
<1>1. CASE Przerwanie
  BY <1>1, ZegarInw, KlawiaturaInw, PowiadomieniaInw DEF Przerwanie
<1>2. CASE DalejSyscall
  BY <1>2, CzekajInw, ZakonczInw, BudowaInw, PublikacjaInw DEF DalejSyscall, KrokLoadera
<1>3. CASE NowySyscall
  BY <1>3, PobierzZdarzenieInw, KlawiszInw, PowiadomieniaInw, RezerwacjaInw DEF NowySyscall
<1>4. CASE KrokPid0
  BY <1>4, UsbInw
<1>5. CASE UNCHANGED vars
  <2>1. stan' \in [Pidy -> Stany] /\ \A p \in Pidy : DozwolonaZmiana(p)
    BY <1>5, Zenon DEF Inw, TypeOK, vars, tablica, DozwolonaZmiana
  <2>2. /\ bufor' \in 0 .. MAKS_BAJTOW /\ dlugosc' \in [PidyUzytkownika -> 0 .. MAKS_ZDARZEN]
        /\ usb_pid' \in Pidy /\ usb_widzial' \in BOOLEAN /\ InwUsb'
    BY <1>5, Zenon DEF Inw, TypeOK, InwUsb, vars, usb, kolejki
  <2>3. BezZmianyZasobow /\ stos_cpu' = stos_cpu /\ ZmianaKroku
    BY <1>5 DEF BezZmianyZasobow, ZmianaKroku, vars, tablica, zwolnienia, cpu, pamiec, budowa
  <2>4. QED
    BY <2>1, <2>2, <2>3, ZmianaStanowInw DEF ZmianaStanow
<1>6. QED
  BY <1>1, <1>2, <1>3, <1>4, <1>5 DEF Next

(* The inductive invariant holds in every reachable state.                 *)
THEOREM Niezmiennik == Spec => []Inw
<1>1. QED
  BY InitInw, KrokInw, PTL DEF Spec

(* The process table, the CPU state and the locals of the loader keep      *)
(* their types.                                                            *)
THEOREM PoprawnoscTypow == Spec => []TypeOK
<1>1. Inw => TypeOK
  BY DEF Inw
<1>2. QED
  BY Niezmiennik, <1>1, PTL

(* CR3, TSS.rsp0, the SYSCALL stack and the stack in use always belong to  *)
(* aktualny_pid, a switch rolled back by PrzelaczKontekst included.        *)
THEOREM KontekstZgodny == Spec => []ZgodnoscKontekstu
<1>1. Inw => ZgodnoscKontekstu
  BY DEF Inw
<1>2. QED
  BY Niezmiennik, <1>1, PTL

(* No PML4 and no Ring 0 stack is shared, leaked or freed twice, on any    *)
(* path of the loader, of the exit and of the cleanup.                     *)
THEOREM JedenWlasciciel == Spec => []ZasobyMajaJednegoWlasciciela
<1>1. Inw => ZasobyMajaJednegoWlasciciela
  BY DEF Inw
<1>2. QED
  BY Niezmiennik, <1>1, PTL

(* Every reserved slot belongs to the loader that is at work, so no error  *)
(* path leaves a reservation behind.                                       *)
THEOREM RezerwacjaPilnowana == Spec => []RezerwacjaMaWlasciciela
<1>1. Inw => RezerwacjaMaWlasciciela
  BY DEF Inw, InwLoadera, InwSlotu, RezerwacjaMaWlasciciela
<1>2. QED
  BY Niezmiennik, <1>1, PTL

(* Only the cleanup and a failing loader free anything, and neither frees  *)
(* what the CPU uses.                                                      *)
LEMMA KrokZostawiaUzywane == Inw /\ Next => ZostawiaUzywane
<1> SUFFICES ASSUME Inw, Next PROVE ZostawiaUzywane
  OBVIOUS
<1>1. CASE stosy_zywe \subseteq stosy_zywe' /\ przestrzenie_zywe \subseteq przestrzenie_zywe'
  BY <1>1 DEF ZostawiaUzywane
<1>2. CASE Niepowodzenie /\ krok \in KrokiLoadera
  <2>1. /\ stosy_zywe' = stosy_zywe \ {nowy_stos}
        /\ przestrzenie_zywe' = przestrzenie_zywe \ {nowa_przestrzen}
    BY <1>2 DEF Niepowodzenie
  <2>2. stos[aktualny_pid] # nowy_stos /\ przestrzen[aktualny_pid] # nowa_przestrzen
    BY BiezacyMaZasoby DEF Inw, TypeOK, ZasobyMajaJednegoWlasciciela
  <2>3. cr3 = przestrzen[aktualny_pid]
    BY DEF Inw, ZgodnoscKontekstu
  <2>4. QED
    BY <2>1, <2>2, <2>3, RamkaNaStosieBiezacego DEF ZostawiaUzywane
<1>3. CASE PrzerwanieZegara /\ MoznaPrzelaczyc
  <2>1. PICK stan1 : posprzataj_zakonczone_procesy(stan1)
    BY <1>3, Zenon DEF PrzerwanieZegara, PrzelaczKontekst
  <2>2. /\ stosy_zywe' = stosy_zywe \ { stos[p] : p \in Sprzatane }
        /\ przestrzenie_zywe' = przestrzenie_zywe \ { przestrzen[p] : p \in Sprzatane }
    BY <2>1, TablicaPoSprzataniu
  <2>3. \A p \in Sprzatane : stos[p] # stos[aktualny_pid] /\ przestrzen[p] # cr3
    BY SprzataneFakty
  <2>4. QED
    BY <2>2, <2>3, RamkaNaStosieBiezacego DEF ZostawiaUzywane
<1>4. ASSUME PrzerwanieZegara, ~ MoznaPrzelaczyc
      PROVE  stosy_zywe' = stosy_zywe /\ przestrzenie_zywe' = przestrzenie_zywe
  BY <1>4, Zenon DEF PrzerwanieZegara, pamiec
<1>5. ASSUME KrokLoadera, ~ Niepowodzenie
      PROVE  stosy_zywe \subseteq stosy_zywe' /\ przestrzenie_zywe \subseteq przestrzenie_zywe'
  BY <1>5 DEF KrokLoadera, WczytajPlik, ZaalokujStos, UtworzPrzestrzen, ZmapujIOpublikuj, pamiec
<1>6. ASSUME \/ PrzerwanieKlawiatury \/ ZdarzenieWejscia \/ NowySyscall \/ KrokPid0
             \/ scheduler_czekaj_na_zdarzenie \/ Zakoncz
      PROVE  stosy_zywe' = stosy_zywe /\ przestrzenie_zywe' = przestrzenie_zywe
  BY <1>6 DEF PrzerwanieKlawiatury, ZdarzenieWejscia, NowySyscall, KrokPid0,
       scheduler_czekaj_na_zdarzenie, Zakoncz, zakoncz_aktualny_proces, PobierzZdarzenie,
       scheduler_pobierz_klawisz_lub_zablokuj, RozeslijZdarzenie, WejdzWZakonczenie,
       UruchomProgram, zarezerwuj_slot_procesu, UsbBajt, UsbCzytajStan, UsbZapiszGotowy, pamiec
<1>7. KrokLoadera => krok \in KrokiLoadera
  BY DEF KrokLoadera, WczytajPlik, ZaalokujStos, UtworzPrzestrzen, ZmapujIOpublikuj, KrokiLoadera
<1>8. QED
  BY <1>1, <1>2, <1>3, <1>4, <1>5, <1>6, <1>7 DEF Next, Przerwanie, DalejSyscall

(* No step frees the stack it runs on or the PML4 in CR3.                  *)
THEOREM UzywaneNieZwalniane == Spec => NieZwalniaUzywanych
<1>1. Inw /\ [Next]_vars => [ZostawiaUzywane]_vars
  BY KrokZostawiaUzywane
<1>2. QED
  BY Niezmiennik, <1>1, PTL DEF Spec, NieZwalniaUzywanych

(* Events are posted with interrupts off, and BWS 38 looks at its queue    *)
(* again, with interrupts off, before it blocks.                           *)
LEMMA KolejkaCzekajacegoPusta ==
  ASSUME Inw, BezZgubionegoZdarzenia, NEW C, NEW odrzucone \in SUBSET PelneKolejki(C),
         DluzszeKolejki(C), NEW p \in PidyUzytkownika,
         PoZdarzeniach(C, odrzucone)[p] = "ZABL_ZDARZENIE"
  PROVE  stan[p] = "ZABL_ZDARZENIE" /\ dlugosc'[p] = 0
<1>1. p \in Pidy /\ stan[p] = "ZABL_ZDARZENIE" /\ p \notin C \ odrzucone
  BY DEF PoZdarzeniach
<1>2. dlugosc[p] = 0
  BY <1>1 DEF BezZgubionegoZdarzenia
<1>3. p \notin odrzucone
  BY <1>2, PlanistaZalozenia DEF PlanistaZalozenia, PelneKolejki
<1>4. QED
  BY <1>1, <1>2, <1>3 DEF DluzszeKolejki

LEMMA KrokBezZgubionego ==
  Inw /\ BezZgubionegoZdarzenia /\ [Next]_vars => BezZgubionegoZdarzenia'
<1> SUFFICES ASSUME Inw, BezZgubionegoZdarzenia, [Next]_vars, NEW p \in PidyUzytkownika,
                    stan'[p] = "ZABL_ZDARZENIE"
             PROVE  dlugosc'[p] = 0
  BY DEF BezZgubionegoZdarzenia
<1>a. /\ p \in Pidy /\ stan \in [Pidy -> Stany] /\ aktualny_pid \in Pidy
      /\ dlugosc \in [PidyUzytkownika -> 0 .. MAKS_ZDARZEN]
  BY DEF Inw, TypeOK
<1>b. stan[p] = "ZABL_ZDARZENIE" => dlugosc[p] = 0
  BY DEF BezZgubionegoZdarzenia
<1>1. CASE PrzerwanieZegara
  <2>1. PICK C \in SUBSET Zywe : \E odrzucone \in SUBSET PelneKolejki(C) :
          /\ DluzszeKolejki(C)
          /\ \/ posprzataj_zakonczone_procesy(PoZdarzeniach(C, odrzucone))
             \/ stan' = PoZdarzeniach(C, odrzucone)
    BY <1>1, Zenon DEF PrzerwanieZegara, PrzelaczKontekst
  <2>2. PICK odrzucone \in SUBSET PelneKolejki(C) :
          /\ DluzszeKolejki(C)
          /\ \/ posprzataj_zakonczone_procesy(PoZdarzeniach(C, odrzucone))
             \/ stan' = PoZdarzeniach(C, odrzucone)
    BY <2>1
  <2>3. PoZdarzeniach(C, odrzucone)[p] = "ZABL_ZDARZENIE"
    <3>1. CASE stan' = PoZdarzeniach(C, odrzucone)
      BY <3>1
    <3>2. CASE posprzataj_zakonczone_procesy(PoZdarzeniach(C, odrzucone))
      <4>1. PICK stan1 : stan1 = PoZdarzeniach(C, odrzucone)
        OBVIOUS
      <4>2. stan'[p] \in {"PUSTY", stan1[p]}
        BY <1>a, <3>2, <4>1 DEF posprzataj_zakonczone_procesy
      <4>3. QED
        BY <4>1, <4>2
    <3>3. QED
      BY <2>2, <3>1, <3>2
  <2>4. QED
    BY <2>2, <2>3, KolejkaCzekajacegoPusta
<1>2. CASE ZdarzenieWejscia \/ RozeslijZdarzenie \/ WejdzWZakonczenie
  <2>1. PICK C : \E odrzucone \in SUBSET PelneKolejki(C) :
          DluzszeKolejki(C) /\ stan' = PoZdarzeniach(C, odrzucone)
    BY <1>2, Zenon DEF ZdarzenieWejscia, RozeslijZdarzenie, WejdzWZakonczenie
  <2>2. PICK odrzucone \in SUBSET PelneKolejki(C) :
          DluzszeKolejki(C) /\ stan' = PoZdarzeniach(C, odrzucone)
    BY <2>1
  <2>3. QED
    BY <2>2, KolejkaCzekajacegoPusta
<1>3. CASE PobierzZdarzenie
  <2>1. stan[p] = "ZABL_ZDARZENIE"
    BY <1>3 DEF PobierzZdarzenie, tablica
  <2>2. \/ dlugosc' = dlugosc
        \/ /\ dlugosc[aktualny_pid] > 0
           /\ dlugosc' = [dlugosc EXCEPT ![aktualny_pid] = @ - 1]
    BY <1>3 DEF PobierzZdarzenie
  <2>3. dlugosc[p] = 0
    BY <1>b, <2>1
  <2>4. CASE dlugosc' = dlugosc
    BY <2>3, <2>4
  <2>5. CASE /\ dlugosc[aktualny_pid] > 0
             /\ dlugosc' = [dlugosc EXCEPT ![aktualny_pid] = @ - 1]
    <3>1. p # aktualny_pid
      BY <2>3, <2>5
    <3>2. QED
      BY <1>a, <2>3, <2>5, <3>1
  <2>6. QED
    BY <2>2, <2>4, <2>5
<1>4. CASE scheduler_czekaj_na_zdarzenie
  BY <1>4, <1>a, <1>b DEF scheduler_czekaj_na_zdarzenie, kolejki
<1>5. CASE Zakoncz
  <2>1. /\ dlugosc' = [dlugosc EXCEPT ![aktualny_pid] = 0]
        /\ stan' = [stan EXCEPT ![aktualny_pid] = "KONCZACY"]
    BY <1>5 DEF Zakoncz, zakoncz_aktualny_proces
  <2>2. p # aktualny_pid
    BY <1>a, <2>1
  <2>3. dlugosc'[p] = dlugosc[p] /\ stan'[p] = stan[p]
    BY <1>a, <2>1, <2>2
  <2>4. QED
    BY <1>b, <2>3
<1>6. CASE PrzerwanieKlawiatury
  <2>1. dlugosc' = dlugosc /\ stan'[p] \in {"GOTOWY", stan[p]}
    BY <1>6, <1>a DEF PrzerwanieKlawiatury, PoKlawiaturze
  <2>2. QED
    BY <1>a, <1>b, <2>1
<1>7. CASE scheduler_pobierz_klawisz_lub_zablokuj
  <2>1. dlugosc' = dlugosc /\ stan'[p] \in {"ZABL_KLAWIATURA", stan[p]}
    BY <1>7, <1>a DEF scheduler_pobierz_klawisz_lub_zablokuj
  <2>2. QED
    BY <1>a, <1>b, <2>1
<1>8. CASE KrokPid0
  <2>1. dlugosc' = dlugosc /\ (stan' = stan \/ stan' = [stan EXCEPT ![usb_pid] = "GOTOWY"])
    BY <1>8 DEF KrokPid0, UsbBajt, UsbCzytajStan, UsbZapiszGotowy, tablica, kolejki
  <2>2. QED
    BY <1>a, <1>b, <2>1
<1>9. CASE KrokLoadera \/ UruchomProgram
  <2>1. /\ dlugosc' = dlugosc
        /\ \/ stan' = stan
           \/ \E q \in Pidy, s \in {"PUSTY", "GOTOWY", "ZABLOKOWANY"} : stan' = [stan EXCEPT ![q] = s]
    BY <1>9 DEF KrokLoadera, WczytajPlik, ZaalokujStos, UtworzPrzestrzen, ZmapujIOpublikuj,
         Niepowodzenie, zwolnij_rezerwacje_procesu, UruchomProgram, zarezerwuj_slot_procesu,
         tablica, kolejki, Inw, TypeOK
  <2>2. QED
    BY <1>a, <1>b, <2>1
<1>10. CASE UNCHANGED vars
  BY <1>10, <1>b DEF vars, tablica, kolejki
<1>11. QED
  BY <1>1, <1>2, <1>3, <1>4, <1>5, <1>6, <1>7, <1>8, <1>9, <1>10
  DEF Next, Przerwanie, DalejSyscall, NowySyscall

(* No wake-up is lost between the empty queue BWS 38 saw and its blocking. *)
THEOREM ZdarzenieNieGinie == Spec => []BezZgubionegoZdarzenia
<1>1. Init => BezZgubionegoZdarzenia
  BY DEF Init, StanPoczatkowy, BezZgubionegoZdarzenia
<1>2. QED
  BY Niezmiennik, KrokBezZgubionego, <1>1, PTL DEF Spec

-----------------------------------------------------------------------------
(* The keyboard.  PID 0 wakes the slots in the order of their PIDs, so a   *)
(* process that waits while there are bytes is one it has yet to reach.    *)

LEMMA DalejUsbFakt ==
  ASSUME Inw, NEW p \in PidyUzytkownika, usb_pid \in 1 .. p, p # usb_pid
  PROVE  DalejUsb \in 1 .. p
<1>1. usb_pid \in Int /\ usb_pid >= 1 /\ usb_pid + 1 <= p /\ p <= MAKS_PROCESOW - 1
  BY PlanistaZalozenia DEF PlanistaZalozenia
<1>2. usb_pid + 1 \in Nat /\ usb_pid + 1 < MAKS_PROCESOW /\ MAKS_PROCESOW \in Nat
  BY <1>1, PlanistaZalozenia DEF PlanistaZalozenia
<1>3. (usb_pid + 1) % MAKS_PROCESOW = usb_pid + 1
  BY <1>2
<1>4. QED
  BY <1>1, <1>3 DEF DalejUsb

LEMMA KrokBezZgubionegoKlawisza ==
  Inw /\ BezZgubionegoKlawisza /\ [Next]_vars => BezZgubionegoKlawisza'
<1> SUFFICES ASSUME Inw, BezZgubionegoKlawisza, [Next]_vars, NEW p \in PidyUzytkownika,
                    stan'[p] = "ZABL_KLAWIATURA", bufor' > 0
             PROVE  usb_pid' \in 1 .. p
  BY DEF BezZgubionegoKlawisza
<1>a. /\ p \in Pidy /\ stan \in [Pidy -> Stany] /\ aktualny_pid \in Pidy
      /\ bufor \in Nat /\ usb_pid \in Pidy
  BY PlanistaZalozenia DEF Inw, TypeOK, PlanistaZalozenia
<1>b. stan[p] = "ZABL_KLAWIATURA" /\ bufor > 0 => usb_pid \in 1 .. p
  BY DEF BezZgubionegoKlawisza
<1>c. ASSUME stan[p] = "ZABL_KLAWIATURA", bufor > 0, usb_pid' = usb_pid
      PROVE  usb_pid' \in 1 .. p
  BY <1>b, <1>c
<1>1. CASE PrzerwanieZegara
  <2>1. bufor' = bufor /\ usb_pid' = usb_pid
    BY <1>1, Zenon DEF PrzerwanieZegara, usb
  <2>2. PICK C : \E odrzucone :
          \/ posprzataj_zakonczone_procesy(PoZdarzeniach(C, odrzucone))
          \/ stan' = PoZdarzeniach(C, odrzucone)
    BY <1>1, Zenon DEF PrzerwanieZegara, PrzelaczKontekst
  <2>3. PICK odrzucone :
          \/ posprzataj_zakonczone_procesy(PoZdarzeniach(C, odrzucone))
          \/ stan' = PoZdarzeniach(C, odrzucone)
    BY <2>2
  <2>4. PoZdarzeniach(C, odrzucone)[p] = "ZABL_KLAWIATURA"
    <3>1. CASE stan' = PoZdarzeniach(C, odrzucone)
      BY <3>1
    <3>2. CASE posprzataj_zakonczone_procesy(PoZdarzeniach(C, odrzucone))
      <4>1. PICK stan1 : stan1 = PoZdarzeniach(C, odrzucone)
        OBVIOUS
      <4>2. stan'[p] \in {"PUSTY", stan1[p]}
        BY <1>a, <3>2, <4>1 DEF posprzataj_zakonczone_procesy
      <4>3. QED
        BY <4>1, <4>2
    <3>3. QED
      BY <2>3, <3>1, <3>2
  <2>5. stan[p] = "ZABL_KLAWIATURA"
    BY <1>a, <2>4 DEF PoZdarzeniach
  <2>6. QED
    BY <1>c, <2>1, <2>5
<1>2. CASE ZdarzenieWejscia \/ RozeslijZdarzenie \/ WejdzWZakonczenie
  <2>1. PICK C : \E odrzucone : stan' = PoZdarzeniach(C, odrzucone)
    BY <1>2, Zenon DEF ZdarzenieWejscia, RozeslijZdarzenie, WejdzWZakonczenie
  <2>2. stan[p] = "ZABL_KLAWIATURA"
    BY <1>a, <2>1 DEF PoZdarzeniach
  <2>3. bufor' = bufor /\ usb_pid' = usb_pid
    BY <1>2 DEF ZdarzenieWejscia, RozeslijZdarzenie, WejdzWZakonczenie, usb
  <2>4. QED
    BY <1>c, <2>2, <2>3
<1>3. CASE PobierzZdarzenie
  BY <1>3, <1>c DEF PobierzZdarzenie, tablica, usb
<1>4. CASE scheduler_czekaj_na_zdarzenie
  <2>1. stan[p] = "ZABL_KLAWIATURA"
    BY <1>4, <1>a DEF scheduler_czekaj_na_zdarzenie
  <2>2. QED
    BY <1>4, <1>c, <2>1 DEF scheduler_czekaj_na_zdarzenie, kolejki, usb
<1>5. CASE Zakoncz
  <2>1. stan[p] = "ZABL_KLAWIATURA"
    BY <1>5, <1>a DEF Zakoncz, zakoncz_aktualny_proces
  <2>2. QED
    BY <1>5, <1>c, <2>1 DEF Zakoncz, zakoncz_aktualny_proces, usb
<1>6. CASE PrzerwanieKlawiatury
  <2>1. stan' = stan /\ bufor' = bufor /\ usb_pid' = usb_pid
    BY <1>6, <1>a DEF PrzerwanieKlawiatury, PoKlawiaturze, usb
  <2>2. QED
    BY <1>c, <2>1
<1>7. CASE scheduler_pobierz_klawisz_lub_zablokuj
  <2>1. bufor > 0 /\ stan' = stan /\ usb_pid' = usb_pid
    BY <1>7, <1>a DEF scheduler_pobierz_klawisz_lub_zablokuj, usb
  <2>2. QED
    BY <1>c, <2>1
<1>8. CASE UsbBajt
  BY <1>8 DEF UsbBajt
<1>9. CASE UsbCzytajStan
  <2>1. bufor' = bufor /\ stan' = stan
    BY <1>9 DEF UsbCzytajStan, kolejki, tablica
  <2>2. usb_pid \in 1 .. p
    BY <1>b, <2>1
  <2>3. CASE stan[usb_pid] = "ZABL_KLAWIATURA"
    BY <1>9, <2>2, <2>3 DEF UsbCzytajStan
  <2>4. CASE stan[usb_pid] # "ZABL_KLAWIATURA"
    <3>1. p # usb_pid /\ usb_pid' = DalejUsb
      BY <1>9, <2>1, <2>4 DEF UsbCzytajStan
    <3>2. QED
      BY <2>2, <3>1, DalejUsbFakt
  <2>5. QED
    BY <2>3, <2>4
<1>10. CASE UsbZapiszGotowy
  <2>1. bufor' = bufor /\ stan' = [stan EXCEPT ![usb_pid] = "GOTOWY"] /\ usb_pid' = DalejUsb
    BY <1>10 DEF UsbZapiszGotowy, kolejki
  <2>2. p # usb_pid /\ stan[p] = "ZABL_KLAWIATURA"
    BY <1>a, <2>1
  <2>3. QED
    BY <1>b, <2>1, <2>2, DalejUsbFakt
<1>11. CASE KrokLoadera \/ UruchomProgram
  <2>1. /\ bufor' = bufor /\ usb_pid' = usb_pid
        /\ \/ stan' = stan
           \/ \E q \in Pidy, s \in {"PUSTY", "GOTOWY", "ZABLOKOWANY"} : stan' = [stan EXCEPT ![q] = s]
    BY <1>11 DEF KrokLoadera, WczytajPlik, ZaalokujStos, UtworzPrzestrzen, ZmapujIOpublikuj,
         Niepowodzenie, zwolnij_rezerwacje_procesu, UruchomProgram, zarezerwuj_slot_procesu,
         tablica, kolejki, usb, Inw, TypeOK
  <2>2. stan[p] = "ZABL_KLAWIATURA"
    BY <1>a, <2>1
  <2>3. QED
    BY <1>c, <2>1, <2>2
<1>12. CASE UNCHANGED vars
  BY <1>12, <1>c DEF vars, tablica, kolejki, usb
<1>13. QED
  BY <1>1, <1>2, <1>3, <1>4, <1>5, <1>6, <1>7, <1>8, <1>9, <1>10, <1>11, <1>12
  DEF Next, Przerwanie, DalejSyscall, NowySyscall, KrokPid0

(* No key is lost to a process that blocks on the keyboard: with bytes in  *)
(* the buffer it is woken at once, or PID 0 is on its way to its slot,     *)
(* although the walk of scheduler_wybudz_klawiature runs with interrupts   *)
(* enabled and processes block behind and in front of it (scheduler.cpp    *)
(* 828-842).                                                               *)
THEOREM KlawiszNieGinie == Spec => []BezZgubionegoKlawisza
<1>1. Init => BezZgubionegoKlawisza
  BY DEF Init, StanPoczatkowy, BezZgubionegoKlawisza
<1>2. QED
  BY Niezmiennik, KrokBezZgubionegoKlawisza, <1>1, PTL DEF Spec

-----------------------------------------------------------------------------
(* One instance of a program.  JednaInstancja leaves out slots that are    *)
(* ending, and a USB keyboard may mark such a slot as ready again.  It can *)
(* do so only if PID 0 runs right after the process that ended: until then *)
(* its path is still its own.                                              *)

Liczy(p) ==
  \/ stan[p] \notin {"PUSTY", "KONCZACY"}
  \/ stan[p] = "KONCZACY" /\ aktualny_pid \in {0, p}

InwSciezek ==
  /\ \A p \in PidyUzytkownika : /\ stan[p] = "PUSTY" => sciezka[p] = BRAK
                                /\ stan[p] = "KONCZACY" => oczekuje[p]
  /\ \A p, q \in PidyUzytkownika :
       p # q /\ sciezka[p] # BRAK /\ Liczy(p) /\ Liczy(q) => sciezka[p] # sciezka[q]

(* A step that starts no program keeps the paths apart, if a slot counts   *)
(* after it only when it did before.                                       *)
LEMMA BezNowychSciezek ==
  ASSUME InwSciezek,
         \A p \in PidyUzytkownika :
           /\ sciezka'[p] \in {BRAK, sciezka[p]}
           /\ stan'[p] = "PUSTY" => sciezka'[p] = BRAK
           /\ stan'[p] = "KONCZACY" => oczekuje'[p]
           /\ Liczy(p)' /\ sciezka'[p] # BRAK => Liczy(p)
  PROVE  InwSciezek'
<1>1. ASSUME NEW p \in PidyUzytkownika, NEW q \in PidyUzytkownika, p # q,
             sciezka'[p] # BRAK, Liczy(p)', Liczy(q)', sciezka'[p] = sciezka'[q]
      PROVE  FALSE
  <2>1. Liczy(p) /\ Liczy(q) /\ sciezka[p] = sciezka'[p] /\ sciezka[q] = sciezka'[q]
    BY <1>1
  <2>2. QED
    BY <1>1, <2>1 DEF InwSciezek
<1>2. QED
  BY <1>1 DEF InwSciezek

(* The common case: nothing but states of live processes changes.          *)
LEMMA ZywiPozostaja ==
  ASSUME InwSciezek, sciezka' = sciezka, aktualny_pid' = aktualny_pid,
         \A p \in PidyUzytkownika :
           \/ stan'[p] = stan[p] /\ (oczekuje[p] => oczekuje'[p])
           \/ stan[p] \notin {"PUSTY", "KONCZACY"} /\ stan'[p] \notin {"PUSTY", "KONCZACY"}
  PROVE  InwSciezek'
<1>1. ASSUME NEW p \in PidyUzytkownika
      PROVE  /\ sciezka'[p] \in {BRAK, sciezka[p]}
             /\ stan'[p] = "PUSTY" => sciezka'[p] = BRAK
             /\ stan'[p] = "KONCZACY" => oczekuje'[p]
             /\ Liczy(p)' /\ sciezka'[p] # BRAK => Liczy(p)
  <2>1. CASE stan'[p] = stan[p] /\ (oczekuje[p] => oczekuje'[p])
    BY <2>1 DEF InwSciezek, Liczy
  <2>2. CASE stan[p] \notin {"PUSTY", "KONCZACY"} /\ stan'[p] \notin {"PUSTY", "KONCZACY"}
    BY <2>2 DEF InwSciezek, Liczy
  <2>3. QED
    BY <2>1, <2>2
<1>2. QED
  BY <1>1, BezNowychSciezek

LEMMA PoZdarzeniachZywi ==
  ASSUME Inw, NEW C, NEW odrzucone, NEW p \in PidyUzytkownika
  PROVE  \/ PoZdarzeniach(C, odrzucone)[p] = stan[p]
         \/ stan[p] = "ZABL_ZDARZENIE" /\ PoZdarzeniach(C, odrzucone)[p] = "GOTOWY"
BY DEF PoZdarzeniach

(* The tick: what is not cleaned up and ends is the process that ran.      *)
LEMMA SciezkiPoPrzelaczeniu ==
  ASSUME Inw, InwSciezek, NEW C, NEW odrzucone, PrzelaczKontekst(PoZdarzeniach(C, odrzucone))
  PROVE  InwSciezek'
<1>1. PICK stan1 : stan1 = PoZdarzeniach(C, odrzucone)
  OBVIOUS
<1>2. posprzataj_zakonczone_procesy(stan1)
  BY <1>1 DEF PrzelaczKontekst
<1>3. ASSUME NEW p \in PidyUzytkownika
      PROVE  /\ sciezka'[p] \in {BRAK, sciezka[p]}
             /\ stan'[p] = "PUSTY" => sciezka'[p] = BRAK
             /\ stan'[p] = "KONCZACY" => oczekuje'[p]
             /\ Liczy(p)' /\ sciezka'[p] # BRAK => Liczy(p)
  <2>1. p \in Pidy
    OBVIOUS
  <2>2. CASE p \in Sprzatane
    <3>1. stan'[p] = "PUSTY" /\ sciezka'[p] = BRAK
      BY <1>2, <2>1, <2>2 DEF posprzataj_zakonczone_procesy
    <3>2. QED
      BY <3>1
  <2>3. CASE p \notin Sprzatane
    <3>1. stan'[p] = stan1[p] /\ sciezka'[p] = sciezka[p] /\ (oczekuje'[p] <=> oczekuje[p])
      BY <1>2, <2>1, <2>3 DEF posprzataj_zakonczone_procesy
    <3>2. \/ stan1[p] = stan[p]
          \/ stan[p] = "ZABL_ZDARZENIE" /\ stan1[p] = "GOTOWY"
      BY <1>1, PoZdarzeniachZywi
    <3>3. ASSUME stan[p] = "KONCZACY" PROVE oczekuje[p] /\ p = aktualny_pid
      BY <2>3, <3>3 DEF InwSciezek, Sprzatane
    <3>4. stan'[p] = "PUSTY" => sciezka'[p] = BRAK
      BY <3>1, <3>2 DEF InwSciezek
    <3>5. Liczy(p)' => Liczy(p)
      BY <3>1, <3>2, <3>3 DEF Liczy
    <3>6. QED
      BY <3>1, <3>2, <3>3, <3>4, <3>5
  <2>4. QED
    BY <2>2, <2>3
<1>4. QED
  BY <1>3, BezNowychSciezek

(* The loader reserves a slot for a path that no slot which counts has:    *)
(* the caller has not ended, so a slot that is ending does not count.      *)
LEMMA SciezkiPoRezerwacji == Inw /\ InwSciezek /\ UruchomProgram => InwSciezek'
<1> SUFFICES ASSUME Inw, InwSciezek, UruchomProgram PROVE InwSciezek'
  OBVIOUS
<1>1. PICK s \in Sciezki : zarezerwuj_slot_procesu(s)
  BY DEF UruchomProgram
<1>2. WRing3 /\ aktualny_pid' = aktualny_pid /\ oczekuje' = oczekuje
  BY <1>1 DEF UruchomProgram, zarezerwuj_slot_procesu, zwolnienia
<1>a. stan \in [Pidy -> Stany] /\ sciezka \in [Pidy -> BrakLub(Sciezki)]
  BY DEF Inw, TypeOK
<1>3. CASE UNCHANGED tablica
  <2>1. sciezka' = sciezka /\ stan' = stan
    BY <1>3 DEF tablica
  <2>2. QED
    BY <1>2, <2>1, ZywiPozostaja
<1>4. CASE ~ UNCHANGED tablica
  <2>1. /\ ~ sciezka_juz_zarezerwowana(s)
        /\ \E p \in PidyUzytkownika :
             /\ PierwszyPusty(p)
             /\ stan' = [stan EXCEPT ![p] = "ZABLOKOWANY"]
             /\ sciezka' = [sciezka EXCEPT ![p] = s]
    BY <1>1, <1>4 DEF zarezerwuj_slot_procesu
  <2>2. PICK n \in PidyUzytkownika :
             /\ stan[n] = "PUSTY"
             /\ stan' = [stan EXCEPT ![n] = "ZABLOKOWANY"]
             /\ sciezka' = [sciezka EXCEPT ![n] = s]
    BY <2>1 DEF PierwszyPusty
  <2>3. stan'[n] = "ZABLOKOWANY" /\ sciezka'[n] = s
    BY <1>a, <2>2
  <2>4. ASSUME NEW p \in PidyUzytkownika, p # n
        PROVE  stan'[p] = stan[p] /\ sciezka'[p] = sciezka[p] /\ (Liczy(p)' => Liczy(p))
    BY <1>2, <1>a, <2>2, <2>4 DEF Liczy
  <2>5. ASSUME NEW p \in PidyUzytkownika, p # n, Liczy(p)' PROVE sciezka'[p] # s
    <3>1. stan[p] \notin {"PUSTY", "KONCZACY"}
      BY <1>2, <2>4, <2>5 DEF Liczy, WRing3
    <3>2. QED
      BY <2>1, <2>4, <2>5, <3>1 DEF sciezka_juz_zarezerwowana
  <2>6. ASSUME NEW p \in PidyUzytkownika, NEW q \in PidyUzytkownika, p # q,
               sciezka'[p] # BRAK, Liczy(p)', Liczy(q)'
        PROVE  sciezka'[p] # sciezka'[q]
    <3>1. CASE p = n
      BY <2>3, <2>5, <2>6, <3>1
    <3>2. CASE q = n
      BY <2>3, <2>5, <2>6, <3>2
    <3>3. CASE p # n /\ q # n
      <4>1. Liczy(p) /\ Liczy(q) /\ sciezka'[p] = sciezka[p] /\ sciezka'[q] = sciezka[q]
        BY <2>4, <2>6, <3>3
      <4>2. QED
        BY <2>6, <4>1 DEF InwSciezek
    <3>4. QED
      BY <3>1, <3>2, <3>3
  <2>7. ASSUME NEW p \in PidyUzytkownika
        PROVE  /\ stan'[p] = "PUSTY" => sciezka'[p] = BRAK
               /\ stan'[p] = "KONCZACY" => oczekuje'[p]
    BY <1>2, <2>3, <2>4 DEF InwSciezek
  <2>8. QED
    BY <2>6, <2>7 DEF InwSciezek
<1>5. QED
  BY <1>3, <1>4

LEMMA SciezkiPoLoaderze == Inw /\ InwSciezek /\ KrokLoadera => InwSciezek'
<1> SUFFICES ASSUME Inw, InwSciezek, KrokLoadera PROVE InwSciezek'
  OBVIOUS
<1>1. krok \in KrokiLoadera /\ aktualny_pid' = aktualny_pid /\ oczekuje' = oczekuje
  BY DEF KrokLoadera, WczytajPlik, ZaalokujStos, UtworzPrzestrzen, ZmapujIOpublikuj,
         KrokiLoadera, zwolnienia, cpu
<1>2. /\ nowy_pid \in PidyUzytkownika /\ stan[nowy_pid] = "ZABLOKOWANY"
      /\ stan \in [Pidy -> Stany] /\ sciezka \in [Pidy -> BrakLub(Sciezki)]
  BY <1>1 DEF Inw, InwLoadera, TypeOK
<1>3. CASE stan' = stan /\ sciezka' = sciezka
  BY <1>1, <1>3, ZywiPozostaja
<1>4. CASE stan' = [stan EXCEPT ![nowy_pid] = "GOTOWY"] /\ sciezka' = sciezka
  BY <1>1, <1>2, <1>4, ZywiPozostaja
<1>5. CASE zwolnij_rezerwacje_procesu
  <2>1. ASSUME NEW p \in PidyUzytkownika
        PROVE  /\ sciezka'[p] \in {BRAK, sciezka[p]}
               /\ stan'[p] = "PUSTY" => sciezka'[p] = BRAK
               /\ stan'[p] = "KONCZACY" => oczekuje'[p]
               /\ Liczy(p)' /\ sciezka'[p] # BRAK => Liczy(p)
    <3>1. CASE p = nowy_pid
      <4>1. stan'[p] = "PUSTY" /\ sciezka'[p] = BRAK
        BY <1>2, <1>5, <3>1 DEF zwolnij_rezerwacje_procesu
      <4>2. QED
        BY <4>1
    <3>2. CASE p # nowy_pid
      <4>1. stan'[p] = stan[p] /\ sciezka'[p] = sciezka[p]
        BY <1>2, <1>5, <3>2 DEF zwolnij_rezerwacje_procesu
      <4>2. QED
        BY <1>1, <4>1 DEF InwSciezek, Liczy
    <3>3. QED
      BY <3>1, <3>2
  <2>2. QED
    BY <2>1, BezNowychSciezek
<1>6. QED
  BY <1>3, <1>4, <1>5 DEF KrokLoadera, WczytajPlik, ZaalokujStos, UtworzPrzestrzen,
                          ZmapujIOpublikuj, Niepowodzenie, tablica

LEMMA KrokSciezek == Inw /\ InwSciezek /\ [Next]_vars => InwSciezek'
<1> SUFFICES ASSUME Inw, InwSciezek, [Next]_vars PROVE InwSciezek'
  OBVIOUS
<1>a. /\ stan \in [Pidy -> Stany] /\ aktualny_pid \in Pidy /\ usb_pid \in Pidy
      /\ oczekuje \in [Pidy -> BOOLEAN]
  BY DEF Inw, TypeOK
<1>1. CASE PrzerwanieZegara
  <2>1. PICK C : \E odrzucone :
          \/ PrzelaczKontekst(PoZdarzeniach(C, odrzucone))
          \/ /\ stan' = PoZdarzeniach(C, odrzucone)
             /\ UNCHANGED <<sciezka, zwolnienia, cpu>>
    BY <1>1, Zenon DEF PrzerwanieZegara
  <2>2. PICK odrzucone :
          \/ PrzelaczKontekst(PoZdarzeniach(C, odrzucone))
          \/ /\ stan' = PoZdarzeniach(C, odrzucone)
             /\ UNCHANGED <<sciezka, zwolnienia, cpu>>
    BY <2>1
  <2>3. CASE PrzelaczKontekst(PoZdarzeniach(C, odrzucone))
    BY <2>3, SciezkiPoPrzelaczeniu
  <2>4. CASE stan' = PoZdarzeniach(C, odrzucone) /\ UNCHANGED <<sciezka, zwolnienia, cpu>>
    <3>1. sciezka' = sciezka /\ aktualny_pid' = aktualny_pid /\ oczekuje' = oczekuje
      BY <2>4 DEF zwolnienia, cpu
    <3>2. \A p \in PidyUzytkownika :
            stan'[p] = stan[p] \/ (stan[p] = "ZABL_ZDARZENIE" /\ stan'[p] = "GOTOWY")
      BY <2>4, PoZdarzeniachZywi
    <3>3. QED
      BY <3>1, <3>2, ZywiPozostaja
  <2>5. QED
    BY <2>2, <2>3, <2>4
<1>2. CASE ZdarzenieWejscia \/ RozeslijZdarzenie \/ WejdzWZakonczenie
  <2>1. PICK C : \E odrzucone : stan' = PoZdarzeniach(C, odrzucone)
    BY <1>2, Zenon DEF ZdarzenieWejscia, RozeslijZdarzenie, WejdzWZakonczenie
  <2>2. \A p \in PidyUzytkownika :
          stan'[p] = stan[p] \/ (stan[p] = "ZABL_ZDARZENIE" /\ stan'[p] = "GOTOWY")
    BY <2>1, PoZdarzeniachZywi
  <2>3. sciezka' = sciezka /\ aktualny_pid' = aktualny_pid /\ oczekuje' = oczekuje
    BY <1>2 DEF ZdarzenieWejscia, RozeslijZdarzenie, WejdzWZakonczenie, zwolnienia, cpu
  <2>4. QED
    BY <2>2, <2>3, ZywiPozostaja
<1>3. CASE PobierzZdarzenie \/ UsbBajt \/ UsbCzytajStan \/ UNCHANGED vars
  <2>1. /\ sciezka' = sciezka /\ aktualny_pid' = aktualny_pid /\ oczekuje' = oczekuje
        /\ stan' = stan
    BY <1>3 DEF PobierzZdarzenie, UsbBajt, UsbCzytajStan, vars, tablica, zwolnienia, cpu
  <2>2. QED
    BY <2>1, ZywiPozostaja
<1>4. CASE \/ scheduler_czekaj_na_zdarzenie \/ PrzerwanieKlawiatury
           \/ scheduler_pobierz_klawisz_lub_zablokuj
  <2>1. sciezka' = sciezka /\ aktualny_pid' = aktualny_pid /\ oczekuje' = oczekuje
    BY <1>4 DEF scheduler_czekaj_na_zdarzenie, PrzerwanieKlawiatury,
         scheduler_pobierz_klawisz_lub_zablokuj, zwolnienia, cpu
  <2>2. ASSUME NEW p \in PidyUzytkownika
        PROVE  \/ stan'[p] = stan[p]
               \/ /\ stan[p] \notin {"PUSTY", "KONCZACY"}
                  /\ stan'[p] \notin {"PUSTY", "KONCZACY"}
    <3>a. p \in Pidy
      BY DEF PidyUzytkownika
    <3>1. CASE scheduler_czekaj_na_zdarzenie
      <4>1. stan' = [stan EXCEPT ![aktualny_pid] =
                      IF dlugosc[aktualny_pid] = 0 /\ @ = "GOTOWY" THEN "ZABL_ZDARZENIE" ELSE @]
        BY <3>1 DEF scheduler_czekaj_na_zdarzenie
      <4>2. QED
        BY <1>a, <3>a, <4>1
    <3>2. CASE PrzerwanieKlawiatury
      <4>1. stan' = stan \/ stan' = PoKlawiaturze
        BY <3>2 DEF PrzerwanieKlawiatury
      <4>2. QED
        BY <1>a, <3>a, <4>1 DEF PoKlawiaturze
    <3>3. CASE scheduler_pobierz_klawisz_lub_zablokuj
      <4>1. \/ stan' = stan
            \/ stan' = [stan EXCEPT ![aktualny_pid] =
                          IF @ = "GOTOWY" THEN "ZABL_KLAWIATURA" ELSE @]
        BY <3>3 DEF scheduler_pobierz_klawisz_lub_zablokuj
      <4>2. QED
        BY <1>a, <3>a, <4>1
    <3>4. QED
      BY <1>4, <3>1, <3>2, <3>3
  <2>3. QED
    BY <2>1, <2>2, ZywiPozostaja
<1>5. CASE Zakoncz
  <2>1. /\ sciezka' = sciezka /\ aktualny_pid' = aktualny_pid
        /\ stan' = [stan EXCEPT ![aktualny_pid] = "KONCZACY"]
        /\ oczekuje' = [oczekuje EXCEPT ![aktualny_pid] = TRUE]
    BY <1>5 DEF Zakoncz, zakoncz_aktualny_proces, cpu
  <2>2. ASSUME NEW p \in PidyUzytkownika
        PROVE  /\ stan'[p] = "PUSTY" => sciezka'[p] = BRAK
               /\ stan'[p] = "KONCZACY" => oczekuje'[p]
               /\ Liczy(p)' => Liczy(p)
    <3>1. CASE p = aktualny_pid
      <4>1. stan'[p] = "KONCZACY" /\ oczekuje'[p]
        BY <1>a, <2>1, <3>1
      <4>2. stan[p] # "PUSTY"
        BY <3>1 DEF Inw, ZgodnoscKontekstu
      <4>3. QED
        BY <3>1, <4>1, <4>2 DEF Liczy
    <3>2. CASE p # aktualny_pid
      <4>1. stan'[p] = stan[p] /\ (oczekuje'[p] <=> oczekuje[p])
        BY <1>a, <2>1, <3>2
      <4>2. QED
        BY <2>1, <4>1 DEF InwSciezek, Liczy
    <3>3. QED
      BY <3>1, <3>2
  <2>3. QED
    BY <2>1, <2>2, BezNowychSciezek
<1>6. CASE UsbZapiszGotowy
  <2>1. /\ sciezka' = sciezka /\ aktualny_pid = 0 /\ aktualny_pid' = 0 /\ oczekuje' = oczekuje
        /\ stan' = [stan EXCEPT ![usb_pid] = "GOTOWY"]
    BY <1>6 DEF UsbZapiszGotowy, WPid0, zwolnienia, cpu
  <2>2. ASSUME NEW p \in PidyUzytkownika
        PROVE  /\ stan'[p] = "PUSTY" => sciezka'[p] = BRAK
               /\ stan'[p] = "KONCZACY" => oczekuje'[p]
               /\ Liczy(p)' /\ sciezka'[p] # BRAK => Liczy(p)
    <3>1. CASE p = usb_pid
      <4>1. stan'[p] = "GOTOWY"
        BY <1>a, <2>1, <3>1
      <4>2. QED
        BY <2>1, <4>1 DEF InwSciezek, Liczy
    <3>2. CASE p # usb_pid
      <4>1. stan'[p] = stan[p]
        BY <1>a, <2>1, <3>2
      <4>2. QED
        BY <2>1, <4>1 DEF InwSciezek, Liczy
    <3>3. QED
      BY <3>1, <3>2
  <2>3. QED
    BY <2>1, <2>2, BezNowychSciezek
<1>7. CASE UruchomProgram
  BY <1>7, SciezkiPoRezerwacji
<1>8. CASE KrokLoadera
  BY <1>8, SciezkiPoLoaderze
<1>9. QED
  BY <1>1, <1>2, <1>3, <1>4, <1>5, <1>6, <1>7, <1>8
  DEF Next, Przerwanie, DalejSyscall, NowySyscall, KrokPid0

(* A program runs once: no two slots that are reserved or alive have the   *)
(* same path, although a slot that is ending does not count for the loader *)
(* and PID 0 may mark such a slot as ready again (loader.cpp 295-311 and   *)
(* 729-747).                                                               *)
THEOREM InstancjaJestJedna == Spec => []JednaInstancja
<1>1. Init => InwSciezek
  <2> SUFFICES ASSUME NEW a, NEW s, NEW sc, StanPoczatkowy(a, s, sc) PROVE InwSciezek
    BY DEF Init
  <2>1. ASSUME NEW p \in PidyUzytkownika, p # 1 PROVE stan[p] = "PUSTY" /\ sciezka[p] = BRAK
    BY <2>1 DEF StanPoczatkowy
  <2>2. stan[1] = "GOTOWY"
    BY PlanistaZalozenia DEF StanPoczatkowy, PlanistaZalozenia
  <2>3. QED
    BY <2>1, <2>2 DEF InwSciezek, Liczy
<1>2. InwSciezek => JednaInstancja
  BY DEF InwSciezek, JednaInstancja, Liczy
<1>3. QED
  BY Niezmiennik, KrokSciezek, <1>1, <1>2, PTL DEF Spec

-----------------------------------------------------------------------------
(* A ready process can be chosen.  Without a USB keyboard nobody writes    *)
(* GOTOWY into a slot that was read before a switch (the run jadro_usb     *)
(* shows what happens with one), and a process that is ready or blocked    *)
(* always has a saved frame.                                               *)

ZywyStan(st) == st \in {"GOTOWY"} \cup Zablokowane

InwGotowych == \A p \in PidyUzytkownika : ZywyStan(stan[p]) => kernel_rsp[p] # BRAK

(* The common case: frames stay where they are, and nobody new is alive.   *)
LEMMA RamkiZostaja ==
  ASSUME InwGotowych, kernel_rsp' = kernel_rsp,
         \A p \in PidyUzytkownika : ZywyStan(stan'[p]) => ZywyStan(stan[p])
  PROVE  InwGotowych'
  BY DEF InwGotowych

LEMMA GotowiPoPrzelaczeniu ==
  ASSUME Inw, InwGotowych, NEW C, NEW odrzucone, PrzelaczKontekst(PoZdarzeniach(C, odrzucone))
  PROVE  InwGotowych'
<1>1. PICK stan1 : stan1 = PoZdarzeniach(C, odrzucone)
  OBVIOUS
<1>2. posprzataj_zakonczone_procesy(stan1)
  BY <1>1 DEF PrzelaczKontekst
<1>3. ASSUME NEW p \in PidyUzytkownika, ZywyStan(stan'[p]) PROVE kernel_rsp'[p] # BRAK
  <2>1. p \in Pidy \ Sprzatane
    <3>1. stan'[p] # "PUSTY"
      BY <1>3 DEF ZywyStan, Zablokowane
    <3>2. \A q \in Sprzatane : stan'[q] = "PUSTY"
      BY <1>2, TablicaPoSprzataniu
    <3>3. QED
      BY <3>1, <3>2
  <2>2. stan'[p] = stan1[p] /\ kernel_rsp'[p] \in {kernel_rsp[p], stos[p]}
    BY <1>2, <2>1, TablicaPoSprzataniu
  <2>3. ZywyStan(stan[p])
    BY <1>1, <1>3, <2>2, PoZdarzeniachZywi DEF ZywyStan, Zablokowane
  <2>4. kernel_rsp[p] # BRAK /\ kernel_rsp[p] \in {BRAK, stos[p]}
    BY <2>3 DEF InwGotowych, Inw, InwSlotu
  <2>5. QED
    BY <2>2, <2>4
<1>4. QED
  BY <1>3 DEF InwGotowych

LEMMA GotowiPoLoaderze == Inw /\ InwGotowych /\ (UruchomProgram \/ KrokLoadera) => InwGotowych'
<1> SUFFICES ASSUME Inw, InwGotowych, UruchomProgram \/ KrokLoadera PROVE InwGotowych'
  OBVIOUS
<1>a. stan \in [Pidy -> Stany] /\ kernel_rsp \in [Pidy -> BrakLub(Stosy \cup {STOS_JADRA})]
  BY DEF Inw, TypeOK
(* One row n changes; if it is alive afterwards it has a frame.            *)
<1>b. ASSUME NEW n \in PidyUzytkownika, NEW st, NEW r,
             stan' = [stan EXCEPT ![n] = st], kernel_rsp' = [kernel_rsp EXCEPT ![n] = r],
             ZywyStan(st) => r # BRAK
      PROVE  InwGotowych'
  <2>1. stan'[n] = st /\ kernel_rsp'[n] = r
    BY <1>a, <1>b
  <2>2. \A p \in PidyUzytkownika : p # n => stan'[p] = stan[p] /\ kernel_rsp'[p] = kernel_rsp[p]
    BY <1>a, <1>b
  <2>3. QED
    BY <1>b, <2>1, <2>2 DEF InwGotowych
<1>1. CASE stan' = stan /\ kernel_rsp' = kernel_rsp
  BY <1>1, RamkiZostaja
<1>2. CASE \E n \in PidyUzytkownika : /\ stan' = [stan EXCEPT ![n] = "ZABLOKOWANY"]
                                      /\ kernel_rsp' = [kernel_rsp EXCEPT ![n] = BRAK]
  BY <1>b, <1>2 DEF ZywyStan, Zablokowane
<1>3. CASE KrokLoadera /\ zwolnij_rezerwacje_procesu
  <2>1. nowy_pid \in PidyUzytkownika
    BY <1>3 DEF Inw, InwLoadera, KrokLoadera, WczytajPlik, ZaalokujStos, UtworzPrzestrzen,
                ZmapujIOpublikuj, KrokiLoadera
  <2>2. QED
    BY <1>b, <1>3, <2>1 DEF zwolnij_rezerwacje_procesu, ZywyStan, Zablokowane
<1>4. CASE /\ krok = "mapuj"
           /\ stan' = [stan EXCEPT ![nowy_pid] = "GOTOWY"]
           /\ kernel_rsp' = [kernel_rsp EXCEPT ![nowy_pid] = nowy_stos]
  <2>1. nowy_pid \in PidyUzytkownika /\ nowy_stos # BRAK
    BY <1>4 DEF Inw, InwLoadera, KrokiLoadera
  <2>2. QED
    BY <1>b, <1>4, <2>1
<1>5. CASE UruchomProgram
  BY <1>1, <1>2, <1>5 DEF UruchomProgram, zarezerwuj_slot_procesu, tablica
<1>6. CASE KrokLoadera
  BY <1>1, <1>3, <1>4, <1>6 DEF KrokLoadera, WczytajPlik, ZaalokujStos, UtworzPrzestrzen,
                                ZmapujIOpublikuj, Niepowodzenie, tablica
<1>7. QED
  BY <1>5, <1>6

LEMMA KrokGotowych == ~ USB /\ Inw /\ InwGotowych /\ [Next]_vars => InwGotowych'
<1> SUFFICES ASSUME ~ USB, Inw, InwGotowych, [Next]_vars PROVE InwGotowych'
  OBVIOUS
<1>a. stan \in [Pidy -> Stany] /\ aktualny_pid \in Pidy
  BY DEF Inw, TypeOK
<1>1. CASE PrzerwanieZegara
  <2>1. PICK C : \E odrzucone :
          \/ PrzelaczKontekst(PoZdarzeniach(C, odrzucone))
          \/ stan' = PoZdarzeniach(C, odrzucone) /\ kernel_rsp' = kernel_rsp
    BY <1>1, Zenon DEF PrzerwanieZegara
  <2>2. PICK odrzucone :
          \/ PrzelaczKontekst(PoZdarzeniach(C, odrzucone))
          \/ stan' = PoZdarzeniach(C, odrzucone) /\ kernel_rsp' = kernel_rsp
    BY <2>1
  <2>3. CASE PrzelaczKontekst(PoZdarzeniach(C, odrzucone))
    BY <2>3, GotowiPoPrzelaczeniu
  <2>4. CASE stan' = PoZdarzeniach(C, odrzucone) /\ kernel_rsp' = kernel_rsp
    BY <2>4, RamkiZostaja, PoZdarzeniachZywi DEF ZywyStan, Zablokowane
  <2>5. QED
    BY <2>2, <2>3, <2>4
<1>2. CASE ZdarzenieWejscia \/ RozeslijZdarzenie \/ WejdzWZakonczenie
  <2>1. PICK C : \E odrzucone : stan' = PoZdarzeniach(C, odrzucone)
    BY <1>2, Zenon DEF ZdarzenieWejscia, RozeslijZdarzenie, WejdzWZakonczenie
  <2>2. kernel_rsp' = kernel_rsp
    BY <1>2 DEF ZdarzenieWejscia, RozeslijZdarzenie, WejdzWZakonczenie
  <2>3. QED
    BY <2>1, <2>2, RamkiZostaja, PoZdarzeniachZywi DEF ZywyStan, Zablokowane
<1>3. CASE PobierzZdarzenie \/ UNCHANGED vars
  BY <1>3, RamkiZostaja DEF PobierzZdarzenie, vars, tablica
<1>4. CASE \/ scheduler_czekaj_na_zdarzenie \/ PrzerwanieKlawiatury
           \/ scheduler_pobierz_klawisz_lub_zablokuj \/ Zakoncz
  <2>1. kernel_rsp' = kernel_rsp
    BY <1>4 DEF scheduler_czekaj_na_zdarzenie, PrzerwanieKlawiatury, Zakoncz,
                scheduler_pobierz_klawisz_lub_zablokuj, zakoncz_aktualny_proces
  <2>2. \/ stan' = stan \/ stan' = PoKlawiaturze
        \/ stan' = [stan EXCEPT ![aktualny_pid] = "KONCZACY"]
        \/ stan' = [stan EXCEPT ![aktualny_pid] = IF @ = "GOTOWY" THEN "ZABL_KLAWIATURA" ELSE @]
        \/ stan' = [stan EXCEPT ![aktualny_pid] =
                      IF dlugosc[aktualny_pid] = 0 /\ @ = "GOTOWY" THEN "ZABL_ZDARZENIE" ELSE @]
    BY <1>4 DEF scheduler_czekaj_na_zdarzenie, PrzerwanieKlawiatury, Zakoncz,
                scheduler_pobierz_klawisz_lub_zablokuj, zakoncz_aktualny_proces
  <2>3. ASSUME NEW p \in PidyUzytkownika, ZywyStan(stan'[p]) PROVE ZywyStan(stan[p])
    <3>1. p \in Pidy
      OBVIOUS
    <3>2. QED
      BY <1>a, <2>2, <2>3, <3>1 DEF PoKlawiaturze, ZywyStan, Zablokowane
  <2>4. QED
    BY <2>1, <2>3, RamkiZostaja
<1>5. CASE UruchomProgram \/ KrokLoadera
  BY <1>5, GotowiPoLoaderze
<1>6. CASE KrokPid0
  BY <1>6 DEF KrokPid0, UsbBajt, UsbCzytajStan, UsbZapiszGotowy, WPid0
<1>7. QED
  BY <1>1, <1>2, <1>3, <1>4, <1>5, <1>6 DEF Next, Przerwanie, DalejSyscall, NowySyscall

(* On a machine without a USB keyboard every process in state GOTOWY has   *)
(* all that znajdz_nastepny_proces asks for, as scheduler.h 69-70 says, so *)
(* the round-robin leaves nobody out.                                      *)
THEOREM GotowyJestWybieralny == ~ USB => (Spec => []GotowyMozeBycWybrany)
<1>1. Init => InwGotowych
  <2> SUFFICES ASSUME NEW a, NEW s \in Stosy, NEW sc, StanPoczatkowy(a, s, sc) PROVE InwGotowych
    BY DEF Init
  <2>1. ASSUME NEW p \in PidyUzytkownika, p # 1 PROVE stan[p] = "PUSTY"
    BY <2>1 DEF StanPoczatkowy
  <2>2. kernel_rsp[1] = s /\ s # BRAK
    BY PlanistaZalozenia DEF StanPoczatkowy, PlanistaZalozenia
  <2>3. QED
    BY <2>1, <2>2 DEF InwGotowych, ZywyStan, Zablokowane
<1>2. Inw /\ InwGotowych => GotowyMozeBycWybrany
  <2> SUFFICES ASSUME Inw, InwGotowych, NEW p \in PidyUzytkownika, stan[p] = "GOTOWY"
               PROVE  proces_moze_byc_uruchomiony(p)
    BY DEF GotowyMozeBycWybrany
  <2>1. kernel_rsp[p] # BRAK /\ InwSlotu(p)
    BY DEF Inw, InwGotowych, ZywyStan
  <2>2. kernel_rsp[p] = stos[p] /\ przestrzen[p] # BRAK /\ cr3_procesu[p] = przestrzen[p]
    BY <2>1 DEF InwSlotu
  <2>3. QED
    BY <2>1, <2>2 DEF proces_moze_byc_uruchomiony
<1>3. ASSUME ~ USB PROVE Spec => []GotowyMozeBycWybrany
  <2>1. Inw /\ InwGotowych /\ [Next]_vars => InwGotowych'
    BY <1>3, KrokGotowych
  <2>2. QED
    BY Niezmiennik, <1>1, <1>2, <2>1, PTL DEF Spec
<1>4. QED
  BY <1>3

=============================================================================
