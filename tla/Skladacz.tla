------------------------------ MODULE Skladacz ------------------------------
(***************************************************************************)
(* The compositor (skladacz_obrazu.cpp).  Processes create, move, hide,    *)
(* draw on and remove their layers in system calls; a tick inside one does *)
(* not switch (idt.cpp 556-604), so that PID 0 sees each as a single step. *)
(* PID 0 paints: it applies noted moves, takes the damaged rectangles,     *)
(* takes a snapshot of the layers, composes and presents, and can be       *)
(* preempted between any two of these.                                     *)
(*                                                                         *)
(* The screen is a row of cells and a rectangle an interval <<x, w>>.  The *)
(* pixels of a buffer are a version, redrawn by its process.  Left out:    *)
(* the cursor, the overlays and the popup, which are painted over the      *)
(* layers of a region; the guard against a second compositor (nothing      *)
(* calls skladacz_obrazu_zloz_klatke); the desktop layer, which never      *)
(* rises. The z_order of layers is the order they were last raised in.     *)
(***************************************************************************)
EXTENDS Integers, Sequences, FiniteSets, TLC
LOCAL INSTANCE SequencesExt
LOCAL INSTANCE FiniteSetsExt
LOCAL INSTANCE Functions

CONSTANTS LiczbaWarstw,              \* processes with a layer
          Szerokosc,                 \* the screen is 0..Szerokosc-1
          Pozycje, Szerokosci,       \* where layers are put, how wide they are
          SKLADACZ_MAKS_DIRTY_RECT,  \* also the length of the table of deferred buffers
          MAKS_PAMIEC_WARSTW,        \* in cells
          MaksOperacji               \* bound: system calls

VARIABLES warstwa,     \* warstwa[p]: bufor (0: none), x, szer, widoczna
          kolejnosc,   \* the processes in the z order of their layers
          oczekujacy,  \* oczekujacy_dirty[p], <<0, 0>> when there is none
          pending,     \* pending_geometry[p]
          przydzielone,   \* the buffers that are allocated
          tresc,       \* their pixels: 0 (cleared) or 1
          odroczone,   \* deferred[0..deferred_count-1]
          zajete,      \* zajete_bajty_warstw
          dirty,       \* dirty_rects[0..dirty_count-1]
          render_readers,
          pc, nr, wziete, praca, migawka,   \* PID 0 and its locals
          zwalniane,   \* also a local of PID 0: the deferred buffers it is freeing
          tlo, ekran,  \* the back buffer and the screen
          wyscig,      \* not in the code: a layer was moved or made while PID 0 held a
                       \* move of it that it had taken and not yet stored
          operacje

obraz   == <<tlo, ekran>>
malarz  == <<pc, nr, wziete, praca, migawka, zwalniane, render_readers, obraz>>
pamiec  == <<przydzielone, tresc, odroczone, zajete>>
okna    == <<warstwa, kolejnosc, oczekujacy>>
vars    == <<okna, pending, pamiec, dirty, malarz, wyscig, operacje>>

Pidy    == 1..LiczbaWarstw

Brak    == [bufor |-> 0, x |-> 0, szer |-> 0, widoczna |-> FALSE]
NicNie  == [jest |-> FALSE, x |-> 0, stary |-> 0, szer |-> 0]
NikogoNie == [pid |-> 0, ruch |-> NicNie]
Bufory  == 1..(2 * LiczbaWarstw + SKLADACZ_MAKS_DIRTY_RECT + 1)   \* never all in use
Komorki == 0..(Szerokosc - 1)
PULPIT  == <<0, 0>>
SMIECI  == 2
Pola(r) == {c \in Komorki : r[1] <= c /\ c < r[1] + r[2]}

-----------------------------------------------------------------------------
(* Damaged rectangles.                                                     *)
rect_clip(r) ==
    LET a == IF r[1] < 0 THEN 0 ELSE r[1]
        b == IF r[1] + r[2] > Szerokosc THEN Szerokosc ELSE r[1] + r[2]
    IN  <<a, b - a>>

rect_union(r, q) ==
    LET a == IF r[1] < q[1] THEN r[1] ELSE q[1]
        b == IF r[1] + r[2] > q[1] + q[2] THEN r[1] + r[2] ELSE q[1] + q[2]
    IN  <<a, b - a>>

rect_merge_ok(r, q) ==
    \/ r[1] <= q[1] + q[2] /\ q[1] <= r[1] + r[2]
    \/ rect_union(r, q)[2] <= r[2] + q[2] + (r[2] + q[2]) \div 2

(* One pass of the loop: the first rectangle that may be merged with r is  *)
(* merged into it, and the last one takes its place in the list.           *)
Scal(s) ==
    LET i == {k \in DOMAIN s.lista : rect_merge_ok(s.lista[k], s.r)}
        k == Min(i)
    IN  IF i = {} THEN s
        ELSE [r |-> rect_union(s.lista[k], s.r),
              lista |-> Front([s.lista EXCEPT ![k] = Last(s.lista)])]

oznacz_dirty_rect(lista, r) ==
    LET s[n \in 0..SKLADACZ_MAKS_DIRTY_RECT] ==
            IF n = 0 THEN [r |-> rect_clip(r), lista |-> lista] ELSE Scal(s[n - 1])
        k == s[SKLADACZ_MAKS_DIRTY_RECT]
    IN  IF rect_clip(r)[2] <= 0 THEN lista
        ELSE IF Len(k.lista) < SKLADACZ_MAKS_DIRTY_RECT THEN Append(k.lista, k.r)
        ELSE <<FoldLeft(rect_union, k.r, k.lista)>>

Rect(w) == <<w.x, w.szer>>

(* pobierz_warstwe finds the layer of p; it has a buffer when visible.     *)
Widoczna(p) == warstwa[p].widoczna

-----------------------------------------------------------------------------
(* Every process has a layer at the same place, the last one on top.       *)
Init ==
    LET szer == Min(Szerokosci)
        x    == Max(Pozycje)
    IN
    /\ warstwa = [p \in Pidy |-> [bufor |-> p, x |-> x, szer |-> szer, widoczna |-> TRUE]]
    /\ kolejnosc = [p \in Pidy |-> p] /\ oczekujacy = [p \in Pidy |-> <<0, 0>>]
    /\ pending = [p \in Pidy |-> NicNie]
    /\ przydzielone = Pidy /\ tresc = [b \in Bufory |-> 0]
    /\ odroczone = <<>> /\ zajete = szer * LiczbaWarstw
    /\ dirty = <<>> /\ render_readers = 0
    /\ pc = "wolny" /\ nr = 1 /\ wziete = NikogoNie /\ praca = <<>>
    /\ migawka = <<>> /\ zwalniane = <<>>
    /\ tlo = [c \in Komorki |-> IF c \in Pola(<<x, szer>>) THEN <<LiczbaWarstw, 0>> ELSE PULPIT]
    /\ ekran = tlo
    /\ wyscig = FALSE /\ operacje = 0

(* A system call of process p; zmienia: it sets the place of its layer.    *)
Wywolanie(p, zmienia) ==
    /\ operacje < MaksOperacji /\ operacje' = operacje + 1
    /\ wyscig' = (wyscig \/ (zmienia /\ wziete.pid = p))
    /\ UNCHANGED malarz

(* What becomes of a buffer that is given up: freed, or put off while a    *)
(* frame may read it.                                                      *)
Zwolnione(b, bajty) == [bufory |-> przydzielone \ {b}, lista |-> odroczone, oddane |-> bajty]

(* Mutated form: freed at once.                                            *)
BladZwalniaOdRazu(b, bajty) == Zwolnione(b, bajty)

zwolnij_lub_odrocz(b, bajty) ==
    IF b # 0 /\ render_readers > 0 /\ Len(odroczone) < SKLADACZ_MAKS_DIRTY_RECT
    THEN [bufory |-> przydzielone, lista |-> Append(odroczone, <<b, bajty>>), oddane |-> 0]
    ELSE Zwolnione(b, bajty)

(* kmalloc: the least buffer that is neither allocated nor still read.     *)
NowyBufor == Min(Bufory \ (przydzielone \cup {migawka[i][2].bufor : i \in DOMAIN migawka}))

(* skladacz_obrazu_podnies_warstwe.                                        *)
Podniesiona(p) == Append(SelectSeq(kolejnosc, LAMBDA q : q # p), p)

(* BWS 33: the layer is given its place and a cleared buffer, its own one  *)
(* when the size does not change, otherwise a new one, if it can be had.   *)
(* It is raised.                                                           *)
utworz_warstwe(p, x, szer) ==
    LET w    == warstwa[p]
        b    == NowyBufor
        z    == zwolnij_lub_odrocz(w.bufor, 0)
        stare == IF w.bufor # 0 THEN oznacz_dirty_rect(dirty, Rect(w)) ELSE dirty
        Pokaz(bufor) ==
            /\ warstwa' = [warstwa EXCEPT ![p] = [bufor |-> bufor, x |-> x, szer |-> szer,
                                                 widoczna |-> TRUE]]
            /\ kolejnosc' = Podniesiona(p)
            /\ tresc' = [tresc EXCEPT ![bufor] = 0]
            /\ dirty' = oznacz_dirty_rect(oznacz_dirty_rect(stare, <<x, szer>>), <<x, szer>>)
    IN  /\ Wywolanie(p, TRUE)
        /\ pending' = [pending EXCEPT ![p] = NicNie]
        /\ \/ /\ w.szer = szer /\ Pokaz(w.bufor)
              /\ UNCHANGED <<przydzielone, odroczone, zajete>>
           \/ /\ w.szer # szer
              /\ szer > w.szer => zajete + szer - w.szer <= MAKS_PAMIEC_WARSTW
              /\ Pokaz(b) /\ zajete' = zajete + szer - w.szer
              /\ przydzielone' = z.bufory \cup {b} /\ odroczone' = z.lista
           \/ /\ w.szer # szer      \* over the limit, or no memory
              /\ UNCHANGED <<warstwa, kolejnosc, pamiec, dirty>>
        /\ UNCHANGED oczekujacy

(* The exit of a process.                                                  *)
usun_warstwe(p) ==
    LET w == warstwa[p]
        z == zwolnij_lub_odrocz(w.bufor, w.szer)
    IN  /\ Wywolanie(p, FALSE) /\ w.bufor # 0
        /\ pending' = [pending EXCEPT ![p] = NicNie]
        /\ oczekujacy' = [oczekujacy EXCEPT ![p] = <<0, 0>>]
        /\ warstwa' = [warstwa EXCEPT ![p] = Brak]
        /\ przydzielone' = z.bufory /\ odroczone' = z.lista /\ zajete' = zajete - z.oddane
        /\ dirty' = oznacz_dirty_rect(dirty, Rect(w))
        /\ UNCHANGED <<tresc, kolejnosc>>

(* A move of a visible layer is only noted; PID 0 applies it with the next *)
(* frame, unless the layer was hidden meanwhile.                           *)
zaktualizuj_pozycje_warstwy(p, x) ==
    /\ Wywolanie(p, TRUE) /\ Widoczna(p)
    /\ pending' = [pending EXCEPT ![p] =
                     IF @.jest THEN [@ EXCEPT !.x = x]
                     ELSE [jest |-> TRUE, x |-> x, stary |-> warstwa[p].x,
                           szer |-> warstwa[p].szer]]
    /\ UNCHANGED <<okna, pamiec, dirty>>

PoRuchu(lista, g) ==
    oznacz_dirty_rect(oznacz_dirty_rect(lista, <<g.stary, g.szer>>), <<g.x, g.szer>>)

(* The end of a drag applies the process's own move at once.               *)
zastosuj_pending_geometrii(p) ==
    /\ Wywolanie(p, TRUE) /\ pending[p].jest
    /\ pending' = [pending EXCEPT ![p] = NicNie]
    /\ IF Widoczna(p)
       THEN /\ warstwa' = [warstwa EXCEPT ![p].x = pending[p].x]
            /\ dirty' = PoRuchu(dirty, pending[p])
       ELSE UNCHANGED <<warstwa, dirty>>
    /\ UNCHANGED <<kolejnosc, oczekujacy, pamiec>>

(* The process draws on its layer; the place is only remembered, until the *)
(* process asks for a refresh.                                             *)
zapamietaj_dirty_rysowania(p) ==
    LET r == Rect(warstwa[p])
        a == oczekujacy[p]
    IN  /\ Wywolanie(p, FALSE) /\ Widoczna(p)
        /\ tresc' = [tresc EXCEPT ![warstwa[p].bufor] = 1 - @]
        /\ oczekujacy' = [oczekujacy EXCEPT ![p] = IF a[2] = 0 THEN r ELSE rect_union(a, r)]
        /\ UNCHANGED <<warstwa, kolejnosc, pending, dirty, przydzielone, odroczone, zajete>>

bws_gui_odswiez(p) ==
    /\ Wywolanie(p, FALSE) /\ Widoczna(p) /\ oczekujacy[p][2] # 0
    /\ oczekujacy' = [oczekujacy EXCEPT ![p] = <<0, 0>>]
    /\ dirty' = oznacz_dirty_rect(dirty, oczekujacy[p])
    /\ UNCHANGED <<warstwa, kolejnosc, pending, pamiec>>

skladacz_obrazu_minimalizuj(p) ==
    /\ Wywolanie(p, FALSE) /\ Widoczna(p)
    /\ warstwa' = [warstwa EXCEPT ![p].widoczna = FALSE]
    /\ dirty' = oznacz_dirty_rect(dirty, Rect(warstwa[p]))
    /\ UNCHANGED <<kolejnosc, oczekujacy, pending, pamiec>>

(* bws_gui_aktywuj_okno: restored if it was minimised, and raised.         *)
skladacz_obrazu_przywroc(p) ==
    /\ Wywolanie(p, FALSE) /\ warstwa[p].bufor # 0
    /\ warstwa' = [warstwa EXCEPT ![p].widoczna = TRUE]
    /\ kolejnosc' = Podniesiona(p)
    /\ dirty' = oznacz_dirty_rect(oznacz_dirty_rect(dirty, Rect(warstwa[p])), Rect(warstwa[p]))
    /\ UNCHANGED <<oczekujacy, pending, pamiec>>

-----------------------------------------------------------------------------
(* PID 0 in skladacz_obrazu_obsluz_dirty.                                  *)
Malarz == UNCHANGED <<kolejnosc, oczekujacy, tresc, wyscig, operacje>>
Maluje == Malarz /\ UNCHANGED zwalniane

(* There is work and the time of the next frame has come.                  *)
Zacznij ==
    /\ pc = "wolny" /\ (dirty # <<>> \/ \E p \in Pidy : pending[p].jest)
    /\ pc' = "geometria" /\ nr' = 1
    /\ UNCHANGED <<warstwa, pending, przydzielone, odroczone, zajete, dirty, wziete, praca, migawka,
                   render_readers, obraz>>
    /\ Maluje

(* apply_pending_geometry takes the noted move of a layer, with interrupts *)
(* off ...                                                                 *)
WezGeometrie ==
    /\ pc = "geometria" /\ nr \in Pidy
    /\ pending' = [pending EXCEPT ![nr] = NicNie]
    /\ IF pending[nr].jest
       THEN wziete' = [pid |-> nr, ruch |-> pending[nr]] /\ pc' = "przesun" /\ UNCHANGED nr
       ELSE nr' = nr + 1 /\ UNCHANGED <<wziete, pc>>
    /\ UNCHANGED <<warstwa, dirty, praca, migawka, render_readers, obraz, przydzielone, odroczone,
                   zajete>>
    /\ Maluje

(* ... and stores it with interrupts on.                                   *)
Przesun ==
    /\ pc = "przesun" /\ pc' = "geometria" /\ nr' = nr + 1 /\ wziete' = NikogoNie
    /\ IF Widoczna(nr)
       THEN /\ warstwa' = [warstwa EXCEPT ![nr].x = wziete.ruch.x]
            /\ dirty' = PoRuchu(dirty, wziete.ruch)
       ELSE UNCHANGED <<warstwa, dirty>>
    /\ UNCHANGED <<pending, praca, migawka, render_readers, obraz, przydzielone, odroczone, zajete>>
    /\ Maluje

(* The damaged rectangles become the work of this frame.                   *)
WezUszkodzone ==
    /\ pc = "geometria" /\ nr \notin Pidy
    /\ praca' = dirty /\ dirty' = <<>> /\ nr' = 1
    /\ pc' = IF dirty = <<>> THEN "wolny" ELSE "migawka"
    /\ UNCHANGED <<warstwa, pending, przydzielone, odroczone, zajete, wziete, migawka,
                   render_readers, obraz>>
    /\ Maluje

(* The layers a snapshot names, from the bottom: warstwa_ma_spojny_bufor.  *)
Obecne ==
    LET pidy == SelectSeq(kolejnosc, Widoczna)
    IN  [i \in DOMAIN pidy |-> <<pidy[i], warstwa[pidy[i]]>>]

(* Mutated form: the damage is dropped again after the snapshot.           *)
BladGubiNowe ==
    /\ pc = "migawka" /\ pc' = "skladanie"
    /\ render_readers' = render_readers + 1 /\ migawka' = Obecne /\ dirty' = <<>>
    /\ UNCHANGED <<warstwa, pending, przydzielone, odroczone, zajete, nr, wziete, praca, obraz>>
    /\ Maluje

snapshot_warstw ==
    /\ pc = "migawka" /\ pc' = "skladanie"
    /\ render_readers' = render_readers + 1 /\ migawka' = Obecne
    /\ UNCHANGED <<warstwa, pending, przydzielone, odroczone, zajete, dirty, nr, wziete, praca, obraz>>
    /\ Maluje

(* The topmost of the layers w at a cell.  A freed buffer holds anything.  *)
Piksel(w, c) ==
    LET nad == {i \in DOMAIN w : c \in Pola(Rect(w[i][2]))}
        b   == w[Max(nad)][2].bufor
    IN  IF nad = {} THEN PULPIT
        ELSE <<w[Max(nad)][1], IF b \in przydzielone THEN tresc[b] ELSE SMIECI>>

(* Phase A: each rectangle is composed into the back buffer.               *)
Skladaj ==
    /\ pc = "skladanie"
    /\ tlo' = [c \in Komorki |-> IF c \in Pola(praca[nr]) THEN Piksel(migawka, c) ELSE tlo[c]]
    /\ IF nr < Len(praca) THEN nr' = nr + 1 /\ UNCHANGED pc ELSE nr' = 1 /\ pc' = "prezentacja"
    /\ UNCHANGED <<warstwa, pending, przydzielone, odroczone, zajete, dirty, wziete, praca, migawka,
                   render_readers, ekran>>
    /\ Maluje

(* Phase B: the finished rectangles are copied to the screen.              *)
grafika_prezentuj_region ==
    /\ pc = "prezentacja"
    /\ ekran' = [c \in Komorki |-> IF \E i \in DOMAIN praca : c \in Pola(praca[i])
                                   THEN tlo[c] ELSE ekran[c]]
    /\ pc' = "koniec" /\ praca' = <<>>
    /\ UNCHANGED <<warstwa, pending, przydzielone, odroczone, zajete, dirty, nr, wziete, migawka,
                   render_readers, tlo>>
    /\ Maluje

zakoncz_snapshot ==
    /\ pc = "koniec" /\ pc' = "oproznij"
    /\ render_readers' = render_readers - 1 /\ migawka' = <<>>
    /\ UNCHANGED <<warstwa, pending, przydzielone, odroczone, zajete, dirty, nr, wziete, praca, obraz>>
    /\ Maluje

(* The deferred buffers are taken with interrupts off, and freed one by    *)
(* one with interrupts on.                                                 *)
DoZwolnienia(lista) == pc' = IF lista = <<>> THEN "wolny" ELSE "zwalnianie"

oproznij_odroczone ==
    /\ pc = "oproznij" /\ DoZwolnienia(odroczone)
    /\ zwalniane' = odroczone /\ odroczone' = <<>>
    /\ UNCHANGED <<warstwa, pending, dirty, nr, wziete, praca, migawka, render_readers, obraz,
                   przydzielone, zajete>>
    /\ Malarz

Zwolnij ==
    /\ pc = "zwalnianie" /\ pc' = "oddawanie"
    /\ przydzielone' = przydzielone \ {Head(zwalniane)[1]}
    /\ UNCHANGED <<warstwa, pending, dirty, nr, wziete, praca, migawka, render_readers, obraz,
                   odroczone, zajete>>
    /\ Maluje

oddaj_bajty ==
    /\ pc = "oddawanie" /\ DoZwolnienia(Tail(zwalniane))
    /\ zajete' = zajete - Head(zwalniane)[2] /\ zwalniane' = Tail(zwalniane)
    /\ UNCHANGED <<warstwa, pending, dirty, nr, wziete, praca, migawka, render_readers, obraz,
                   odroczone, przydzielone>>
    /\ Malarz

Next ==
    \/ \E p \in Pidy :
          \/ \E x \in Pozycje : \/ \E szer \in Szerokosci : utworz_warstwe(p, x, szer)
                                \/ zaktualizuj_pozycje_warstwy(p, x)
          \/ usun_warstwe(p)
          \/ zastosuj_pending_geometrii(p)
          \/ zapamietaj_dirty_rysowania(p)
          \/ bws_gui_odswiez(p)
          \/ skladacz_obrazu_minimalizuj(p)
          \/ skladacz_obrazu_przywroc(p)
    \/ Zacznij \/ WezGeometrie \/ Przesun \/ WezUszkodzone \/ snapshot_warstw
    \/ Skladaj \/ grafika_prezentuj_region \/ zakoncz_snapshot
    \/ oproznij_odroczone \/ Zwolnij \/ oddaj_bajty

Spec == Init /\ [][Next]_vars

-----------------------------------------------------------------------------
(* Properties.                                                             *)

(* When PID 0 has nothing left to do, every cell of the screen shows the   *)
(* topmost visible layer as it is now: no call that came between two steps *)
(* of a frame (skladacz_obrazu.cpp 1717-1796) has left damage unrepaired.  *)
(* wyscig excepts the one window the code leaves open, in                  *)
(* apply_pending_geometry (190-198).                                       *)
EkranAktualny ==
    /\ pc = "wolny" /\ dirty = <<>> /\ ~ wyscig
    /\ \A p \in Pidy : ~ pending[p].jest /\ oczekujacy[p][2] = 0
    => \A c \in Komorki : ekran[c] = Piksel(Obecne, c)

(* A buffer that the frame being composed still reads is freed only when   *)
(* the table of deferred buffers is full (493-499).  Every allocated       *)
(* buffer is a layer's, or deferred, or about to be freed, and the bytes   *)
(* counted against the limit are those of these buffers (425-505).         *)
PamiecWarstw ==
    LET doZwolnienia == IF pc = "oddawanie" THEN Tail(zwalniane) ELSE zwalniane
        bufory(lista) == {lista[i][1] : i \in DOMAIN lista}
        bajty(lista) == FoldLeft(LAMBDA suma, o : suma + o[2], 0, lista)
    IN
    /\ \A i \in DOMAIN migawka : migawka[i][2].bufor \notin przydzielone
                                 => Len(odroczone) = SKLADACZ_MAKS_DIRTY_RECT
    /\ zajete = bajty(odroczone) + bajty(zwalniane)
                + FoldFunction(LAMBDA w, suma : w.szer + suma, 0, warstwa)
    /\ zajete <= MAKS_PAMIEC_WARSTW
    /\ przydzielone = ({warstwa[p].bufor : p \in Pidy} \ {0})
                      \cup bufory(odroczone) \cup bufory(doZwolnienia)
=============================================================================
