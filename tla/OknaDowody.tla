----------------------------- MODULE OknaDowody -----------------------------
(***************************************************************************)
(* Proofs about windows, focus and mouse capture, for any number of        *)
(* windows, any places of them and any z_orders that a program may ask     *)
(* for.                                                                    *)
(*                                                                         *)
(* The invariant describes the steps a call has still to take.  A change   *)
(* of the focus is three of them, and what the processes have been told    *)
(* depends on how many are left; the layer that is being raised is the     *)
(* only one whose z_order may disagree with the order of raising.          *)
(*                                                                         *)
(* A press of the USB mouse is such steps too, and a second invariant      *)
(* (InwNacisku) says which of them are left.  Both hold up to the first    *)
(* exception (wyjatek); what a press reached before it stays known.        *)
(***************************************************************************)
EXTENDS Okna, Lematy, SequenceTheorems, FiniteSetTheorems

ZakresZ == MIN_Z_ORDER .. MAX_Z_ORDER + MAKS_Z + PIERWSZE_Z + LiczbaOkien
Ktos == PidyOkien \cup {Nikt}

TypyOkien ==
  /\ stan_warstwy \in [PidyOkien -> {"brak", "widoczna", "ukryta"}]
  /\ z_order \in [PidyOkien -> ZakresZ]
  /\ system_overlay \in {Nikt, Menedzer}
  /\ aktywny_pid_gui \in Ktos /\ capture_pid_gui \in Ktos
  /\ widok \in [PidyOkien -> BOOLEAN]
  /\ podniesienia \subseteq PidyOkien \X PidyOkien
  /\ naruszony \in BOOLEAN

-----------------------------------------------------------------------------
(* The steps of a call.  Those in Pozne may stand behind others; V are the *)
(* processes that may be given the focus.                                  *)
Pojedyncze == {"publikuj", "przejmij", "porzuc", "stan", "z", "trafienie"}
Zwykle == {"focus", "podnies", "nastepca", "mysz", "adresat"}
Grupa == {"aktywny", "blur", "fokus"}
Kroki == [rodzaj : Pojedyncze \cup Zwykle \cup Grupa, pid : Ktos, z : ZakresZ]
Pozne(V) == {k \in Kroki : /\ k.rodzaj \in Zwykle
                           /\ k.rodzaj = "focus" => k.pid \in V \cup {Nikt}}

(* What follows the step "blur" and the step "aktywny" when the focus goes *)
(* from a to x.                                                            *)
PoBlur(t, x, V) ==
  IF x = Nikt THEN t \in Seq(Pozne(V))
  ELSE t # <<>> /\ Head(t) = Krok("fokus", x) /\ Tail(t) \in Seq(Pozne(V))
PoAktywnym(t, a, x, V) ==
  IF a = Nikt THEN PoBlur(t, x, V)
  ELSE t # <<>> /\ Head(t) = Krok("blur", a) /\ PoBlur(Tail(t), x, V)

(* The process told FOCUS, of w, is a, unless n.                           *)
Powiadomiony(w, a, n) == ~n => \A p \in PidyOkien : w[p] <=> p = a

(* A call at step h, with the steps t behind it; V are the visible layers, *)
(* a has the focus, n and w are naruszony and widok.                       *)
Zmiana(h, t, V, a, n, w) ==
  /\ h.rodzaj = "aktywny" =>
       /\ h.pid \in V \cup {Nikt}
       /\ \E b \in Ktos : PoAktywnym(t, b, h.pid, V) /\ (~n => b = a)
       /\ Powiadomiony(w, a, n)
  /\ h.rodzaj = "blur" =>
       /\ \E x \in Ktos : PoBlur(t, x, V) /\ (~n => x = a)
       /\ Powiadomiony(w, h.pid, n)
  /\ h.rodzaj = "fokus" =>
       /\ t \in Seq(Pozne(V))
       /\ ~n => a = h.pid
       /\ Powiadomiony(w, Nikt, n)

Zwyczajny(h, t, V, a, n, w) ==
  /\ Powiadomiony(w, a, n)
  /\ h.rodzaj # "publikuj" => t \in Seq(Pozne(V))
  /\ h.rodzaj = "publikuj" => t = <<Krok("focus", h.pid), Krok("podnies", h.pid)>>
  /\ h.rodzaj \in {"publikuj", "porzuc", "stan", "z"} => h.pid \in PidyOkien
  /\ h.rodzaj = "przejmij" => h.pid \in V
  /\ h.rodzaj = "focus" => h.pid \in V \cup {Nikt}

Poprawne(s, V, a, n, w) ==
  /\ s \in Seq(Kroki)
  /\ s = <<>> => Powiadomiony(w, a, n)
  /\ s # <<>> =>
       IF Head(s).rodzaj \in Grupa THEN Zmiana(Head(s), Tail(s), V, a, n, w)
       ELSE Zwyczajny(Head(s), Tail(s), V, a, n, w)

Wywolania == Poprawne(wywolanie, Widoczne, aktywny_pid_gui, naruszony, widok)

-----------------------------------------------------------------------------
(* Whom the call s will still take the focus and the capture from, or give *)
(* a layer; and whether it will take the focus from whoever has it.        *)
Zwisa(s) == {p \in PidyOkien : /\ s # <<>> /\ Head(s).pid = p
                               /\ Head(s).rodzaj \in {"publikuj", "porzuc", "stan"}}
Odbiera(s) == s # <<>> /\ Head(s).rodzaj \in {"focus", "aktywny"} /\ Head(s).pid = Nikt
Publikuje(s, p) == s # <<>> /\ Head(s).rodzaj = "publikuj" /\ Head(s).pid = p

Obecni(s, V, a, c, o) ==
  /\ c \in V \cup {Nikt} \cup Zwisa(s)
  /\ a \in V \cup {Nikt} \cup Zwisa(s) \/ Odbiera(s)
  /\ o \in V \cup {Nikt} \/ Publikuje(s, o)

Adresaci == Obecni(wywolanie, Widoczne, aktywny_pid_gui, capture_pid_gui, system_overlay)

-----------------------------------------------------------------------------
(* The layers the call s has still to raise.                               *)
Podnosi(k) == {p \in PidyOkien : k.rodzaj \in {"publikuj", "podnies", "z"} /\ k.pid = p}
Podnoszone(s) == UNION {Podnosi(s[i]) : i \in 1 .. Len(s)}

(* Visible layers that are not in w are in the order P they were raised    *)
(* in.                                                                     *)
Uporzadkowane(P, V, z, w) ==
  /\ \A q, r \in PidyOkien :
       /\ <<q, q>> \in P /\ <<r, r>> \in P => <<q, r>> \in P \/ <<r, q>> \in P
       /\ <<q, r>> \in P => <<q, q>> \in P /\ <<r, r>> \in P
  /\ \A q \in PidyOkien : <<q, q>> \in P => z[q] > 0
  /\ \A q \in V \ w : z[q] > 0 => <<q, q>> \in P
  /\ \A q, r \in V \ w : <<q, r>> \in P /\ q # r => z[q] < z[r]

(* The highest z_order that was found still is the highest.                *)
Najwyzej(V, z, k) == k.pid \in V /\ z[k.pid] > 0 /\ \A q \in V : z[q] > 0 => z[q] <= k.z

WKolejnosci(P, V, z, s, n) ==
  ~n => /\ Uporzadkowane(P, V, z, Podnoszone(s))
        /\ s # <<>> /\ Head(s).rodzaj = "z" => Najwyzej(V, z, Head(s))

Kolejnosc == WKolejnosci(podniesienia, Widoczne, z_order, wywolanie, naruszony)

InwOkien == TypyOkien /\ Wywolania /\ Adresaci /\ Kolejnosc /\ ~chybiony

-----------------------------------------------------------------------------
(* Sequences, taken apart at the front.                                    *)
LEMMA Pusta ==
  ASSUME NEW S, NEW t \in Seq(S)
  PROVE  <<>> \o t = t /\ <<>> \in Seq(S)
OBVIOUS

LEMMA Czolo ==
  ASSUME NEW S, NEW s \in Seq(S), s # <<>>
  PROVE  Head(s) \in S /\ Tail(s) \in Seq(S) /\ Len(s) \in Nat \ {0} /\ Head(s) = s[1]
OBVIOUS

LEMMA NaPoczatek ==
  ASSUME NEW S, NEW k \in S, NEW t \in Seq(S)
  PROVE  /\ <<k>> \o t \in Seq(S) /\ <<k>> \o t # <<>>
         /\ Head(<<k>> \o t) = k /\ Tail(<<k>> \o t) = t
<1> DEFINE s == <<k>> \o t
<1>1. s \in Seq(S) /\ Len(s) = Len(t) + 1 /\ Len(t) \in Nat
  OBVIOUS
<1>2. s # <<>> /\ s[1] = k /\ \A i \in 1 .. Len(t) : s[i + 1] = t[i]
  BY <1>1
<1>3. Tail(s) \in Seq(S) /\ Len(Tail(s)) = Len(t) /\ \A i \in 1 .. Len(t) : Tail(s)[i] = s[i + 1]
  BY <1>1, <1>2
<1>4. Tail(s) = t
  BY <1>2, <1>3
<1>5. QED
  BY <1>1, <1>2, <1>4

LEMMA DwaNaPoczatek ==
  ASSUME NEW S, NEW k \in S, NEW m \in S, NEW t \in Seq(S)
  PROVE  <<k, m>> \o t = <<k>> \o (<<m>> \o t)
<1>1. <<k, m>> = <<k>> \o <<m>>
  <2>1. /\ <<k, m>> \in Seq(S) /\ <<k>> \in Seq(S) /\ <<m>> \in Seq(S)
        /\ Len(<<k>>) = 1 /\ Len(<<m>>) = 1 /\ Len(<<k, m>>) = 2
        /\ <<k>>[1] = k /\ <<m>>[1] = m /\ <<k, m>>[1] = k /\ <<k, m>>[2] = m
    OBVIOUS
  <2>2. /\ <<k>> \o <<m>> \in Seq(S) /\ Len(<<k>> \o <<m>>) = 2
        /\ \A i \in 1 .. 2 : (<<k>> \o <<m>>)[i] = IF i <= 1 THEN <<k>>[i] ELSE <<m>>[i - 1]
    BY <2>1, ConcatProperties
  <2>3. (<<k>> \o <<m>>)[1] = k /\ (<<k>> \o <<m>>)[2] = m
    BY <2>1, <2>2
  <2>4. \A i \in 1 .. 2 : (<<k>> \o <<m>>)[i] = <<k, m>>[i]
    BY <2>1, <2>3, \A i \in 1 .. 2 : i = 1 \/ i = 2
  <2>5. QED
    BY <2>1, <2>2, <2>4, SeqEqual
<1>2. (<<k>> \o <<m>>) \o t = <<k>> \o (<<m>> \o t)
  BY ConcatAssociative
<1>3. QED
  BY <1>1, <1>2

LEMMA Dwa ==
  ASSUME NEW S, NEW k \in S, NEW m \in S
  PROVE  /\ <<k, m>> \in Seq(S) /\ <<k, m>> # <<>> /\ Len(<<k, m>>) = 2
         /\ <<k, m>>[1] = k /\ <<k, m>>[2] = m /\ Head(<<k, m>>) = k /\ Tail(<<k, m>>) = <<m>>
<1>1. /\ <<k, m>> \in Seq(S) /\ <<k, m>> # <<>> /\ Len(<<k, m>>) = 2
      /\ <<k, m>>[1] = k /\ <<k, m>>[2] = m /\ Head(<<k, m>>) = k
  OBVIOUS
<1>2. Tail(<<k, m>>) \in Seq(S) /\ Len(Tail(<<k, m>>)) = 1 /\ Tail(<<k, m>>)[1] = m
  OBVIOUS
<1>3. <<m>> \in Seq(S) /\ Len(<<m>>) = 1 /\ <<m>>[1] = m
  OBVIOUS
<1>4. \A i \in 1 .. 1 : Tail(<<k, m>>)[i] = <<m>>[i]
  BY <1>2, <1>3, \A i \in 1 .. 1 : i = 1
<1>5. Tail(<<k, m>>) = <<m>>
  BY <1>2, <1>3, <1>4, SeqEqual
<1>6. QED
  BY <1>1, <1>5

LEMMA TrzyNaPoczatek ==
  ASSUME NEW S, NEW h \in S, NEW k \in S, NEW m \in S
  PROVE  <<h, k, m>> = <<h>> \o <<k, m>>
<1>1. /\ <<h, k, m>> \in Seq(S) /\ <<h>> \in Seq(S) /\ <<k, m>> \in Seq(S)
      /\ Len(<<h>>) = 1 /\ Len(<<k, m>>) = 2 /\ Len(<<h, k, m>>) = 3
      /\ <<h>>[1] = h /\ <<k, m>>[1] = k /\ <<k, m>>[2] = m
      /\ <<h, k, m>>[1] = h /\ <<h, k, m>>[2] = k /\ <<h, k, m>>[3] = m
  OBVIOUS
<1>2. /\ <<h>> \o <<k, m>> \in Seq(S) /\ Len(<<h>> \o <<k, m>>) = 3
      /\ \A i \in 1 .. 3 : (<<h>> \o <<k, m>>)[i] = IF i <= 1 THEN <<h>>[i] ELSE <<k, m>>[i - 1]
  BY <1>1, ConcatProperties
<1>3. /\ (<<h>> \o <<k, m>>)[1] = h /\ (<<h>> \o <<k, m>>)[2] = k
      /\ (<<h>> \o <<k, m>>)[3] = m
  BY <1>1, <1>2
<1>4. \A i \in 1 .. 3 : (<<h>> \o <<k, m>>)[i] = <<h, k, m>>[i]
  BY <1>1, <1>3, \A i \in 1 .. 3 : i = 1 \/ i = 2 \/ i = 3
<1>5. QED
  BY <1>1, <1>2, <1>4, SeqEqual

LEMMA TrzyNaKoncu ==
  ASSUME NEW S, NEW h \in S, NEW k \in S, NEW m \in S
  PROVE  <<h, k, m>> = <<h, k>> \o <<m>>
<1>1. /\ <<h, k, m>> \in Seq(S) /\ <<m>> \in Seq(S) /\ <<h, k>> \in Seq(S)
      /\ Len(<<m>>) = 1 /\ Len(<<h, k>>) = 2 /\ Len(<<h, k, m>>) = 3
      /\ <<m>>[1] = m /\ <<h, k>>[1] = h /\ <<h, k>>[2] = k
      /\ <<h, k, m>>[1] = h /\ <<h, k, m>>[2] = k /\ <<h, k, m>>[3] = m
  OBVIOUS
<1>2. /\ <<h, k>> \o <<m>> \in Seq(S) /\ Len(<<h, k>> \o <<m>>) = 3
      /\ \A i \in 1 .. 3 : (<<h, k>> \o <<m>>)[i] = IF i <= 2 THEN <<h, k>>[i] ELSE <<m>>[i - 2]
  BY <1>1, ConcatProperties
<1>3. /\ (<<h, k>> \o <<m>>)[1] = h /\ (<<h, k>> \o <<m>>)[2] = k
      /\ (<<h, k>> \o <<m>>)[3] = m
  BY <1>1, <1>2
<1>4. \A i \in 1 .. 3 : (<<h, k>> \o <<m>>)[i] = <<h, k, m>>[i]
  BY <1>1, <1>3, \A i \in 1 .. 3 : i = 1 \/ i = 2 \/ i = 3
<1>5. QED
  BY <1>1, <1>2, <1>4, SeqEqual

LEMMA Szerszy ==
  ASSUME NEW S, NEW T, S \subseteq T, NEW s \in Seq(S)
  PROVE  s \in Seq(T)
OBVIOUS

(* The layers to be raised, step by step.                                  *)
LEMMA PodnoszoneCzesci ==
  ASSUME NEW s \in Seq(Kroki), s # <<>>
  PROVE  Podnoszone(s) \subseteq Podnosi(Head(s)) \cup Podnoszone(Tail(s))
<1>1. SUFFICES ASSUME NEW p \in Podnoszone(s), p \notin Podnosi(Head(s))
               PROVE  p \in Podnoszone(Tail(s))
  OBVIOUS
<1>2. PICK i \in 1 .. Len(s) : p \in Podnosi(s[i])
  BY <1>1 DEF Podnoszone
<1>3. i # 1
  BY <1>1, <1>2, Czolo
<1>4. Len(Tail(s)) = Len(s) - 1 /\ Len(s) \in Nat /\ \A j \in 1 .. Len(Tail(s)) : Tail(s)[j] = s[j + 1]
  OBVIOUS
<1>5. i - 1 \in 1 .. Len(Tail(s)) /\ Tail(s)[i - 1] = s[i]
  BY <1>2, <1>3, <1>4
<1>6. QED
  BY <1>2, <1>5 DEF Podnoszone

LEMMA PodnoszoneDalej ==
  ASSUME NEW u \in Seq(Kroki), NEW t \in Seq(Kroki)
  PROVE  Podnoszone(t) \subseteq Podnoszone(u \o t)
<1>1. SUFFICES ASSUME NEW p \in Podnoszone(t)
               PROVE  p \in Podnoszone(u \o t)
  OBVIOUS
<1>2. PICK i \in 1 .. Len(t) : p \in Podnosi(t[i])
  BY <1>1 DEF Podnoszone
<1>3. Len(u) \in Nat /\ Len(t) \in Nat /\ Len(u \o t) = Len(u) + Len(t)
  OBVIOUS
<1>4. Len(u) + i \in 1 .. Len(u \o t) /\ (u \o t)[Len(u) + i] = t[i]
  BY <1>2, <1>3
<1>5. QED
  BY <1>2, <1>4 DEF Podnoszone

LEMMA PodnoszoneKrok ==
  ASSUME NEW s \in Seq(Kroki), s # <<>>, NEW u \in Seq(Kroki)
  PROVE  Podnoszone(s) \subseteq Podnosi(Head(s)) \cup Podnoszone(u \o Tail(s))
BY PodnoszoneCzesci, PodnoszoneDalej, Czolo

LEMMA PodnoszoneMiejsce ==
  ASSUME NEW s \in Seq(Kroki), NEW i \in 1 .. Len(s)
  PROVE  Podnosi(s[i]) \subseteq Podnoszone(s)
BY DEF Podnoszone

LEMMA PodnoszonePusta == Podnoszone(<<>>) = {}
BY DEF Podnoszone

-----------------------------------------------------------------------------
(* Steps.                                                                  *)
LEMMA Granica == (\E n \in Nat : MIN_Z_ORDER = -n) /\ MAX_Z_ORDER \in Nat
<1>1. MIN_Z_ORDER = -32768
  BY DEF MIN_Z_ORDER
<1>2. 32768 \in Nat
  BY SMT
<1>3. MAX_Z_ORDER \in Nat
  BY SMT DEF MAX_Z_ORDER
<1> QED
  BY <1>1, <1>2, <1>3

LEMMA KrokToKrok ==
  ASSUME NEW r \in Pojedyncze \cup Zwykle \cup Grupa, NEW p \in Ktos
  PROVE  /\ Krok(r, p) \in Kroki /\ Krok(r, p).rodzaj = r /\ Krok(r, p).pid = p
         /\ \A z \in ZakresZ : /\ KrokZ(r, p, z) \in Kroki /\ KrokZ(r, p, z).rodzaj = r
                               /\ KrokZ(r, p, z).pid = p /\ KrokZ(r, p, z).z = z
<1>1. 0 \in ZakresZ
  BY OknaZalozenia, Granica DEF ZakresZ
<1>2. QED
  BY <1>1 DEF Krok, KrokZ, Kroki

LEMMA PozneToKroki ==
  ASSUME NEW V, NEW t \in Seq(Pozne(V))
  PROVE  t \in Seq(Kroki)
BY Szerszy, Pozne(V) \subseteq Kroki DEF Pozne

LEMMA PozneRosna ==
  ASSUME NEW V, NEW W, V \subseteq W, NEW t \in Seq(Pozne(V))
  PROVE  t \in Seq(Pozne(W))
BY Szerszy, Pozne(V) \subseteq Pozne(W) DEF Pozne

LEMMA PoznyKrok ==
  ASSUME NEW V, NEW r \in Zwykle, NEW p \in Ktos, r = "focus" => p \in V \cup {Nikt}
  PROVE  Krok(r, p) \in Pozne(V)
<1>1. Krok(r, p) \in Kroki /\ Krok(r, p).rodzaj = r /\ Krok(r, p).pid = p
  BY KrokToKrok
<1>2. QED
  BY <1>1 DEF Pozne

(* Nothing but late steps are left: everybody has been told.               *)
LEMMA ZostalyPozne ==
  ASSUME NEW V, NEW a, NEW n, NEW w, NEW t \in Seq(Pozne(V)), Powiadomiony(w, a, n)
  PROVE  Poprawne(t, V, a, n, w)
<1>1. t \in Seq(Kroki)
  BY PozneToKroki
<1>2. ASSUME t # <<>> PROVE Zwyczajny(Head(t), Tail(t), V, a, n, w) /\ Head(t).rodzaj \notin Grupa
  <2>1. Head(t) \in Pozne(V) /\ Tail(t) \in Seq(Pozne(V))
    BY <1>2, Czolo
  <2>2. QED
    BY <2>1 DEF Pozne, Zwyczajny, Zwykle, Grupa
<1>3. QED
  BY <1>1, <1>2 DEF Poprawne

(* A first step in front of late ones.                                     *)
LEMMA Najpierw ==
  ASSUME NEW V, NEW a, NEW n, NEW w, NEW k \in Kroki, NEW t \in Seq(Kroki),
         k.rodzaj \notin Grupa, Zwyczajny(k, t, V, a, n, w)
  PROVE  Poprawne(<<k>> \o t, V, a, n, w)
<1>1. /\ <<k>> \o t \in Seq(Kroki) /\ <<k>> \o t # <<>>
      /\ Head(<<k>> \o t) = k /\ Tail(<<k>> \o t) = t
  BY NaPoczatek
<1>2. QED
  BY <1>1 DEF Poprawne

(* The step at the front, of a call that is correct.                       *)
LEMMA Biezacy ==
  ASSUME NEW V, NEW a, NEW n, NEW w, NEW s, Poprawne(s, V, a, n, w), s # <<>>
  PROVE  /\ s \in Seq(Kroki) /\ Head(s) \in Kroki /\ Tail(s) \in Seq(Kroki)
         /\ Head(s).rodzaj \in Grupa => Zmiana(Head(s), Tail(s), V, a, n, w)
         /\ Head(s).rodzaj \notin Grupa => Zwyczajny(Head(s), Tail(s), V, a, n, w)
         /\ Head(s).pid \in Ktos /\ Head(s).z \in ZakresZ
         /\ Head(s).rodzaj \in Pojedyncze \cup Zwykle \cup Grupa
<1>1. s \in Seq(Kroki)
  BY DEF Poprawne
<1>2. Head(s) \in Kroki /\ Tail(s) \in Seq(Kroki)
  BY <1>1, Czolo
<1>3. Head(s).pid \in Ktos /\ Head(s).z \in ZakresZ /\ Head(s).rodzaj \in Pojedyncze \cup Zwykle \cup Grupa
  BY <1>2 DEF Kroki
<1>4. QED
  BY <1>1, <1>2, <1>3 DEF Poprawne

-----------------------------------------------------------------------------
(* The change of the focus, ustaw_focus_gui, step by step.                 *)
PelnaZmiana(a, x) == <<Krok("aktywny", x)>> \o Powiadom("blur", a) \o Powiadom("fokus", x)

CiagiKrokow == Seq(Kroki)
Zlacz(s, t) == s \o t

LEMMA Lacznosc ==
  ASSUME NEW u \in CiagiKrokow, NEW v \in CiagiKrokow, NEW x \in CiagiKrokow,
         NEW t \in CiagiKrokow
  PROVE  Zlacz(Zlacz(Zlacz(u, v), x), t) = Zlacz(u, Zlacz(v, Zlacz(x, t)))
<1>0. u \in Seq(Kroki) /\ v \in Seq(Kroki) /\ x \in Seq(Kroki) /\ t \in Seq(Kroki)
  BY DEF CiagiKrokow
<1>1. u \o v \in Seq(Kroki) /\ x \o t \in Seq(Kroki)
  BY <1>0
<1>2. ((u \o v) \o x) \o t = (u \o v) \o (x \o t)
  <2>1. PICK y \in Seq(Kroki) : y = u \o v
    BY <1>1
  <2>2. (y \o x) \o t = y \o (x \o t)
    BY <1>0, ConcatAssociative, SMTT(30)
  <2>3. QED
    BY <2>1, <2>2, Zenon
<1>3. (u \o v) \o (x \o t) = u \o (v \o (x \o t))
  <2>1. PICK y \in Seq(Kroki) : y = x \o t
    BY <1>1
  <2>2. (u \o v) \o y = u \o (v \o y)
    BY <1>0, ConcatAssociative, SMTT(30)
  <2>3. QED
    BY <2>1, <2>2, Zenon
<1>4. QED
  BY <1>2, <1>3, Zenon DEF Zlacz

LEMMA Przekazanie ==
  ASSUME NEW V, V \subseteq PidyOkien, NEW a \in Ktos, NEW n, NEW w, NEW x \in V \cup {Nikt},
         NEW t \in Seq(Pozne(V)), Powiadomiony(w, a, n)
  PROVE  /\ Poprawne(PelnaZmiana(a, x) \o t, V, a, n, w)
         /\ PelnaZmiana(a, x) \o t # <<>> /\ Head(PelnaZmiana(a, x) \o t) = Krok("aktywny", x)
<1> DEFINE s == PelnaZmiana(a, x) \o t
           f == Powiadom("fokus", x) \o t
           g == Powiadom("blur", a) \o f
<1>1. t \in Seq(Kroki) /\ x \in Ktos
  BY PozneToKroki DEF Ktos
<1>2. /\ Krok("aktywny", x) \in Kroki /\ Krok("aktywny", x).rodzaj = "aktywny"
      /\ Krok("aktywny", x).pid = x /\ Krok("blur", a) \in Kroki /\ Krok("fokus", x) \in Kroki
  BY <1>1, KrokToKrok DEF Grupa
<1>3. /\ Powiadom("fokus", x) \in Seq(Kroki) /\ Powiadom("blur", a) \in Seq(Kroki)
      /\ <<Krok("aktywny", x)>> \in Seq(Kroki)
  BY <1>2 DEF Powiadom
<1>4. f \in Seq(Kroki) /\ PoBlur(f, x, V)
  <2>1. CASE x = Nikt
    <3>1. f = t
      BY <2>1, Pusta DEF Powiadom
    <3>2. QED
      BY <1>1, <2>1, <3>1 DEF PoBlur
  <2>2. CASE x # Nikt
    <3>1. f = <<Krok("fokus", x)>> \o t
      BY <2>2 DEF Powiadom
    <3>2. f \in Seq(Kroki) /\ f # <<>> /\ Head(f) = Krok("fokus", x) /\ Tail(f) = t
      BY <1>1, <1>2, <3>1, NaPoczatek
    <3>3. QED
      BY <2>2, <3>2 DEF PoBlur
  <2>3. QED
    BY <2>1, <2>2
<1> HIDE DEF f
<1>5. g \in Seq(Kroki) /\ PoAktywnym(g, a, x, V)
  <2>1. CASE a = Nikt
    <3>1. g = f
      BY <1>4, <2>1, Pusta DEF Powiadom
    <3>2. QED
      BY <1>4, <2>1, <3>1 DEF PoAktywnym
  <2>2. CASE a # Nikt
    <3>1. g = <<Krok("blur", a)>> \o f
      BY <2>2 DEF Powiadom
    <3>2. g \in Seq(Kroki) /\ g # <<>> /\ Head(g) = Krok("blur", a) /\ Tail(g) = f
      BY <1>2, <1>4, <3>1, NaPoczatek
    <3>3. QED
      BY <1>4, <2>2, <3>2 DEF PoAktywnym
  <2>3. QED
    BY <2>1, <2>2
<1>6. s = <<Krok("aktywny", x)>> \o g
  <2>1. PICK u \in Seq(Kroki) : u = <<Krok("aktywny", x)>>
    BY <1>3
  <2>2. PICK v \in Seq(Kroki) : v = Powiadom("blur", a)
    BY <1>3
  <2>3. PICK y \in Seq(Kroki) : y = Powiadom("fokus", x)
    BY <1>3
  <2>0. u \in CiagiKrokow /\ v \in CiagiKrokow /\ y \in CiagiKrokow /\ t \in CiagiKrokow
    BY <1>1 DEF CiagiKrokow
  <2>4. Zlacz(Zlacz(Zlacz(u, v), y), t) = Zlacz(u, Zlacz(v, Zlacz(y, t)))
    BY ONLY <2>0, Lacznosc
  <2>5. QED
    BY <2>1, <2>2, <2>3, <2>4, Zenon DEF f, PelnaZmiana, Zlacz
<1> HIDE DEF s
<1> HIDE DEF g
<1>7. /\ s \in Seq(Kroki) /\ s # <<>> /\ Head(s) = Krok("aktywny", x) /\ Tail(s) = g
  <2>1. \A k \in Kroki, v \in Seq(Kroki) :
          /\ <<k>> \o v \in Seq(Kroki) /\ <<k>> \o v # <<>>
          /\ Head(<<k>> \o v) = k /\ Tail(<<k>> \o v) = v
    BY NaPoczatek
  <2>2. QED
    BY <1>2, <1>5, <1>6, <2>1
<1>8. Zmiana(Head(s), Tail(s), V, a, n, w)
  BY <1>2, <1>5, <1>7 DEF Zmiana
<1>9. Poprawne(s, V, a, n, w) /\ s # <<>> /\ Head(s) = Krok("aktywny", x)
  BY <1>2, <1>7, <1>8 DEF Poprawne, Grupa
<1>10. QED
  BY <1>9 DEF s

LEMMA PoPobraniuBlur ==
  ASSUME NEW V, NEW a, NEW n, NEW w, NEW t \in Seq(Kroki), NEW x \in Ktos, PoBlur(t, x, V),
         ~n => x = a, Powiadomiony(w, Nikt, n)
  PROVE  Poprawne(t, V, a, n, w)
<1>1. CASE x = Nikt
  <2>1. Powiadomiony(w, a, n)
    BY <1>1 DEF Powiadomiony
  <2>2. QED
    BY <1>1, <2>1, ZostalyPozne DEF PoBlur
<1>2. CASE x # Nikt
  <2>1. t # <<>> /\ Head(t) = Krok("fokus", x) /\ Tail(t) \in Seq(Pozne(V))
    BY <1>2 DEF PoBlur
  <2>2. Krok("fokus", x).rodzaj = "fokus" /\ Krok("fokus", x).pid = x
    BY KrokToKrok DEF Grupa
  <2>3. Zmiana(Head(t), Tail(t), V, a, n, w)
    BY <2>1, <2>2 DEF Zmiana
  <2>4. QED
    BY <2>1, <2>2, <2>3 DEF Poprawne, Grupa
<1>3. QED
  BY <1>1, <1>2

LEMMA PoZapisie ==
  ASSUME NEW V, NEW a, NEW n, NEW w, NEW s, Poprawne(s, V, a, n, w), s # <<>>,
         Head(s).rodzaj = "aktywny"
  PROVE  Poprawne(Tail(s), V, Head(s).pid, n, w)
<1> DEFINE t == Tail(s)
           x == Head(s).pid
<1>1. t \in Seq(Kroki) /\ x \in Ktos /\ Zmiana(Head(s), t, V, a, n, w)
  BY Biezacy DEF Grupa
<1>2. PICK b \in Ktos : PoAktywnym(t, b, x, V) /\ (~n => b = a)
  BY <1>1 DEF Zmiana
<1>3. Powiadomiony(w, a, n)
  BY <1>1 DEF Zmiana
<1> HIDE DEF t, x
<1>4. CASE b = Nikt
  <2>1. Powiadomiony(w, Nikt, n) /\ PoBlur(t, x, V)
    BY <1>2, <1>3, <1>4 DEF Powiadomiony, PoAktywnym
  <2>2. Poprawne(t, V, x, n, w)
    BY <1>1, <2>1, PoPobraniuBlur
  <2>3. QED
    BY <2>2 DEF t, x
<1>5. CASE b # Nikt
  <2>1. t # <<>> /\ Head(t) = Krok("blur", b) /\ PoBlur(Tail(t), x, V)
    BY <1>2, <1>5 DEF PoAktywnym
  <2>2. Krok("blur", b).rodzaj = "blur" /\ Krok("blur", b).pid = b
    BY KrokToKrok DEF Grupa
  <2>3. Powiadomiony(w, b, n)
    BY <1>2, <1>3 DEF Powiadomiony
  <2>4. Zmiana(Head(t), Tail(t), V, x, n, w)
    BY <1>1, <2>1, <2>2, <2>3 DEF Zmiana
  <2>5. Poprawne(t, V, x, n, w)
    BY <1>1, <2>1, <2>2, <2>4 DEF Poprawne, Grupa
  <2>6. QED
    BY <2>5 DEF t, x
<1>6. QED
  BY <1>4, <1>5

LEMMA PoBlurze ==
  ASSUME NEW V, NEW a, NEW n \in BOOLEAN, NEW w \in [PidyOkien -> BOOLEAN], NEW s,
         Poprawne(s, V, a, n, w), s # <<>>, Head(s).rodzaj = "blur"
  PROVE  Poprawne(Tail(s), V, a, n, [p \in PidyOkien |-> w[p] /\ p # Head(s).pid])
<1> DEFINE v == [p \in PidyOkien |-> w[p] /\ p # Head(s).pid]
<1>1. Tail(s) \in Seq(Kroki) /\ Zmiana(Head(s), Tail(s), V, a, n, w)
  BY Biezacy DEF Grupa
<1>2. PICK x \in Ktos : PoBlur(Tail(s), x, V) /\ (~n => x = a)
  BY <1>1 DEF Zmiana
<1>3. Powiadomiony(w, Head(s).pid, n)
  BY <1>1 DEF Zmiana
<1>4. Powiadomiony(v, Nikt, n)
  <2>1. SUFFICES ASSUME ~n, NEW p \in PidyOkien PROVE ~v[p] /\ p # Nikt
    BY DEF Powiadomiony
  <2>2. w[p] <=> p = Head(s).pid
    BY <1>3, <2>1 DEF Powiadomiony
  <2>3. p # Nikt
    BY OknaZalozenia DEF PidyOkien, Nikt
  <2>4. QED
    BY <2>2, <2>3
<1> HIDE DEF v
<1>5. Poprawne(Tail(s), V, a, n, v)
  BY <1>1, <1>2, <1>4, PoPobraniuBlur
<1>6. QED
  BY <1>5 DEF v

LEMMA PoFokusie ==
  ASSUME NEW V, NEW a, NEW n \in BOOLEAN, NEW w \in [PidyOkien -> BOOLEAN], NEW s,
         Poprawne(s, V, a, n, w), s # <<>>, Head(s).rodzaj = "fokus"
  PROVE  Poprawne(Tail(s), V, a, n, [p \in PidyOkien |-> ~n /\ (w[p] \/ p = Head(s).pid)])
<1> DEFINE v == [p \in PidyOkien |-> ~n /\ (w[p] \/ p = Head(s).pid)]
<1>1. Zmiana(Head(s), Tail(s), V, a, n, w)
  BY Biezacy DEF Grupa
<1>2. Tail(s) \in Seq(Pozne(V)) /\ (~n => a = Head(s).pid) /\ Powiadomiony(w, Nikt, n)
  BY <1>1 DEF Zmiana
<1>3. Powiadomiony(v, a, n)
  <2>1. SUFFICES ASSUME ~n, NEW p \in PidyOkien PROVE v[p] <=> p = a
    BY DEF Powiadomiony
  <2>2. ~w[p]
    <3>1. p # Nikt
      BY OknaZalozenia DEF PidyOkien, Nikt
    <3>2. QED
      BY <1>2, <2>1, <3>1 DEF Powiadomiony
  <2>3. QED
    BY <1>2, <2>1, <2>2
<1> HIDE DEF v
<1>4. Poprawne(Tail(s), V, a, n, v)
  BY <1>2, <1>3, ZostalyPozne
<1>5. QED
  BY <1>4 DEF v

(* A press between two steps of a call: whoever gets the focus is told, or *)
(* the race is noted.                                                      *)
LEMMA PoNacisnieciu ==
  ASSUME NEW V, NEW a, NEW n \in BOOLEAN, NEW w \in [PidyOkien -> BOOLEAN], NEW s,
         Poprawne(s, V, a, n, w), NEW b, NEW m \in BOOLEAN, n => m,
         b # a /\ s # <<>> /\ Head(s).rodzaj \in Grupa => m,
         NEW v \in [PidyOkien -> BOOLEAN],
         b = a /\ ~m => v = w,
         b # a => v = [p \in PidyOkien |-> (w[p] \/ p = b) /\ p # a /\ ~m]
  PROVE  Poprawne(s, V, b, m, v)
<1>1. s \in Seq(Kroki)
  BY DEF Poprawne
<1>2. CASE m
  <2>1. /\ \A x : Powiadomiony(v, x, m)
        /\ ~m <=> FALSE
    BY <1>2 DEF Powiadomiony
  <2>2. ASSUME s # <<>>, Head(s).rodzaj \in Grupa PROVE Zmiana(Head(s), Tail(s), V, b, m, v)
    <3>1. Zmiana(Head(s), Tail(s), V, a, n, w)
      BY <2>2, Biezacy
    <3>2. QED
      BY <2>1, <3>1 DEF Zmiana
  <2>3. ASSUME s # <<>>, Head(s).rodzaj \notin Grupa PROVE Zwyczajny(Head(s), Tail(s), V, b, m, v)
    <3>1. Zwyczajny(Head(s), Tail(s), V, a, n, w)
      BY <2>3, Biezacy
    <3>2. QED
      BY <2>1, <3>1 DEF Zwyczajny
  <2>4. QED
    BY <1>1, <2>1, <2>2, <2>3 DEF Poprawne
<1>3. CASE ~m /\ b = a
  <2>1. v = w /\ n = m
    BY <1>3
  <2>2. QED
    BY <1>3, <2>1
<1>4. CASE ~m /\ b # a
  <2>1. ~n /\ (s = <<>> \/ Head(s).rodzaj \notin Grupa)
    BY <1>4
  <2>2. Powiadomiony(w, a, n) /\ (s # <<>> => Zwyczajny(Head(s), Tail(s), V, a, n, w))
    BY <2>1 DEF Poprawne, Zwyczajny
  <2>3. Powiadomiony(v, b, m)
    <3>1. SUFFICES ASSUME NEW p \in PidyOkien PROVE v[p] <=> p = b
      BY DEF Powiadomiony
    <3>2. w[p] <=> p = a
      BY <2>1, <2>2 DEF Powiadomiony
    <3>3. v[p] <=> (w[p] \/ p = b) /\ p # a /\ ~m
      BY <1>4
    <3>4. QED
      BY <1>4, <3>2, <3>3
  <2>4. s # <<>> => Zwyczajny(Head(s), Tail(s), V, b, m, v)
    BY <2>2, <2>3 DEF Zwyczajny
  <2>5. QED
    BY <1>1, <2>1, <2>3, <2>4 DEF Poprawne
<1>5. QED
  BY <1>2, <1>3, <1>4

-----------------------------------------------------------------------------
(* The layer on top.                                                       *)
LEMMA NajwiekszaWartosc ==
  ASSUME NEW D, NEW n \in Nat, NEW m \in Nat, NEW z \in [D -> -n .. m], NEW S, S \subseteq D, S # {}
  PROVE  \E p \in S : \A q \in S : z[q] <= z[p]
<1> DEFINE T == {z[q] + n : q \in S}
<1>1. T \subseteq 0 .. n + m /\ T # {} /\ n + m \in Nat
  <2>1. \A q \in S : z[q] \in -n .. m
    OBVIOUS
  <2>2. \A x \in -n .. m : x + n \in 0 .. n + m
    OBVIOUS
  <2>3. QED
    BY <2>1, <2>2
<1>2. PICK x \in T : \A y \in T : x >= y
  BY <1>1, JestNajwieksza
<1>3. PICK p \in S : x = z[p] + n
  BY <1>2
<1>4. ASSUME NEW q \in S PROVE z[q] <= z[p]
  <2>1. z[p] + n >= z[q] + n /\ z[p] \in Int /\ z[q] \in Int
    BY <1>2, <1>3
  <2>2. QED
    BY <2>1
<1>5. QED
  BY <1>3, <1>4

LEMMA Zakres ==
  /\ ZakresZ \subseteq Int /\ MAKS_Z + 1 \in Int
  /\ \E n, m \in Nat : ZakresZ = -n .. m
  /\ \A i \in ZakresZ : i < MAKS_Z => i + 1 \in ZakresZ
  /\ \A i \in 0 .. LiczbaOkien : PIERWSZE_Z + i \in ZakresZ /\ PIERWSZE_Z + i > 0
  /\ \A p \in PidyOkien : PoczatkoweZ[p] \subseteq ZakresZ
  /\ 0 \in ZakresZ
<1>1. PICK n \in Nat : MIN_Z_ORDER = -n
  BY Granica
<1>2. PICK m \in Nat : m = MAX_Z_ORDER
  BY Granica
<1>3. ZakresZ = -n .. m + MAKS_Z + PIERWSZE_Z + LiczbaOkien
  BY <1>1, <1>2 DEF ZakresZ
<1>4. m + MAKS_Z + PIERWSZE_Z + LiczbaOkien \in Nat
  BY <1>2, OknaZalozenia
<1>5. \A p \in PidyOkien : PoczatkoweZ[p] \subseteq -n .. m
  BY <1>1, <1>2, OknaZalozenia
<1> QED
  BY <1>3, <1>4, <1>5, OknaZalozenia

LEMMA PidyToLiczby ==
  /\ PidyOkien \subseteq Nat \ {0} /\ PidyOkien \subseteq 0 .. LiczbaOkien /\ LiczbaOkien \in Nat
  /\ Nikt \notin PidyOkien /\ Menedzer \in PidyOkien
  /\ Widoczne \subseteq PidyOkien /\ Dodatnie \subseteq Widoczne
BY OknaZalozenia DEF PidyOkien, Nikt, Widoczne, Dodatnie

LEMMA NajwiekszeZOrder ==
  ASSUME z_order \in [PidyOkien -> ZakresZ], NEW S, S \subseteq PidyOkien, S # {}
  PROVE  \E p \in S : \A q \in S : z_order[q] <= z_order[p]
<1>1. PICK n \in Nat, m \in Nat : ZakresZ = -n .. m
  BY Zakres
<1>2. z_order \in [PidyOkien -> -n .. m]
  BY <1>1
<1>3. QED
  BY <1>2, NajwiekszaWartosc

LEMMA NajwyzszaJest ==
  ASSUME z_order \in [PidyOkien -> ZakresZ], NEW S, S \subseteq PidyOkien, S # {}
  PROVE  Najwyzsza(S) \in S /\ \A q \in S \ {Najwyzsza(S)} : Ponizej(q, Najwyzsza(S))
<1>1. PICK p \in S : \A q \in S : z_order[q] <= z_order[p]
  BY NajwiekszeZOrder
<1> DEFINE T == {q \in S : z_order[q] = z_order[p]}
<1>2. T \subseteq 0 .. LiczbaOkien /\ T # {} /\ LiczbaOkien \in Nat
  BY PidyToLiczby
<1>3. PICK m \in T : \A q \in T : m >= q
  BY <1>2, JestNajwieksza
<1>4. ASSUME NEW q \in S \ {m} PROVE Ponizej(q, m)
  <2>1. z_order[q] \in Int /\ z_order[p] \in Int /\ z_order[m] = z_order[p] /\ z_order[q] <= z_order[p]
    BY <1>1, <1>3, Zakres
  <2>2. CASE q \in T
    <3>1. q \in Nat /\ m \in Nat /\ q <= m /\ q # m
      BY <1>2, <1>3, <1>4, <2>2
    <3>2. QED
      BY <2>1, <2>2, <3>1 DEF Ponizej
  <2>3. CASE q \notin T
    BY <2>1, <2>3, <1>4 DEF Ponizej
  <2>4. QED
    BY <2>2, <2>3
<1>5. QED
  BY <1>3, <1>4 DEF Najwyzsza

(* The greatest z_order that a search finds.                               *)
LEMMA NajwyzszeZJest ==
  ASSUME z_order \in [PidyOkien -> ZakresZ], Dodatnie # {}
  PROVE  NajwyzszeZ \in ZakresZ /\ \A q \in Dodatnie : z_order[q] <= NajwyzszeZ
<1>1. PICK p \in Dodatnie : \A q \in Dodatnie : z_order[q] <= z_order[p]
  BY NajwiekszeZOrder, PidyToLiczby
<1> DEFINE T == {z_order[q] : q \in Dodatnie}
<1>2. \A q \in Dodatnie : z_order[q] \in ZakresZ /\ z_order[q] \in Int
  BY PidyToLiczby, Zakres
<1>3. z_order[p] \in T /\ \A y \in T : z_order[p] >= y
  BY <1>1, <1>2
<1>4. Max(T) \in T /\ \A y \in T : Max(T) >= y
  BY <1>3 DEF Max
<1>5. NajwyzszeZ = Max(T)
  BY DEF NajwyzszeZ
<1> HIDE DEF T
<1>6. NajwyzszeZ \in ZakresZ
  BY <1>2, <1>4, <1>5 DEF T
<1>7. ASSUME NEW q \in Dodatnie PROVE z_order[q] <= NajwyzszeZ
  <2>1. z_order[q] \in T
    BY DEF T
  <2>2. NajwyzszeZ >= z_order[q] /\ z_order[q] \in Int /\ NajwyzszeZ \in Int
    BY <1>2, <1>4, <1>5, <1>6, <2>1, Zakres
  <2>3. QED
    BY <2>2
<1>8. QED
  BY <1>6, <1>7

-----------------------------------------------------------------------------
(* Raising a layer.  Its new number is above the others, whose order stays *)
(* as it was, also when they are numbered anew.                            *)
Podniesiona(y, p) ==
  /\ y \in [PidyOkien -> ZakresZ]
  /\ \A q \in PidyOkien : y[q] > 0 <=> z_order[q] > 0
  /\ \A q \in Dodatnie \ {p} : y[q] < y[p]
  /\ \A q, r \in Dodatnie \ {p} : z_order[q] < z_order[r] => y[q] < y[r]

LEMMA PodniesionaZwykle ==
  ASSUME z_order \in [PidyOkien -> ZakresZ], NEW p \in Dodatnie, NEW maks \in ZakresZ,
         \A q \in Dodatnie : z_order[q] <= maks, maks < MAKS_Z
  PROVE  Podniesiona(Podniesione(p, maks), p)
<1> DEFINE y == Podniesione(p, maks)
<1>1. y = [z_order EXCEPT ![p] = maks + 1]
  BY DEF Podniesione
<1>2. p \in PidyOkien /\ z_order[p] > 0 /\ z_order[p] <= maks
  BY PidyToLiczby DEF Dodatnie
<1>3. maks \in Int /\ MAKS_Z \in Int /\ \A q \in PidyOkien : z_order[q] \in Int
  BY Zakres, OknaZalozenia
<1>4. maks + 1 \in ZakresZ /\ maks + 1 > 0
  BY <1>2, <1>3, Zakres
<1>5. /\ y \in [PidyOkien -> ZakresZ]
      /\ y[p] = maks + 1 /\ \A q \in PidyOkien \ {p} : y[q] = z_order[q]
  BY <1>1, <1>2, <1>4
<1> HIDE DEF y
<1>6. \A q \in Dodatnie \ {p} : y[q] = z_order[q] /\ z_order[q] <= maks /\ z_order[q] \in Int
  BY <1>3, <1>5, PidyToLiczby
<1>7. \A q \in PidyOkien : y[q] > 0 <=> z_order[q] > 0
  BY <1>2, <1>4, <1>5
<1>8. \A q \in Dodatnie \ {p} : y[q] < y[p]
  BY <1>3, <1>5, <1>6
<1>9. \A q, r \in Dodatnie \ {p} : z_order[q] < z_order[r] => y[q] < y[r]
  BY <1>6
<1>10. Podniesiona(y, p)
  BY <1>5, <1>7, <1>8, <1>9 DEF Podniesiona
<1>11. QED
  BY <1>10 DEF y

LEMMA PodniesionaNaNowo ==
  ASSUME z_order \in [PidyOkien -> ZakresZ], NEW p \in Dodatnie, NEW maks \in ZakresZ,
         ~ (maks < MAKS_Z)
  PROVE  Podniesiona(Podniesione(p, maks), p)
<1> DEFINE y == Podniesione(p, maks)
           Nizej(q) == {r \in Dodatnie : Ponizej(r, q)}
<1>1. IsFiniteSet(Dodatnie) /\ Cardinality(Dodatnie) \in 0 .. LiczbaOkien
  <2>1. IsFiniteSet(1 .. LiczbaOkien) /\ Cardinality(1 .. LiczbaOkien) = LiczbaOkien
    BY FS_Interval, PidyToLiczby
  <2>2. Dodatnie \in SUBSET (1 .. LiczbaOkien)
    BY PidyToLiczby DEF PidyOkien
  <2>3. IsFiniteSet(Dodatnie) /\ Cardinality(Dodatnie) <= LiczbaOkien
    BY <2>1, <2>2, FS_Subset
  <2>4. Cardinality(Dodatnie) \in Nat
    BY <2>3, FS_CardinalityType
  <2>5. QED
    BY <2>3, <2>4, PidyToLiczby
<1>2. \A q \in PidyOkien : z_order[q] \in Int /\ q \in Int
  BY Zakres, PidyToLiczby
<1>3. ASSUME NEW q \in Dodatnie
      PROVE  /\ IsFiniteSet(Nizej(q)) /\ Cardinality(Nizej(q)) \in 0 .. LiczbaOkien
             /\ Cardinality(Nizej(q)) < Cardinality(Dodatnie)
  <2>1. Nizej(q) \in SUBSET Dodatnie /\ Nizej(q) # Dodatnie
    <3>1. ~ Ponizej(q, q)
      BY <1>2, PidyToLiczby DEF Ponizej
    <3>2. QED
      BY <3>1
  <2>2. /\ IsFiniteSet(Nizej(q)) /\ Cardinality(Nizej(q)) <= Cardinality(Dodatnie)
        /\ Cardinality(Dodatnie) # Cardinality(Nizej(q))
    BY <1>1, <2>1, FS_Subset
  <2>3. Cardinality(Nizej(q)) \in Nat
    BY <2>2, FS_CardinalityType
  <2>4. ASSUME NEW c \in Nat, NEW d \in 0 .. LiczbaOkien, c <= d, d # c
        PROVE  c \in 0 .. LiczbaOkien /\ c < d
    BY <2>4, PidyToLiczby
  <2> HIDE DEF Nizej
  <2>5. Cardinality(Nizej(q)) \in 0 .. LiczbaOkien /\ Cardinality(Nizej(q)) < Cardinality(Dodatnie)
    BY <1>1, <2>2, <2>3, <2>4
  <2>6. QED
    BY <2>2, <2>5
<1>4. ASSUME NEW q \in Dodatnie, NEW r \in Dodatnie, z_order[q] < z_order[r]
      PROVE  Cardinality(Nizej(q)) < Cardinality(Nizej(r))
  <2>1. q \in PidyOkien /\ r \in PidyOkien /\ Dodatnie \subseteq PidyOkien
    BY PidyToLiczby
  <2>2. \A u \in Dodatnie : Ponizej(u, q) => Ponizej(u, r)
    BY <1>2, <1>4, <2>1 DEF Ponizej
  <2>3. Ponizej(q, r) /\ ~ Ponizej(q, q)
    BY <1>2, <1>4, <2>1 DEF Ponizej
  <2>4. Nizej(q) \in SUBSET Nizej(r) /\ Nizej(q) # Nizej(r)
    BY <2>2, <2>3
  <2>5. IsFiniteSet(Nizej(r)) /\ IsFiniteSet(Nizej(q))
    BY <1>3
  <2> HIDE DEF Nizej
  <2>6. Cardinality(Nizej(q)) <= Cardinality(Nizej(r)) /\ Cardinality(Nizej(r)) # Cardinality(Nizej(q))
    BY <2>4, <2>5, FS_Subset
  <2>7. Cardinality(Nizej(q)) \in Nat /\ Cardinality(Nizej(r)) \in Nat
    BY <2>5, FS_CardinalityType
  <2>8. QED
    BY <2>6, <2>7
<1>5. y = [q \in PidyOkien |->
             CASE q = p -> PIERWSZE_Z + Cardinality(Dodatnie)
               [] q # p /\ q \in Dodatnie -> PIERWSZE_Z + Cardinality(Nizej(q))
               [] OTHER -> z_order[q]]
  BY DEF Podniesione
<1>6. p \in PidyOkien /\ z_order[p] > 0 /\ \A q \in Dodatnie : q \in PidyOkien /\ z_order[q] > 0
  BY PidyToLiczby DEF Dodatnie
<1> HIDE DEF y, Nizej
<1>7. /\ y[p] = PIERWSZE_Z + Cardinality(Dodatnie)
      /\ \A q \in Dodatnie \ {p} : y[q] = PIERWSZE_Z + Cardinality(Nizej(q))
      /\ \A q \in PidyOkien \ (Dodatnie \cup {p}) : y[q] = z_order[q]
  BY <1>5, <1>6
<1>8. /\ y[p] \in ZakresZ /\ y[p] > 0
      /\ \A q \in Dodatnie \ {p} : y[q] \in ZakresZ /\ y[q] > 0
  BY <1>1, <1>3, <1>7, Zakres
<1>9. \A q \in PidyOkien : y[q] \in ZakresZ
  BY <1>7, <1>8
<1>10. y \in [PidyOkien -> ZakresZ]
  <2>1. y = [q \in PidyOkien |-> y[q]]
    BY <1>5
  <2>2. QED
    BY <1>9, <2>1
<1>11. \A q \in PidyOkien : y[q] > 0 <=> z_order[q] > 0
  BY <1>6, <1>7, <1>8
<1>12. PIERWSZE_Z \in Nat
  BY OknaZalozenia
<1>13. \A q \in Dodatnie \ {p} : y[q] < y[p]
  <2>1. SUFFICES ASSUME NEW q \in Dodatnie \ {p} PROVE y[q] < y[p]
    OBVIOUS
  <2>2. /\ Cardinality(Nizej(q)) \in Int /\ Cardinality(Dodatnie) \in Int
        /\ Cardinality(Nizej(q)) < Cardinality(Dodatnie)
    BY <1>1, <1>3
  <2>3. QED
    BY <1>7, <1>12, <2>2
<1>14. \A q, r \in Dodatnie \ {p} : z_order[q] < z_order[r] => y[q] < y[r]
  <2>1. SUFFICES ASSUME NEW q \in Dodatnie \ {p}, NEW r \in Dodatnie \ {p}, z_order[q] < z_order[r]
                 PROVE  y[q] < y[r]
    OBVIOUS
  <2>2. /\ Cardinality(Nizej(q)) \in Int /\ Cardinality(Nizej(r)) \in Int
        /\ Cardinality(Nizej(q)) < Cardinality(Nizej(r))
    BY <1>3, <1>4, <2>1
  <2>3. QED
    BY <1>7, <1>12, <2>2
<1>15. Podniesiona(y, p)
  BY <1>10, <1>11, <1>13, <1>14 DEF Podniesiona
<1>16. QED
  BY <1>15 DEF y

LEMMA PodniesionaJest ==
  ASSUME z_order \in [PidyOkien -> ZakresZ], NEW p \in Dodatnie, NEW maks \in ZakresZ,
         \A q \in Dodatnie : z_order[q] <= maks
  PROVE  Podniesiona(Podniesione(p, maks), p)
BY PodniesionaZwykle, PodniesionaNaNowo

-----------------------------------------------------------------------------
(* The order of raising.                                                   *)
LEMMA MniejUporzadkowanych ==
  ASSUME NEW P, NEW V, NEW z, NEW w, Uporzadkowane(P, V, z, w),
         NEW V2, NEW w2, V2 \ w2 \subseteq V \ w
  PROVE  Uporzadkowane(P, V2, z, w2)
BY DEF Uporzadkowane

LEMMA CoToBezNiej ==
  ASSUME podniesienia \subseteq PidyOkien \X PidyOkien, NEW p
  PROVE  /\ BezNiej(p) \subseteq PidyOkien \X PidyOkien
         /\ \A q, r \in PidyOkien :
              <<q, r>> \in BezNiej(p) <=> q # p /\ r # p /\ <<q, r>> \in podniesienia
BY DEF BezNiej

LEMMA CoToNaKoncu ==
  ASSUME podniesienia \subseteq PidyOkien \X PidyOkien, NEW p \in PidyOkien, ~naruszony
  PROVE  /\ NaKoncu(p) \subseteq PidyOkien \X PidyOkien
         /\ \A q, r \in PidyOkien :
              <<q, r>> \in NaKoncu(p) <=>
                \/ q # p /\ r # p /\ <<q, r>> \in podniesienia
                \/ r = p /\ (q = p \/ <<q, q>> \in podniesienia)
<1> DEFINE K == {q \in PidyOkien : q = p \/ BylaPodniesiona(q)}
<1>1. NaKoncu(p) = BezNiej(p) \cup {<<q, p>> : q \in K}
  BY DEF NaKoncu
<1>2. {<<q, p>> : q \in K} \subseteq PidyOkien \X PidyOkien
  OBVIOUS
<1>3. ASSUME NEW q \in PidyOkien, NEW r \in PidyOkien
      PROVE  <<q, r>> \in {<<u, p>> : u \in K} <=> r = p /\ (q = p \/ <<q, q>> \in podniesienia)
  BY DEF BylaPodniesiona
<1>4. QED
  BY <1>1, <1>2, <1>3, CoToBezNiej

LEMMA BezJednej ==
  ASSUME podniesienia \subseteq PidyOkien \X PidyOkien, NEW p \in PidyOkien,
         NEW V, NEW z, NEW w, V \subseteq PidyOkien, Uporzadkowane(podniesienia, V, z, w),
         NEW V2, NEW z2, NEW w2, V2 \ w2 \subseteq (V \ w) \ {p},
         \A q \in PidyOkien \ {p} : z2[q] = z[q]
  PROVE  Uporzadkowane(BezNiej(p), V2, z2, w2)
<1> DEFINE P == BezNiej(p)
<1>1. \A q, r \in PidyOkien : <<q, r>> \in P <=> q # p /\ r # p /\ <<q, r>> \in podniesienia
  BY CoToBezNiej
<1> HIDE DEF P
<1>2. \A q, r \in PidyOkien :
       /\ <<q, q>> \in P /\ <<r, r>> \in P => <<q, r>> \in P \/ <<r, q>> \in P
       /\ <<q, r>> \in P => <<q, q>> \in P /\ <<r, r>> \in P
  BY <1>1 DEF Uporzadkowane
<1>3. \A q \in PidyOkien : <<q, q>> \in P => z2[q] > 0
  BY <1>1 DEF Uporzadkowane
<1>4. \A q \in V2 \ w2 : q \in PidyOkien \ {p} /\ q \in V \ w /\ z2[q] = z[q]
  OBVIOUS
<1>5. \A q \in V2 \ w2 : z2[q] > 0 => <<q, q>> \in P
  BY <1>1, <1>4 DEF Uporzadkowane
<1>6. \A q, r \in V2 \ w2 : <<q, r>> \in P /\ q # r => z2[q] < z2[r]
  BY <1>1, <1>4 DEF Uporzadkowane
<1>7. Uporzadkowane(P, V2, z2, w2)
  BY <1>2, <1>3, <1>5, <1>6 DEF Uporzadkowane
<1>8. QED
  BY <1>7 DEF P

LEMMA PoPodniesieniu ==
  ASSUME podniesienia \subseteq PidyOkien \X PidyOkien, NEW p \in Dodatnie, ~naruszony,
         NEW y, Podniesiona(y, p), NEW w, Uporzadkowane(podniesienia, Widoczne, z_order, w)
  PROVE  Uporzadkowane(NaKoncu(p), Widoczne, y, w \ {p})
<1> DEFINE P == NaKoncu(p)
<1>0. p \in PidyOkien /\ p \in Widoczne /\ z_order[p] > 0 /\ Widoczne \subseteq PidyOkien
  BY PidyToLiczby DEF Dodatnie
<1>1. \A q, r \in PidyOkien :
        <<q, r>> \in P <=> \/ q # p /\ r # p /\ <<q, r>> \in podniesienia
                           \/ r = p /\ (q = p \/ <<q, q>> \in podniesienia)
  BY <1>0, CoToNaKoncu
<1> HIDE DEF P
<1>2. \A q, r \in PidyOkien :
       /\ <<q, q>> \in P /\ <<r, r>> \in P => <<q, r>> \in P \/ <<r, q>> \in P
       /\ <<q, r>> \in P => <<q, q>> \in P /\ <<r, r>> \in P
  <2> SUFFICES ASSUME NEW q \in PidyOkien, NEW r \in PidyOkien
               PROVE  /\ <<q, q>> \in P /\ <<r, r>> \in P => <<q, r>> \in P \/ <<r, q>> \in P
                      /\ <<q, r>> \in P => <<q, q>> \in P /\ <<r, r>> \in P
    OBVIOUS
  <2>1. /\ <<q, q>> \in podniesienia /\ <<r, r>> \in podniesienia
           => <<q, r>> \in podniesienia \/ <<r, q>> \in podniesienia
        /\ <<q, r>> \in podniesienia
           => <<q, q>> \in podniesienia /\ <<r, r>> \in podniesienia
    BY DEF Uporzadkowane
  <2>2. /\ <<q, q>> \in P <=> q = p \/ <<q, q>> \in podniesienia
        /\ <<r, r>> \in P <=> r = p \/ <<r, r>> \in podniesienia
        /\ <<q, r>> \in P <=> \/ q # p /\ r # p /\ <<q, r>> \in podniesienia
                              \/ r = p /\ (q = p \/ <<q, q>> \in podniesienia)
        /\ <<r, q>> \in P <=> \/ r # p /\ q # p /\ <<r, q>> \in podniesienia
                              \/ q = p /\ (r = p \/ <<r, r>> \in podniesienia)
    BY <1>1
  <2>3. QED
    BY ONLY <2>1, <2>2
<1>3. \A q \in PidyOkien : <<q, q>> \in P => y[q] > 0
  <2> SUFFICES ASSUME NEW q \in PidyOkien, <<q, q>> \in P PROVE y[q] > 0
    OBVIOUS
  <2>1. q = p \/ <<q, q>> \in podniesienia
    BY <1>1
  <2>2. z_order[q] > 0
    BY <1>0, <2>1 DEF Uporzadkowane
  <2>3. QED
    BY <2>2 DEF Podniesiona
<1>4. \A q \in Widoczne \ (w \ {p}) : y[q] > 0 => <<q, q>> \in P
  BY <1>0, <1>1 DEF Uporzadkowane, Podniesiona
<1>5. ASSUME NEW q \in Widoczne \ (w \ {p}), NEW r \in Widoczne \ (w \ {p}),
             <<q, r>> \in P, q # r
      PROVE  y[q] < y[r]
  <2>1. q \in PidyOkien /\ r \in PidyOkien
    BY <1>0
  <2>2. CASE r = p
    <3>1. <<q, q>> \in podniesienia
      BY <1>1, <1>5, <2>1, <2>2
    <3>2. q \in Dodatnie \ {p}
      BY <1>5, <2>1, <2>2, <3>1 DEF Uporzadkowane, Dodatnie
    <3>3. QED
      BY <2>2, <3>2 DEF Podniesiona
  <2>3. CASE r # p
    <3>1. q # p /\ <<q, r>> \in podniesienia
      BY <1>1, <1>5, <2>1, <2>3
    <3>2. z_order[q] < z_order[r]
      BY <1>5, <2>3, <3>1 DEF Uporzadkowane
    <3>3. q \in Dodatnie \ {p} /\ r \in Dodatnie \ {p}
      BY <1>5, <2>1, <2>3, <3>1 DEF Uporzadkowane, Dodatnie
    <3>4. QED
      BY <3>2, <3>3 DEF Podniesiona
  <2>4. QED
    BY <2>2, <2>3
<1>6. Uporzadkowane(P, Widoczne, y, w \ {p})
  BY <1>2, <1>3, <1>4, <1>5 DEF Uporzadkowane
<1>7. QED
  BY <1>6 DEF P

(* At rest the layer found under the pointer is the one that was raised    *)
(* last.                                                                   *)
LEMMA TrafionaNaWierzchu ==
  ASSUME z_order \in [PidyOkien -> ZakresZ], Uporzadkowane(podniesienia, Widoczne, z_order, {}),
         NEW punkt
  PROVE  znajdz_warstwe_pod_punktem(punkt) = NaWierzchu(punkt)
<1> DEFINE tu == {p \in Widoczne : punkt \in Obszar[p]}
           w  == {p \in tu : BylaPodniesiona(p)}
           m  == Najwyzsza(tu)
<1>1. CASE system_overlay # Nikt \/ w = {}
  BY <1>1 DEF znajdz_warstwe_pod_punktem, NaWierzchu
<1>2. CASE system_overlay = Nikt /\ w # {}
  <2>0. tu \subseteq Widoczne /\ Widoczne \subseteq PidyOkien /\ tu # {}
    BY <1>2, PidyToLiczby
  <2>1. m \in tu /\ \A q \in tu \ {m} : Ponizej(q, m)
    BY <2>0, NajwyzszaJest
  <2>2. NaWierzchu(punkt) = CHOOSE p \in w : \A q \in w : <<q, p>> \in podniesienia
    BY <1>2 DEF NaWierzchu
  <2>3. \A q \in w : q \in tu /\ <<q, q>> \in podniesienia
    BY DEF BylaPodniesiona
  <2>4. \A q \in tu : q \in PidyOkien /\ q \in Widoczne /\ z_order[q] \in Int
    BY <2>0, Zakres
  <2>5. znajdz_warstwe_pod_punktem(punkt) = m
    BY <1>2 DEF znajdz_warstwe_pod_punktem
  <2>6. \A q \in tu \ {m} : z_order[q] <= z_order[m]
    BY <2>1, <2>4 DEF Ponizej
  <2>7. m \in w
    <3>1. PICK q \in w : TRUE
      BY <1>2
    <3>2. z_order[q] > 0
      BY <2>3, <2>4 DEF Uporzadkowane
    <3>3. z_order[m] > 0
      BY <2>1, <2>3, <2>4, <2>6, <3>2
    <3>4. QED
      BY <2>1, <2>4, <3>3 DEF Uporzadkowane, BylaPodniesiona
  <2> HIDE DEF tu, m, w
  <2>8. ASSUME NEW q \in w PROVE <<q, m>> \in podniesienia
    <3>1. CASE q = m
      BY <2>3, <2>7, <3>1
    <3>2. CASE q # m
      <4>1. <<q, m>> \in podniesienia \/ <<m, q>> \in podniesienia
        BY <2>3, <2>4, <2>7 DEF Uporzadkowane
      <4>2. <<m, q>> \notin podniesienia
        <5>1. ASSUME <<m, q>> \in podniesienia PROVE z_order[m] < z_order[q]
          BY <2>3, <2>4, <2>7, <3>2, <5>1 DEF Uporzadkowane
        <5>2. z_order[q] <= z_order[m] /\ z_order[q] \in Int /\ z_order[m] \in Int
          BY <2>3, <2>4, <2>6, <2>7, <3>2
        <5>3. QED
          BY <5>1, <5>2
      <4>3. QED
        BY <4>1, <4>2
    <3>3. QED
      BY <3>1, <3>2
  <2>9. ASSUME NEW p \in w, \A q \in w : <<q, p>> \in podniesienia PROVE p = m
    <3>1. SUFFICES ASSUME p # m PROVE FALSE
      OBVIOUS
    <3>2. <<m, p>> \in podniesienia
      BY <2>7, <2>9
    <3>3. z_order[m] < z_order[p]
      BY <2>3, <2>4, <2>7, <3>1, <3>2 DEF Uporzadkowane
    <3>4. z_order[p] <= z_order[m] /\ z_order[p] \in Int /\ z_order[m] \in Int
      BY <2>3, <2>4, <2>6, <2>7, <3>1
    <3>5. QED
      BY <3>3, <3>4
  <2>10. NaWierzchu(punkt) = m
    BY <2>2, <2>7, <2>8, <2>9
  <2>11. QED
    BY <2>5, <2>10
<1>3. QED
  BY <1>1, <1>2

-----------------------------------------------------------------------------
(* What the steps of calls have in common.                                 *)
LEMMA NastepnyPozny ==
  ASSUME NEW V, NEW a, NEW n, NEW w, NEW s, Poprawne(s, V, a, n, w), s # <<>>, Tail(s) # <<>>
  PROVE  Head(Tail(s)).rodzaj \notin Pojedyncze
<1> DEFINE h == Head(s)
           t == Tail(s)
<1>0. \A t2 : t2 \in Seq(Pozne(V)) /\ t2 # <<>> => Head(t2).rodzaj \notin Pojedyncze
  <2>1. SUFFICES ASSUME NEW t2 \in Seq(Pozne(V)), t2 # <<>> PROVE Head(t2).rodzaj \notin Pojedyncze
    OBVIOUS
  <2>2. Head(t2) \in Pozne(V)
    BY <2>1, Czolo
  <2>3. QED
    BY <2>2 DEF Pozne, Zwykle, Pojedyncze
<1>1. \A x \in Ktos : PoBlur(t, x, V) => Head(t).rodzaj \notin Pojedyncze
  <2>1. SUFFICES ASSUME NEW x \in Ktos, PoBlur(t, x, V) PROVE Head(t).rodzaj \notin Pojedyncze
    OBVIOUS
  <2>2. Krok("fokus", x).rodzaj = "fokus"
    BY KrokToKrok DEF Grupa
  <2>3. QED
    BY <1>0, <2>1, <2>2 DEF PoBlur, Pojedyncze
<1>2. \A b \in Ktos, x \in Ktos : PoAktywnym(t, b, x, V) => Head(t).rodzaj \notin Pojedyncze
  <2>1. SUFFICES ASSUME NEW b \in Ktos, NEW x \in Ktos, PoAktywnym(t, b, x, V)
                 PROVE  Head(t).rodzaj \notin Pojedyncze
    OBVIOUS
  <2>2. Krok("blur", b).rodzaj = "blur"
    BY KrokToKrok DEF Grupa
  <2>3. QED
    BY <1>1, <2>1, <2>2 DEF PoAktywnym, Pojedyncze
<1>3. h.pid \in Ktos /\ t \in Seq(Kroki)
  BY Biezacy
<1>4. CASE h.rodzaj \in Grupa
  <2>1. Zmiana(h, t, V, a, n, w)
    BY <1>4, Biezacy
  <2>2. QED
    BY <1>0, <1>1, <1>2, <1>3, <1>4, <2>1 DEF Zmiana, Grupa
<1>5. CASE h.rodzaj \notin Grupa
  <2>1. Zwyczajny(h, t, V, a, n, w)
    BY <1>5, Biezacy
  <2>2. CASE h.rodzaj # "publikuj"
    BY <1>0, <2>1, <2>2 DEF Zwyczajny
  <2>3. CASE h.rodzaj = "publikuj"
    <3>1. t = <<Krok("focus", h.pid), Krok("podnies", h.pid)>>
      BY <2>1, <2>3 DEF Zwyczajny
    <3>2. /\ Krok("focus", h.pid).rodzaj = "focus" /\ Krok("focus", h.pid) \in Kroki
          /\ Krok("podnies", h.pid) \in Kroki
      BY <1>3, KrokToKrok DEF Zwykle
    <3>3. Head(t) = Krok("focus", h.pid)
      <4>1. \A k, m \in Kroki : Head(<<k, m>>) = k
        OBVIOUS
      <4>2. QED
        BY <3>1, <3>2, <4>1
    <3>4. QED
      BY <3>2, <3>3 DEF Pojedyncze
  <2>4. QED
    BY <2>2, <2>3
<1>6. QED
  BY <1>4, <1>5

LEMMA ObecniDalej ==
  ASSUME NEW V, NEW a, NEW c, NEW o, NEW s, Obecni(s, V, a, c, o), s # <<>>,
         Head(s).rodzaj \notin {"publikuj", "porzuc", "stan"},
         NEW a2, NEW c2 \in V \cup {Nikt, c}, NEW s2,
         a2 \in V \cup {Nikt} \/ (a2 = a /\ (Odbiera(s) => Odbiera(s2)))
  PROVE  Obecni(s2, V, a2, c2, o)
BY DEF Obecni, Zwisa, Publikuje

(* A step that leaves the layers alone.                                    *)
LEMMA BezWarstwTrafnie ==
  ASSUME InwOkien, UNCHANGED <<stan_warstwy, z_order, podniesienia, naruszony>>, ~chybiony',
         system_overlay' \in {Nikt, Menedzer}, aktywny_pid_gui' \in Ktos, capture_pid_gui' \in Ktos,
         widok' \in [PidyOkien -> BOOLEAN],
         Poprawne(wywolanie', Widoczne, aktywny_pid_gui', naruszony, widok'),
         Obecni(wywolanie', Widoczne, aktywny_pid_gui', capture_pid_gui', system_overlay'),
         WKolejnosci(podniesienia, Widoczne, z_order, wywolanie', naruszony)
  PROVE  InwOkien'
<1>1. Widoczne' = Widoczne
  BY DEF Widoczne, pobierz_warstwe
<1>2. TypyOkien'
  BY DEF InwOkien, TypyOkien
<1>3. Wywolania' /\ Adresaci' /\ Kolejnosc'
  BY <1>1 DEF Wywolania, Adresaci, Kolejnosc
<1>4. QED
  BY <1>2, <1>3 DEF InwOkien

LEMMA BezWarstw ==
  /\ InwOkien
  /\ UNCHANGED <<stan_warstwy, z_order, podniesienia, naruszony, chybiony>>
  /\ system_overlay' \in {Nikt, Menedzer} /\ aktywny_pid_gui' \in Ktos /\ capture_pid_gui' \in Ktos
  /\ widok' \in [PidyOkien -> BOOLEAN]
  /\ Poprawne(wywolanie', Widoczne, aktywny_pid_gui', naruszony, widok')
  /\ Obecni(wywolanie', Widoczne, aktywny_pid_gui', capture_pid_gui', system_overlay')
  /\ WKolejnosci(podniesienia, Widoczne, z_order, wywolanie', naruszony)
  => InwOkien'
<1>1. InwOkien /\ UNCHANGED chybiony => ~chybiony'
  BY DEF InwOkien
<1>2. QED
  BY <1>1, BezWarstwTrafnie

LEMMA TaSamaKolejnosc ==
  ASSUME NEW P, NEW V, NEW z, NEW s, NEW n, WKolejnosci(P, V, z, s, n),
         NEW s2, Podnoszone(s) \subseteq Podnoszone(s2),
         s2 # <<>> => Head(s2).rodzaj # "z"
  PROVE  WKolejnosci(P, V, z, s2, n)
BY MniejUporzadkowanych DEF WKolejnosci

(* The parts of the invariant, at a step of the kind r.                    *)
LEMMA WKroku ==
  ASSUME InwOkien, NEW r, Teraz(r)
  PROVE  /\ wywolanie # <<>> /\ wywolanie \in Seq(Kroki) /\ Head(wywolanie).rodzaj = r
         /\ Pid = Head(wywolanie).pid /\ Pid \in Ktos /\ Head(wywolanie).z \in ZakresZ
         /\ Tail(wywolanie) \in Seq(Kroki)
         /\ Poprawne(wywolanie, Widoczne, aktywny_pid_gui, naruszony, widok)
         /\ r \in Grupa => Zmiana(Head(wywolanie), Tail(wywolanie), Widoczne, aktywny_pid_gui,
                                  naruszony, widok)
         /\ r \notin Grupa => Zwyczajny(Head(wywolanie), Tail(wywolanie), Widoczne,
                                        aktywny_pid_gui, naruszony, widok)
         /\ Obecni(wywolanie, Widoczne, aktywny_pid_gui, capture_pid_gui, system_overlay)
         /\ WKolejnosci(podniesienia, Widoczne, z_order, wywolanie, naruszony)
         /\ TypyOkien
         /\ <<>> \o Tail(wywolanie) = Tail(wywolanie)
<1>1. wywolanie # <<>> /\ Head(wywolanie).rodzaj = r
  BY DEF Teraz
<1>2. Poprawne(wywolanie, Widoczne, aktywny_pid_gui, naruszony, widok)
  BY DEF InwOkien, Wywolania
<1>3. QED
  BY <1>1, <1>2, Biezacy, Pusta DEF InwOkien, Adresaci, Kolejnosc, Pid

(* The order of raising when a step that raises nothing is replaced by     *)
(* steps u.                                                                *)
LEMMA KolejnoscDalej ==
  ASSUME InwOkien, NEW r, Teraz(r), r \notin {"publikuj", "podnies", "z"},
         NEW u \in Seq(Kroki), u # <<>> => Head(u).rodzaj # "z"
  PROVE  WKolejnosci(podniesienia, Widoczne, z_order, u \o Tail(wywolanie), naruszony)
<1> DEFINE s == u \o Tail(wywolanie)
<1>0. /\ wywolanie # <<>> /\ wywolanie \in Seq(Kroki) /\ Tail(wywolanie) \in Seq(Kroki)
      /\ Head(wywolanie).rodzaj = r
      /\ Poprawne(wywolanie, Widoczne, aktywny_pid_gui, naruszony, widok)
      /\ WKolejnosci(podniesienia, Widoczne, z_order, wywolanie, naruszony)
  BY WKroku
<1>1. Podnosi(Head(wywolanie)) = {}
  BY <1>0 DEF Podnosi
<1>2. Podnoszone(wywolanie) \subseteq Podnoszone(s)
  BY <1>0, <1>1, PodnoszoneKrok
<1>3. s # <<>> => Head(s).rodzaj # "z"
  <2>1. CASE u = <<>>
    <3>1. s = Tail(wywolanie)
      BY <1>0, <2>1, Pusta
    <3>2. QED
      BY <1>0, <3>1, NastepnyPozny DEF Pojedyncze
  <2>2. CASE u # <<>>
    <3>1. Head(s) = Head(u)
      BY <1>0, <2>2
    <3>2. QED
      BY <2>2, <3>1
  <2>3. QED
    BY <2>1, <2>2
<1> HIDE DEF s
<1>4. WKolejnosci(podniesienia, Widoczne, z_order, s, naruszony)
  BY <1>0, <1>2, <1>3, TaSamaKolejnosc
<1>5. QED
  BY <1>4 DEF s

-----------------------------------------------------------------------------
(* The steps of calls.                                                     *)
LEMMA ZmienFocusInw == InwOkien /\ ZmienFocus => InwOkien'
<1> SUFFICES ASSUME InwOkien, ZmienFocus PROVE InwOkien'
  OBVIOUS
<1> DEFINE V == Widoczne
           a == aktywny_pid_gui
           t == Tail(wywolanie)
           u == IF Pid = a THEN <<>> ELSE PelnaZmiana(a, Pid)
<1>1. /\ Teraz("focus") /\ wywolanie' = u \o t
      /\ UNCHANGED <<stan_warstwy, z_order, podniesienia, naruszony, chybiony>>
      /\ UNCHANGED <<aktywny_pid_gui, capture_pid_gui, system_overlay, widok>>
  BY DEF ZmienFocus, Dalej, PelnaZmiana, warstwy, adresy, mysz
<1>2. /\ wywolanie # <<>> /\ Pid = Head(wywolanie).pid /\ Pid \in Ktos /\ t \in Seq(Kroki)
      /\ Head(wywolanie).rodzaj = "focus" /\ TypyOkien /\ <<>> \o t = t
      /\ Zwyczajny(Head(wywolanie), t, V, a, naruszony, widok)
      /\ Obecni(wywolanie, V, a, capture_pid_gui, system_overlay)
  BY <1>1, WKroku DEF Grupa
<1>3. Pid \in V \cup {Nikt} /\ t \in Seq(Pozne(V)) /\ Powiadomiony(widok, a, naruszony) /\ a \in Ktos
  BY <1>2 DEF Zwyczajny, TypyOkien
<1>4. u \in Seq(Kroki) /\ (u # <<>> => Head(u).rodzaj # "z")
  <2>1. /\ Krok("aktywny", Pid) \in Kroki /\ Krok("aktywny", Pid).rodzaj = "aktywny"
        /\ Krok("blur", a) \in Kroki /\ Krok("fokus", Pid) \in Kroki
    BY <1>2, <1>3, KrokToKrok DEF Grupa
  <2>2. Powiadom("blur", a) \in Seq(Kroki) /\ Powiadom("fokus", Pid) \in Seq(Kroki)
    BY <2>1 DEF Powiadom
  <2>3. Powiadom("blur", a) \o Powiadom("fokus", Pid) \in Seq(Kroki)
    BY <2>2
  <2>4. <<Krok("aktywny", Pid)>> \o Powiadom("blur", a) \o Powiadom("fokus", Pid)
          = <<Krok("aktywny", Pid)>> \o (Powiadom("blur", a) \o Powiadom("fokus", Pid))
    BY <2>1, <2>2, ConcatAssociative, <<Krok("aktywny", Pid)>> \in Seq(Kroki)
  <2>5. CASE Pid = a
    BY <2>5, Pusta
  <2>6. CASE Pid # a
    BY <2>1, <2>3, <2>4, <2>6, NaPoczatek DEF PelnaZmiana
  <2>7. QED
    BY <2>5, <2>6
<1>5. WKolejnosci(podniesienia, V, z_order, u \o t, naruszony)
  BY <1>1, <1>4, KolejnoscDalej
<1>6. /\ Poprawne(u \o t, V, a, naruszony, widok)
      /\ Obecni(u \o t, V, a, capture_pid_gui, system_overlay)
  <2>1. CASE Pid = a
    <3>1. u \o t = t
      BY <1>2, <2>1
    <3>2. Poprawne(t, V, a, naruszony, widok)
      BY <1>3, ZostalyPozne
    <3>3. Obecni(t, V, a, capture_pid_gui, system_overlay)
      BY <1>2, <1>3, <2>1, ObecniDalej
    <3>4. QED
      BY <3>1, <3>2, <3>3
  <2>2. CASE Pid # a
    <3>1. /\ Poprawne(u \o t, V, a, naruszony, widok) /\ u \o t # <<>>
          /\ Head(u \o t) = Krok("aktywny", Pid)
      <4>1. V \subseteq PidyOkien /\ u = PelnaZmiana(a, Pid)
        BY <2>2, PidyToLiczby
      <4> HIDE DEF u, t, a, V
      <4>2. QED
        BY <1>3, <4>1, Przekazanie
    <3> HIDE DEF u
    <3>2. Odbiera(wywolanie) => Odbiera(u \o t)
      <4>1. Krok("aktywny", Pid).rodzaj = "aktywny" /\ Krok("aktywny", Pid).pid = Pid
        BY <1>2, KrokToKrok DEF Grupa
      <4>2. QED
        BY <1>2, <3>1, <4>1 DEF Odbiera
    <3>3. Obecni(u \o t, V, a, capture_pid_gui, system_overlay)
      BY <1>2, <3>2, ObecniDalej
    <3>4. QED
      BY <3>1, <3>3
  <2>3. QED
    BY <2>1, <2>2
<1> HIDE DEF u, t, V
<1>7. QED
  BY <1>1, <1>2, <1>5, <1>6, BezWarstw DEF TypyOkien, V

LEMMA ZapiszAktywnyInw == InwOkien /\ ZapiszAktywny => InwOkien'
<1> SUFFICES ASSUME InwOkien, ZapiszAktywny PROVE InwOkien'
  OBVIOUS
<1> DEFINE V == Widoczne
           t == Tail(wywolanie)
<1>1. /\ Teraz("aktywny") /\ wywolanie' = <<>> \o t /\ aktywny_pid_gui' = Pid
      /\ UNCHANGED <<stan_warstwy, z_order, podniesienia, naruszony, chybiony>>
      /\ UNCHANGED <<capture_pid_gui, system_overlay, widok>>
  BY DEF ZapiszAktywny, Dalej, warstwy, mysz
<1>2. /\ wywolanie # <<>> /\ Pid = Head(wywolanie).pid /\ Pid \in Ktos /\ t \in Seq(Kroki)
      /\ Head(wywolanie).rodzaj = "aktywny" /\ TypyOkien /\ <<>> \o t = t
      /\ Poprawne(wywolanie, V, aktywny_pid_gui, naruszony, widok)
      /\ Zmiana(Head(wywolanie), t, V, aktywny_pid_gui, naruszony, widok)
      /\ Obecni(wywolanie, V, aktywny_pid_gui, capture_pid_gui, system_overlay)
  BY <1>1, WKroku DEF Grupa
<1>3. Pid \in V \cup {Nikt}
  BY <1>2 DEF Zmiana
<1>4. Poprawne(t, V, Pid, naruszony, widok)
  BY <1>2, PoZapisie
<1>5. Obecni(t, V, Pid, capture_pid_gui, system_overlay)
  BY <1>2, <1>3, ObecniDalej
<1>6. WKolejnosci(podniesienia, V, z_order, <<>> \o t, naruszony)
  BY <1>1, <1>2, KolejnoscDalej, Pusta
<1>7. QED
  BY <1>1, <1>2, <1>4, <1>5, <1>6, BezWarstw DEF TypyOkien

LEMMA PowiadomBlurInw == InwOkien /\ PowiadomBlur => InwOkien'
<1> SUFFICES ASSUME InwOkien, PowiadomBlur PROVE InwOkien'
  OBVIOUS
<1> DEFINE V == Widoczne
           a == aktywny_pid_gui
           t == Tail(wywolanie)
<1>1. /\ Teraz("blur") /\ wywolanie' = <<>> \o t
      /\ widok' = [p \in PidyOkien |-> widok[p] /\ p # Pid]
      /\ UNCHANGED <<stan_warstwy, z_order, podniesienia, naruszony, chybiony>>
      /\ UNCHANGED <<aktywny_pid_gui, capture_pid_gui, system_overlay>>
  BY DEF PowiadomBlur, Dalej, warstwy, mysz, adresy
<1>2. /\ wywolanie # <<>> /\ Pid = Head(wywolanie).pid /\ t \in Seq(Kroki)
      /\ Head(wywolanie).rodzaj = "blur" /\ TypyOkien /\ <<>> \o t = t
      /\ Poprawne(wywolanie, V, a, naruszony, widok)
      /\ Obecni(wywolanie, V, a, capture_pid_gui, system_overlay)
  BY <1>1, WKroku
<1>3. Poprawne(t, V, a, naruszony, widok')
  BY <1>1, <1>2, PoBlurze DEF TypyOkien
<1>4. Obecni(t, V, a, capture_pid_gui, system_overlay)
  BY <1>2, ObecniDalej DEF Odbiera
<1>5. WKolejnosci(podniesienia, V, z_order, <<>> \o t, naruszony)
  BY <1>1, <1>2, KolejnoscDalej, Pusta
<1>6. widok' \in [PidyOkien -> BOOLEAN]
  BY <1>1, <1>2 DEF TypyOkien
<1>7. QED
  BY <1>1, <1>2, <1>3, <1>4, <1>5, <1>6, BezWarstw DEF TypyOkien

LEMMA PowiadomFocusInw == InwOkien /\ PowiadomFocus => InwOkien'
<1> SUFFICES ASSUME InwOkien, PowiadomFocus PROVE InwOkien'
  OBVIOUS
<1> DEFINE V == Widoczne
           a == aktywny_pid_gui
           t == Tail(wywolanie)
<1>1. /\ Teraz("fokus") /\ wywolanie' = <<>> \o t
      /\ widok' = [p \in PidyOkien |-> ~naruszony /\ (widok[p] \/ p = Pid)]
      /\ UNCHANGED <<stan_warstwy, z_order, podniesienia, naruszony, chybiony>>
      /\ UNCHANGED <<aktywny_pid_gui, capture_pid_gui, system_overlay>>
  BY DEF PowiadomFocus, Dalej, warstwy, mysz, adresy
<1>2. /\ wywolanie # <<>> /\ Pid = Head(wywolanie).pid /\ t \in Seq(Kroki)
      /\ Head(wywolanie).rodzaj = "fokus" /\ TypyOkien /\ <<>> \o t = t
      /\ Poprawne(wywolanie, V, a, naruszony, widok)
      /\ Obecni(wywolanie, V, a, capture_pid_gui, system_overlay)
  BY <1>1, WKroku
<1>3. Poprawne(t, V, a, naruszony, widok')
  BY <1>1, <1>2, PoFokusie DEF TypyOkien
<1>4. Obecni(t, V, a, capture_pid_gui, system_overlay)
  BY <1>2, ObecniDalej DEF Odbiera
<1>5. WKolejnosci(podniesienia, V, z_order, <<>> \o t, naruszony)
  BY <1>1, <1>2, KolejnoscDalej, Pusta
<1>6. widok' \in [PidyOkien -> BOOLEAN]
  BY <1>1, <1>2 DEF TypyOkien
<1>7. QED
  BY <1>1, <1>2, <1>3, <1>4, <1>5, <1>6, BezWarstw DEF TypyOkien

LEMMA ZnajdzNajwyzszeZInw == InwOkien /\ ZnajdzNajwyzszeZ => InwOkien'
<1> SUFFICES ASSUME InwOkien, ZnajdzNajwyzszeZ PROVE InwOkien'
  OBVIOUS
<1> DEFINE V == Widoczne
           a == aktywny_pid_gui
           t == Tail(wywolanie)
           k == KrokZ("z", Pid, NajwyzszeZ)
<1>1. /\ Teraz("podnies")
      /\ wywolanie' = (IF DoPodniesienia(Pid) THEN <<k>> ELSE <<>>) \o t
      /\ UNCHANGED <<stan_warstwy, z_order, podniesienia, naruszony, chybiony>>
      /\ UNCHANGED <<aktywny_pid_gui, capture_pid_gui, system_overlay, widok>>
  BY DEF ZnajdzNajwyzszeZ, Dalej, warstwy, mysz, adresy
<1>2. /\ wywolanie # <<>> /\ Pid = Head(wywolanie).pid /\ t \in Seq(Kroki) /\ wywolanie \in Seq(Kroki)
      /\ Head(wywolanie).rodzaj = "podnies" /\ TypyOkien /\ <<>> \o t = t /\ Pid \in Ktos
      /\ Zwyczajny(Head(wywolanie), t, V, a, naruszony, widok)
      /\ Poprawne(wywolanie, V, a, naruszony, widok)
      /\ Obecni(wywolanie, V, a, capture_pid_gui, system_overlay)
      /\ WKolejnosci(podniesienia, V, z_order, wywolanie, naruszony)
  BY <1>1, WKroku DEF Grupa
<1>3. t \in Seq(Pozne(V)) /\ Powiadomiony(widok, a, naruszony)
  BY <1>2 DEF Zwyczajny
<1>4. \A s2 : Obecni(s2, V, a, capture_pid_gui, system_overlay)
  BY <1>2, ObecniDalej DEF Odbiera
<1>5. CASE DoPodniesienia(Pid)
  <2>1. Pid \in Dodatnie /\ Pid \in PidyOkien
    BY <1>5 DEF DoPodniesienia, Dodatnie, Widoczne, pobierz_warstwe
  <2>2. NajwyzszeZ \in ZakresZ /\ \A q \in Dodatnie : z_order[q] <= NajwyzszeZ
    BY <1>2, <2>1, NajwyzszeZJest DEF TypyOkien
  <2>3. k \in Kroki /\ k.rodzaj = "z" /\ k.pid = Pid /\ k.z = NajwyzszeZ
    <3>1. "z" \in Pojedyncze \cup Zwykle \cup Grupa
      BY DEF Pojedyncze
    <3>2. QED
      BY ONLY <1>2, <2>2, <3>1, KrokToKrok
  <2> HIDE DEF k
  <2>4. wywolanie' = <<k>> \o t
    BY <1>1, <1>5
  <2>5. Zwyczajny(k, t, V, a, naruszony, widok)
    BY <1>3, <2>1, <2>3 DEF Zwyczajny
  <2>6. Poprawne(wywolanie', V, a, naruszony, widok)
    BY <1>2, <2>3, <2>4, <2>5, Najpierw DEF Grupa
  <2>7. wywolanie' # <<>> /\ Head(wywolanie') = k /\ wywolanie' \in Seq(Kroki)
        /\ Len(wywolanie') \in Nat \ {0} /\ wywolanie'[1] = k
    BY <1>2, <2>3, <2>4, NaPoczatek, Czolo
  <2>8. Podnoszone(wywolanie) \subseteq Podnoszone(wywolanie')
    <3>1. Podnoszone(wywolanie) \subseteq Podnosi(Head(wywolanie)) \cup Podnoszone(t)
      BY <1>2, PodnoszoneCzesci
    <3>2. Podnoszone(t) \subseteq Podnoszone(wywolanie')
      BY <1>2, <2>3, <2>4, PodnoszoneDalej, <<k>> \in Seq(Kroki)
    <3>3. Podnosi(Head(wywolanie)) \subseteq Podnosi(k)
      BY <1>2, <2>3 DEF Podnosi
    <3>4. Podnosi(k) \subseteq Podnoszone(wywolanie')
      BY <2>7, PodnoszoneMiejsce, 1 \in 1 .. Len(wywolanie')
    <3>5. QED
      BY <3>1, <3>2, <3>3, <3>4
  <2>9. Najwyzej(V, z_order, k)
    BY <2>1, <2>2, <2>3 DEF Najwyzej, Dodatnie
  <2>10. WKolejnosci(podniesienia, V, z_order, wywolanie', naruszony)
    BY <1>2, <2>7, <2>8, <2>9, MniejUporzadkowanych DEF WKolejnosci
  <2>11. QED
    BY <1>1, <1>2, <1>4, <2>6, <2>10, BezWarstw DEF TypyOkien
<1>6. CASE ~DoPodniesienia(Pid)
  <2>1. wywolanie' = t
    BY <1>1, <1>2, <1>6
  <2>2. Poprawne(t, V, a, naruszony, widok)
    BY <1>3, ZostalyPozne
  <2>3. t # <<>> => Head(t).rodzaj # "z"
    BY <1>2, NastepnyPozny DEF Pojedyncze
  <2>4. ASSUME ~naruszony PROVE Uporzadkowane(podniesienia, V, z_order, Podnoszone(t))
    <3>1. Podnoszone(wywolanie) \subseteq {Pid} \cup Podnoszone(t)
      BY <1>2, PodnoszoneCzesci DEF Podnosi
    <3>2. Uporzadkowane(podniesienia, V, z_order, Podnoszone(wywolanie))
      BY <1>2, <2>4 DEF WKolejnosci
    <3>3. CASE Pid \notin V
      BY <3>1, <3>2, <3>3, MniejUporzadkowanych
    <3>4. CASE Pid \in V
      <4>1. Pid \in PidyOkien /\ V \subseteq PidyOkien
        BY <3>4, PidyToLiczby
      <4>2. ~ (z_order[Pid] > 0)
        BY <1>6, <3>4, <4>1 DEF DoPodniesienia, Widoczne
      <4>3. <<Pid, Pid>> \notin podniesienia
        BY <3>2, <4>1, <4>2 DEF Uporzadkowane
      <4>4. \A q \in V : <<q, Pid>> \notin podniesienia /\ <<Pid, q>> \notin podniesienia
        BY <3>2, <4>1, <4>3 DEF Uporzadkowane
      <4>5. \A q \in V \ Podnoszone(t) : q = Pid \/ q \in V \ Podnoszone(wywolanie)
        BY <3>1
      <4>6. \A q \in V \ Podnoszone(t) : z_order[q] > 0 => <<q, q>> \in podniesienia
        BY <3>2, <4>2, <4>5 DEF Uporzadkowane
      <4>7. \A q, r \in V \ Podnoszone(t) :
              <<q, r>> \in podniesienia /\ q # r => z_order[q] < z_order[r]
        BY <3>2, <4>4, <4>5 DEF Uporzadkowane
      <4>8. QED
        BY <3>2, <4>6, <4>7 DEF Uporzadkowane
    <3>5. QED
      BY <3>3, <3>4
  <2>5. WKolejnosci(podniesienia, V, z_order, t, naruszony)
    BY <2>3, <2>4 DEF WKolejnosci
  <2>6. QED
    BY <1>1, <1>2, <1>4, <2>1, <2>2, <2>5, BezWarstw DEF TypyOkien
<1>7. QED
  BY <1>5, <1>6

LEMMA ZnajdzNastepceInw == InwOkien /\ ZnajdzNastepce => InwOkien'
<1> SUFFICES ASSUME InwOkien, ZnajdzNastepce PROVE InwOkien'
  OBVIOUS
<1> DEFINE V == Widoczne
           a == aktywny_pid_gui
           t == Tail(wywolanie)
           u == IF V = {} THEN <<>> ELSE <<Krok("focus", Najwyzsza(V))>>
<1>1. /\ Teraz("nastepca") /\ wywolanie' = u \o t
      /\ UNCHANGED <<stan_warstwy, z_order, podniesienia, naruszony, chybiony>>
      /\ UNCHANGED <<aktywny_pid_gui, capture_pid_gui, system_overlay, widok>>
  BY DEF ZnajdzNastepce, Dalej, warstwy, adresy, mysz
<1>2. /\ wywolanie # <<>> /\ t \in Seq(Kroki)
      /\ Head(wywolanie).rodzaj = "nastepca" /\ TypyOkien
      /\ Zwyczajny(Head(wywolanie), t, V, a, naruszony, widok)
      /\ Obecni(wywolanie, V, a, capture_pid_gui, system_overlay)
  BY <1>1, WKroku DEF Grupa
<1>3. t \in Seq(Pozne(V)) /\ Powiadomiony(widok, a, naruszony)
  BY <1>2 DEF Zwyczajny
<1>4. u \in Seq(Pozne(V)) /\ u \in Seq(Kroki) /\ (u # <<>> => Head(u).rodzaj # "z")
  <2>1. CASE V = {}
    BY <2>1, Pusta
  <2>2. CASE V # {}
    <3>1. Najwyzsza(V) \in V /\ V \subseteq PidyOkien
      BY <1>2, <2>2, NajwyzszaJest, PidyToLiczby DEF TypyOkien
    <3>2. Najwyzsza(V) \in Ktos
      BY <3>1 DEF Ktos
    <3> HIDE DEF V
    <3>3. Krok("focus", Najwyzsza(V)) \in Pozne(V)
      BY <3>1, <3>2, PoznyKrok DEF Zwykle
    <3>4. Krok("focus", Najwyzsza(V)) \in Kroki /\ Krok("focus", Najwyzsza(V)).rodzaj = "focus"
      BY <3>2, KrokToKrok DEF Zwykle
    <3>5. QED
      BY <2>2, <3>3, <3>4
  <2>3. QED
    BY <2>1, <2>2
<1> HIDE DEF u
<1>5. WKolejnosci(podniesienia, V, z_order, u \o t, naruszony)
  BY <1>1, <1>4, KolejnoscDalej
<1>6. u \o t \in Seq(Pozne(V))
  BY <1>3, <1>4
<1>7. Poprawne(u \o t, V, a, naruszony, widok)
  BY <1>3, <1>6, ZostalyPozne
<1>8. Obecni(u \o t, V, a, capture_pid_gui, system_overlay)
  BY <1>2, ObecniDalej DEF Odbiera
<1>9. QED
  BY <1>1, <1>2, <1>5, <1>7, <1>8, BezWarstw DEF TypyOkien

LEMMA PrzejmijInw == InwOkien /\ Przejmij => InwOkien'
<1> SUFFICES ASSUME InwOkien, Przejmij PROVE InwOkien'
  OBVIOUS
<1> DEFINE V == Widoczne
           a == aktywny_pid_gui
           t == Tail(wywolanie)
<1>1. /\ Teraz("przejmij") /\ wywolanie' = <<>> \o t /\ capture_pid_gui' = Pid
      /\ UNCHANGED <<stan_warstwy, z_order, podniesienia, naruszony, chybiony>>
      /\ UNCHANGED <<aktywny_pid_gui, system_overlay, widok>>
  BY DEF Przejmij, Dalej, warstwy, mysz
<1>2. /\ wywolanie # <<>> /\ Pid = Head(wywolanie).pid /\ t \in Seq(Kroki) /\ Pid \in Ktos
      /\ Head(wywolanie).rodzaj = "przejmij" /\ TypyOkien /\ <<>> \o t = t
      /\ Zwyczajny(Head(wywolanie), t, V, a, naruszony, widok)
      /\ Obecni(wywolanie, V, a, capture_pid_gui, system_overlay)
  BY <1>1, WKroku DEF Grupa
<1>3. t \in Seq(Pozne(V)) /\ Powiadomiony(widok, a, naruszony) /\ Pid \in V
  BY <1>2 DEF Zwyczajny
<1>4. Poprawne(t, V, a, naruszony, widok)
  BY <1>3, ZostalyPozne
<1>5. Obecni(t, V, a, Pid, system_overlay)
  BY <1>2, <1>3, ObecniDalej DEF Odbiera
<1>6. WKolejnosci(podniesienia, V, z_order, <<>> \o t, naruszony)
  BY <1>1, <1>2, KolejnoscDalej, Pusta
<1>7. QED
  BY <1>1, <1>2, <1>4, <1>5, <1>6, BezWarstw DEF TypyOkien

LEMMA ZwolnijMyszInw == InwOkien /\ bws_gui_zwolnij_mysz_procesu => InwOkien'
<1> SUFFICES ASSUME InwOkien, bws_gui_zwolnij_mysz_procesu PROVE InwOkien'
  OBVIOUS
<1> DEFINE V == Widoczne
           a == aktywny_pid_gui
           t == Tail(wywolanie)
<1>1. /\ Teraz("mysz") /\ wywolanie' = <<>> \o t
      /\ UNCHANGED <<stan_warstwy, z_order, podniesienia, naruszony, chybiony>>
      /\ UNCHANGED <<aktywny_pid_gui, capture_pid_gui, system_overlay, widok>>
  BY DEF bws_gui_zwolnij_mysz_procesu, Dalej, warstwy, adresy
<1>2. /\ wywolanie # <<>> /\ t \in Seq(Kroki)
      /\ Head(wywolanie).rodzaj = "mysz" /\ TypyOkien /\ <<>> \o t = t
      /\ Zwyczajny(Head(wywolanie), t, V, a, naruszony, widok)
      /\ Obecni(wywolanie, V, a, capture_pid_gui, system_overlay)
  BY <1>1, WKroku DEF Grupa
<1>3. t \in Seq(Pozne(V)) /\ Powiadomiony(widok, a, naruszony)
  BY <1>2 DEF Zwyczajny
<1>4. Poprawne(t, V, a, naruszony, widok)
  BY <1>3, ZostalyPozne
<1>5. Obecni(t, V, a, capture_pid_gui, system_overlay)
  BY <1>2, ObecniDalej DEF Odbiera
<1>6. WKolejnosci(podniesienia, V, z_order, <<>> \o t, naruszony)
  BY <1>1, <1>2, KolejnoscDalej, Pusta
<1>7. QED
  BY <1>1, <1>2, <1>4, <1>5, <1>6, BezWarstw DEF TypyOkien

LEMMA PorzucInw == InwOkien /\ Porzuc => InwOkien'
<1> SUFFICES ASSUME InwOkien, Porzuc PROVE InwOkien'
  OBVIOUS
<1> DEFINE V == Widoczne
           a == aktywny_pid_gui
           t == Tail(wywolanie)
           k == Krok("focus", Nikt)
           m == Krok("nastepca", Nikt)
           u == IF a = Pid THEN <<k, m>> ELSE <<>>
<1>1. /\ Teraz("porzuc") /\ wywolanie' = u \o t
      /\ capture_pid_gui' = (IF capture_pid_gui = Pid THEN Nikt ELSE capture_pid_gui)
      /\ UNCHANGED <<stan_warstwy, z_order, podniesienia, naruszony, chybiony>>
      /\ UNCHANGED <<aktywny_pid_gui, system_overlay, widok>>
  BY DEF Porzuc, Dalej, warstwy, mysz
<1>2. /\ wywolanie # <<>> /\ Pid = Head(wywolanie).pid /\ t \in Seq(Kroki)
      /\ Head(wywolanie).rodzaj = "porzuc" /\ TypyOkien /\ <<>> \o t = t
      /\ Zwyczajny(Head(wywolanie), t, V, a, naruszony, widok)
      /\ Obecni(wywolanie, V, a, capture_pid_gui, system_overlay)
  BY <1>1, WKroku DEF Grupa
<1>3. t \in Seq(Pozne(V)) /\ Powiadomiony(widok, a, naruszony)
  BY <1>2 DEF Zwyczajny
<1>4. /\ k \in Pozne(V) /\ m \in Pozne(V) /\ k \in Kroki /\ m \in Kroki
      /\ k.rodzaj = "focus" /\ k.pid = Nikt
  BY PoznyKrok, KrokToKrok, Nikt \in Ktos DEF Zwykle, Ktos
<1> HIDE DEF k, m
<1>5. u \in Seq(Pozne(V)) /\ u \in Seq(Kroki)
  BY <1>4
<1>6. u # <<>> => Head(u) = k
  <2>1. Head(<<k, m>>) = k
    BY <1>4
  <2>2. QED
    BY <2>1
<1>7. WKolejnosci(podniesienia, V, z_order, u \o t, naruszony)
  <2>1. u # <<>> => Head(u).rodzaj # "z"
    BY <1>4, <1>6
  <2> HIDE DEF u
  <2>2. QED
    BY <1>1, <1>5, <2>1, KolejnoscDalej
<1>8. Poprawne(u \o t, V, a, naruszony, widok)
  <2>1. u \o t \in Seq(Pozne(V))
    BY <1>3, <1>5
  <2> HIDE DEF u
  <2>2. QED
    BY <1>3, <2>1, ZostalyPozne
<1>9. Obecni(u \o t, V, a, capture_pid_gui', system_overlay)
  <2>1. capture_pid_gui' \in V \cup {Nikt}
    BY <1>1, <1>2 DEF Obecni, Zwisa
  <2>2. system_overlay \in V \cup {Nikt}
    BY <1>2 DEF Obecni, Publikuje
  <2>3. a \in V \cup {Nikt} \/ Odbiera(u \o t)
    <3>1. CASE a = Pid
      <4>1. u \o t = <<k>> \o (<<m>> \o t) /\ <<m>> \o t \in Seq(Kroki)
        <5>1. u = <<k, m>>
          BY <3>1
        <5> HIDE DEF u, t
        <5>2. <<k, m>> \o t = <<k>> \o (<<m>> \o t)
          <6>1. \A x, y \in Kroki, v \in Seq(Kroki) : <<x, y>> \o v = <<x>> \o (<<y>> \o v)
            BY DwaNaPoczatek
          <6>2. QED
            BY <1>2, <1>4, <6>1
        <5>3. QED
          BY <1>2, <1>4, <5>1, <5>2, NaPoczatek
      <4>2. u \o t # <<>> /\ Head(u \o t) = k
        BY <1>4, <4>1, NaPoczatek
      <4>3. QED
        BY <1>4, <4>2 DEF Odbiera
    <3>2. CASE a # Pid
      BY <1>2, <3>2 DEF Obecni, Zwisa, Odbiera
    <3>3. QED
      BY <3>1, <3>2
  <2>4. QED
    BY <2>1, <2>2, <2>3 DEF Obecni
<1> HIDE DEF u
<1>10. QED
  BY <1>1, <1>2, <1>7, <1>8, <1>9, BezWarstw DEF TypyOkien, Ktos

LEMMA UsunStanInw == InwOkien /\ bws_gui_usun_stan_procesu => InwOkien'
<1> SUFFICES ASSUME InwOkien, bws_gui_usun_stan_procesu PROVE InwOkien'
  OBVIOUS
<1> DEFINE V == Widoczne
           a == aktywny_pid_gui
           t == Tail(wywolanie)
           k == Krok("nastepca", Nikt)
           u == IF a = Pid THEN <<k>> ELSE <<>>
<1>1. /\ Teraz("stan") /\ wywolanie' = u \o t
      /\ capture_pid_gui' = (IF capture_pid_gui = Pid THEN Nikt ELSE capture_pid_gui)
      /\ aktywny_pid_gui' = (IF a = Pid THEN Nikt ELSE a)
      /\ widok' = [widok EXCEPT ![Pid] = FALSE]
      /\ UNCHANGED <<stan_warstwy, z_order, podniesienia, naruszony, chybiony>>
      /\ UNCHANGED system_overlay
  BY DEF bws_gui_usun_stan_procesu, Dalej, warstwy, mysz
<1>2. /\ wywolanie # <<>> /\ Pid = Head(wywolanie).pid /\ t \in Seq(Kroki)
      /\ Head(wywolanie).rodzaj = "stan" /\ TypyOkien /\ <<>> \o t = t
      /\ Zwyczajny(Head(wywolanie), t, V, a, naruszony, widok)
      /\ Obecni(wywolanie, V, a, capture_pid_gui, system_overlay)
  BY <1>1, WKroku DEF Grupa
<1>3. t \in Seq(Pozne(V)) /\ Powiadomiony(widok, a, naruszony) /\ Pid \in PidyOkien
  BY <1>2 DEF Zwyczajny
<1>4. k \in Pozne(V) /\ k \in Kroki /\ k.rodzaj = "nastepca"
  BY PoznyKrok, KrokToKrok, Nikt \in Ktos DEF Zwykle, Ktos
<1> HIDE DEF k
<1>5. u \in Seq(Pozne(V)) /\ u \in Seq(Kroki) /\ (u # <<>> => Head(u).rodzaj # "z")
  BY <1>4
<1>6. widok' \in [PidyOkien -> BOOLEAN]
  BY <1>1, <1>2 DEF TypyOkien
<1>7. Powiadomiony(widok', aktywny_pid_gui', naruszony)
  <2>1. SUFFICES ASSUME ~naruszony, NEW p \in PidyOkien PROVE widok'[p] <=> p = aktywny_pid_gui'
    BY DEF Powiadomiony
  <2>2. (widok[p] <=> p = a) /\ p # Nikt
    BY <1>3, <2>1, PidyToLiczby DEF Powiadomiony
  <2>3. CASE p = Pid
    <3>1. widok'[p] = FALSE
      BY <1>1, <1>2, <2>3 DEF TypyOkien
    <3>2. p # aktywny_pid_gui'
      BY <1>1, <2>2, <2>3
    <3>3. QED
      BY <3>1, <3>2
  <2>4. CASE p # Pid
    <3>1. widok'[p] = widok[p]
      BY <1>1, <1>2, <2>4 DEF TypyOkien
    <3>2. p = a <=> p = aktywny_pid_gui'
      BY <1>1, <2>2, <2>4
    <3>3. QED
      BY <2>2, <3>1, <3>2
  <2>5. QED
    BY <2>3, <2>4
<1> HIDE DEF u
<1>8. WKolejnosci(podniesienia, V, z_order, u \o t, naruszony)
  BY <1>1, <1>5, KolejnoscDalej
<1>9. Poprawne(u \o t, V, aktywny_pid_gui', naruszony, widok')
  <2>1. u \o t \in Seq(Pozne(V))
    BY <1>3, <1>5
  <2>2. QED
    BY <1>7, <2>1, ZostalyPozne
<1>10. Obecni(u \o t, V, aktywny_pid_gui', capture_pid_gui', system_overlay)
  <2>1. capture_pid_gui' \in V \cup {Nikt} /\ aktywny_pid_gui' \in V \cup {Nikt}
    BY <1>1, <1>2 DEF Obecni, Zwisa, Odbiera
  <2>2. system_overlay \in V \cup {Nikt}
    BY <1>2 DEF Obecni, Publikuje
  <2>3. QED
    BY <2>1, <2>2 DEF Obecni
<1>11. QED
  BY <1>1, <1>2, <1>6, <1>8, <1>9, <1>10, BezWarstw DEF TypyOkien, Ktos

LEMMA PodniesioneTyp ==
  ASSUME z_order \in [PidyOkien -> ZakresZ], NEW p \in PidyOkien, NEW maks \in ZakresZ
  PROVE  Podniesione(p, maks) \in [PidyOkien -> ZakresZ]
<1>1. CASE maks < MAKS_Z
  BY <1>1, Zakres DEF Podniesione
<1>2. CASE ~ (maks < MAKS_Z)
  <2>1. ASSUME NEW S, S \subseteq PidyOkien PROVE PIERWSZE_Z + Cardinality(S) \in ZakresZ
    <3>1. IsFiniteSet(1 .. LiczbaOkien) /\ Cardinality(1 .. LiczbaOkien) = LiczbaOkien
      BY FS_Interval, PidyToLiczby
    <3>2. S \in SUBSET (1 .. LiczbaOkien)
      BY <2>1 DEF PidyOkien
    <3>3. IsFiniteSet(S) /\ Cardinality(S) <= LiczbaOkien
      BY <3>1, <3>2, FS_Subset
    <3>4. Cardinality(S) \in Nat
      BY <3>3, FS_CardinalityType
    <3>5. Cardinality(S) \in 0 .. LiczbaOkien
      BY <3>3, <3>4, PidyToLiczby
    <3>6. QED
      BY <3>5, Zakres
  <2>2. /\ PIERWSZE_Z + Cardinality(Dodatnie) \in ZakresZ
        /\ \A q \in PidyOkien : PIERWSZE_Z + Cardinality({r \in Dodatnie : Ponizej(r, q)}) \in ZakresZ
    <3>1. Dodatnie \subseteq PidyOkien /\ \A q \in PidyOkien : {r \in Dodatnie : Ponizej(r, q)} \subseteq PidyOkien
      BY PidyToLiczby
    <3>2. QED
      BY <2>1, <3>1
  <2>3. QED
    BY <1>2, <2>2 DEF Podniesione
<1>3. QED
  BY <1>1, <1>2

LEMMA ZapiszZInw == InwOkien /\ ZapiszZ => InwOkien'
<1> SUFFICES ASSUME InwOkien, ZapiszZ PROVE InwOkien'
  OBVIOUS
<1> DEFINE V == Widoczne
           a == aktywny_pid_gui
           t == Tail(wywolanie)
           h == Head(wywolanie)
<1>1. /\ Teraz("z") /\ wywolanie' = <<>> \o t
      /\ z_order' = Podniesione(Pid, h.z) /\ podniesienia' = NaKoncu(Pid)
      /\ UNCHANGED <<stan_warstwy, naruszony, chybiony>>
      /\ UNCHANGED <<aktywny_pid_gui, capture_pid_gui, system_overlay, widok>>
  BY DEF ZapiszZ, Dalej, adresy, mysz
<1>2. /\ wywolanie # <<>> /\ Pid = h.pid /\ t \in Seq(Kroki) /\ h.z \in ZakresZ
      /\ wywolanie \in Seq(Kroki) /\ h.rodzaj = "z" /\ TypyOkien /\ <<>> \o t = t
      /\ Poprawne(wywolanie, V, a, naruszony, widok)
      /\ Zwyczajny(h, t, V, a, naruszony, widok)
      /\ Obecni(wywolanie, V, a, capture_pid_gui, system_overlay)
      /\ WKolejnosci(podniesienia, V, z_order, wywolanie, naruszony)
  BY <1>1, WKroku DEF Grupa
<1>3. t \in Seq(Pozne(V)) /\ Powiadomiony(widok, a, naruszony) /\ Pid \in PidyOkien
  BY <1>2 DEF Zwyczajny
<1>4. Widoczne' = V
  BY <1>1 DEF Widoczne, pobierz_warstwe
<1>5. Poprawne(t, V, a, naruszony, widok)
  BY <1>3, ZostalyPozne
<1>6. Obecni(t, V, a, capture_pid_gui, system_overlay)
  BY <1>2, ObecniDalej DEF Odbiera
<1>7. z_order' \in [PidyOkien -> ZakresZ]
  BY <1>1, <1>2, <1>3, PodniesioneTyp DEF TypyOkien
<1>8. podniesienia' \subseteq PidyOkien \X PidyOkien
  <2>1. CASE naruszony
    BY <1>1, <2>1 DEF NaKoncu
  <2>2. CASE ~naruszony
    BY <1>1, <1>2, <1>3, <2>2, CoToNaKoncu DEF TypyOkien
  <2>3. QED
    BY <2>1, <2>2
<1>9. ASSUME ~naruszony PROVE Uporzadkowane(podniesienia', V, z_order', Podnoszone(t))
  <2>1. /\ Uporzadkowane(podniesienia, V, z_order, Podnoszone(wywolanie))
        /\ Najwyzej(V, z_order, h)
    BY <1>2, <1>9 DEF WKolejnosci
  <2>2. Pid \in Dodatnie /\ \A q \in Dodatnie : z_order[q] <= h.z
    BY <1>2, <2>1 DEF Najwyzej, Dodatnie
  <2>3. Podniesiona(Podniesione(Pid, h.z), Pid)
    BY <1>2, <2>2, PodniesionaJest DEF TypyOkien
  <2>4. Uporzadkowane(NaKoncu(Pid), V, Podniesione(Pid, h.z), Podnoszone(wywolanie) \ {Pid})
    BY <1>2, <1>9, <2>1, <2>2, <2>3, PoPodniesieniu DEF TypyOkien
  <2>5. Podnoszone(wywolanie) \subseteq {Pid} \cup Podnoszone(t)
    BY <1>2, PodnoszoneCzesci DEF Podnosi
  <2>6. V \ Podnoszone(t) \subseteq V \ (Podnoszone(wywolanie) \ {Pid})
    BY <2>5
  <2>7. QED
    BY <1>1, <2>4, <2>6, MniejUporzadkowanych
<1>10. t # <<>> => Head(t).rodzaj # "z"
  BY <1>2, NastepnyPozny DEF Pojedyncze
<1>11. WKolejnosci(podniesienia', V, z_order', t, naruszony)
  BY <1>9, <1>10 DEF WKolejnosci
<1>12. wywolanie' = t
  BY <1>1, <1>2
<1>13. TypyOkien'
  BY <1>1, <1>2, <1>7, <1>8 DEF TypyOkien
<1>14. Wywolania' /\ Adresaci' /\ Kolejnosc'
  BY <1>1, <1>4, <1>5, <1>6, <1>11, <1>12 DEF Wywolania, Adresaci, Kolejnosc
<1>15. QED
  BY <1>1, <1>13, <1>14 DEF InwOkien

(* Layers that appear and disappear.                                       *)
LEMMA ZmianaWidocznych ==
  ASSUME stan_warstwy \in [PidyOkien -> {"brak", "widoczna", "ukryta"}], NEW p \in PidyOkien,
         NEW x \in {"brak", "widoczna", "ukryta"}, stan_warstwy' = [stan_warstwy EXCEPT ![p] = x]
  PROVE  /\ stan_warstwy' \in [PidyOkien -> {"brak", "widoczna", "ukryta"}]
         /\ Widoczne' = IF x = "widoczna" THEN Widoczne \cup {p} ELSE Widoczne \ {p}
<1>1. \A q \in PidyOkien : stan_warstwy'[q] = IF q = p THEN x ELSE stan_warstwy[q]
  OBVIOUS
<1>2. \A q : q \in Widoczne' <=> q \in PidyOkien /\ stan_warstwy'[q] = "widoczna"
  BY DEF Widoczne, pobierz_warstwe
<1>3. \A q : q \in Widoczne <=> q \in PidyOkien /\ stan_warstwy[q] = "widoczna"
  BY DEF Widoczne, pobierz_warstwe
<1>4. \A q : q \in Widoczne' <=> q \in (IF x = "widoczna" THEN Widoczne \cup {p} ELSE Widoczne \ {p})
  BY <1>1, <1>2, <1>3
<1>5. QED
  BY <1>4

LEMMA PublikujInw == InwOkien /\ Publikuj => InwOkien'
<1> SUFFICES ASSUME InwOkien, Publikuj PROVE InwOkien'
  OBVIOUS
<1> DEFINE V == Widoczne
           W == Widoczne \cup {Pid}
           a == aktywny_pid_gui
           t == Tail(wywolanie)
           h == Head(wywolanie)
           k == Krok("focus", Pid)
           m == Krok("podnies", Pid)
<1>1. /\ Teraz("publikuj") /\ wywolanie' = <<>> \o t
      /\ stan_warstwy' = [stan_warstwy EXCEPT ![Pid] = "widoczna"]
      /\ z_order' = [z_order EXCEPT ![Pid] = h.z] /\ podniesienia' = BezNiej(Pid)
      /\ UNCHANGED <<naruszony, chybiony>>
      /\ UNCHANGED <<aktywny_pid_gui, capture_pid_gui, system_overlay, widok>>
  BY DEF Publikuj, Dalej, adresy, mysz
<1>2. /\ wywolanie # <<>> /\ Pid = h.pid /\ t \in Seq(Kroki) /\ h.z \in ZakresZ /\ Pid \in Ktos
      /\ wywolanie \in Seq(Kroki) /\ h.rodzaj = "publikuj" /\ TypyOkien /\ <<>> \o t = t
      /\ Poprawne(wywolanie, V, a, naruszony, widok)
      /\ Zwyczajny(h, t, V, a, naruszony, widok)
      /\ Obecni(wywolanie, V, a, capture_pid_gui, system_overlay)
      /\ WKolejnosci(podniesienia, V, z_order, wywolanie, naruszony)
  BY <1>1, WKroku DEF Grupa
<1>3. t = <<k, m>> /\ Powiadomiony(widok, a, naruszony) /\ Pid \in PidyOkien
  BY <1>2 DEF Zwyczajny
<1>4. stan_warstwy' \in [PidyOkien -> {"brak", "widoczna", "ukryta"}] /\ Widoczne' = W
  BY <1>1, <1>2, <1>3, ZmianaWidocznych DEF TypyOkien
<1>5. /\ k \in Pozne(W) /\ m \in Pozne(W) /\ m.rodzaj = "podnies" /\ m.pid = Pid
  <2>1. "focus" \in Zwykle /\ "podnies" \in Zwykle /\ Pid \in Ktos /\ Pid \in W
    BY <1>2 DEF Zwykle
  <2> HIDE DEF W
  <2>2. k \in Pozne(W)
    BY <2>1, PoznyKrok
  <2>3. m \in Pozne(W)
    BY <2>1, PoznyKrok
  <2>4. m.rodzaj = "podnies" /\ m.pid = Pid
    BY <2>1, KrokToKrok
  <2>5. QED
    BY <2>2, <2>3, <2>4
<1> HIDE DEF k, m
<1>6. t \in Seq(Pozne(W)) /\ Len(t) = 2 /\ t[2] = m
  <2> HIDE DEF t, W
  <2>1. <<k, m>> \in Seq(Pozne(W)) /\ Len(<<k, m>>) = 2 /\ <<k, m>>[2] = m
    BY <1>5, Dwa
  <2>2. QED
    BY <1>3, <2>1
<1>7. Poprawne(t, W, a, naruszony, widok)
  BY <1>3, <1>6, ZostalyPozne
<1>8. Obecni(t, W, a, capture_pid_gui, system_overlay)
  BY <1>2 DEF Obecni, Zwisa, Odbiera, Publikuje
<1>9. z_order' \in [PidyOkien -> ZakresZ] /\ \A q \in PidyOkien \ {Pid} : z_order'[q] = z_order[q]
  BY <1>1, <1>2 DEF TypyOkien
<1>10. podniesienia' \subseteq PidyOkien \X PidyOkien
  BY <1>1, <1>2, CoToBezNiej DEF TypyOkien
<1>11. ASSUME ~naruszony PROVE Uporzadkowane(podniesienia', W, z_order', Podnoszone(t))
  <2>1. Uporzadkowane(podniesienia, V, z_order, Podnoszone(wywolanie))
    BY <1>2, <1>11 DEF WKolejnosci
  <2>2. Podnoszone(wywolanie) \subseteq {Pid} \cup Podnoszone(t)
    BY <1>2, PodnoszoneCzesci DEF Podnosi
  <2>3. Pid \in Podnoszone(t)
    BY <1>2, <1>3, <1>5, <1>6, PodnoszoneMiejsce, 2 \in 1 .. Len(t) DEF Podnosi
  <2>4. W \ Podnoszone(t) \subseteq (V \ Podnoszone(wywolanie)) \ {Pid} /\ V \subseteq PidyOkien
    BY <2>2, <2>3, PidyToLiczby
  <2> HIDE DEF W, V, t
  <2>5. QED
    BY <1>1, <1>2, <1>3, <1>9, <2>1, <2>4, BezJednej DEF TypyOkien
<1>12. t # <<>> => Head(t).rodzaj # "z"
  BY <1>2, NastepnyPozny DEF Pojedyncze
<1>13. WKolejnosci(podniesienia', W, z_order', t, naruszony)
  BY <1>11, <1>12 DEF WKolejnosci
<1>14. wywolanie' = t
  BY <1>1, <1>2
<1>15. TypyOkien'
  BY <1>1, <1>2, <1>4, <1>9, <1>10 DEF TypyOkien
<1>16. Wywolania' /\ Adresaci' /\ Kolejnosc'
  BY <1>1, <1>4, <1>7, <1>8, <1>13, <1>14 DEF Wywolania, Adresaci, Kolejnosc
<1>17. QED
  BY <1>1, <1>15, <1>16 DEF InwOkien

-----------------------------------------------------------------------------
(* The calls, which begin when no other is under way.                      *)
LEMMA WSpoczynku ==
  ASSUME InwOkien, wywolanie = <<>>
  PROVE  /\ TypyOkien /\ Powiadomiony(widok, aktywny_pid_gui, naruszony)
         /\ capture_pid_gui \in Widoczne \cup {Nikt} /\ aktywny_pid_gui \in Widoczne \cup {Nikt}
         /\ system_overlay \in Widoczne \cup {Nikt}
         /\ ~naruszony => Uporzadkowane(podniesienia, Widoczne, z_order, {})
         /\ Widoczne \subseteq PidyOkien /\ ~chybiony
<1>1. Powiadomiony(widok, aktywny_pid_gui, naruszony)
  BY DEF InwOkien, Wywolania, Poprawne
<1>2. /\ capture_pid_gui \in Widoczne \cup {Nikt} /\ aktywny_pid_gui \in Widoczne \cup {Nikt}
      /\ system_overlay \in Widoczne \cup {Nikt}
  BY DEF InwOkien, Adresaci, Obecni, Zwisa, Odbiera, Publikuje
<1>3. ~naruszony => Uporzadkowane(podniesienia, Widoczne, z_order, {})
  BY PodnoszonePusta DEF InwOkien, Kolejnosc, WKolejnosci
<1>4. QED
  BY <1>1, <1>2, <1>3, PidyToLiczby DEF InwOkien

(* A call that begins and leaves the layers alone.                         *)
LEMMA PoczatekBezWarstw ==
  ASSUME InwOkien, wywolanie = <<>>, NEW s,
         s = <<>> \/ (s # <<>> /\ Head(s).rodzaj # "z"),
         Poprawne(s, Widoczne, aktywny_pid_gui, naruszony, widok),
         wywolanie' = s, UNCHANGED <<stan_warstwy, z_order, podniesienia, naruszony, chybiony>>,
         UNCHANGED <<aktywny_pid_gui, widok>>,
         capture_pid_gui' \in Widoczne \cup {Nikt}, system_overlay' \in {Nikt, Menedzer},
         system_overlay' \in Widoczne \cup {Nikt}
  PROVE  InwOkien'
<1>1. /\ TypyOkien /\ aktywny_pid_gui \in Widoczne \cup {Nikt}
      /\ ~naruszony => Uporzadkowane(podniesienia, Widoczne, z_order, {})
      /\ Widoczne \subseteq PidyOkien
  BY WSpoczynku
<1>2. Obecni(s, Widoczne, aktywny_pid_gui, capture_pid_gui', system_overlay')
  BY <1>1 DEF Obecni
<1>3. WKolejnosci(podniesienia, Widoczne, z_order, s, naruszony)
  BY <1>1, MniejUporzadkowanych DEF WKolejnosci
<1>4. QED
  BY <1>1, <1>2, <1>3, BezWarstw DEF TypyOkien, Ktos

LEMMA PrzejecieInw ==
  ASSUME NEW p \in PidyOkien, NEW stan \in BOOLEAN, InwOkien, bws_gui_ustaw_przejecie_myszy(p, stan)
  PROVE  InwOkien'
<1> DEFINE V == Widoczne
           k == Krok("focus", p)
           m == Krok("podnies", p)
<1>1. /\ wywolanie = <<>> /\ wywolanie' = (IF stan THEN <<k, m>> ELSE <<>>)
      /\ stan => p \in V
      /\ UNCHANGED <<stan_warstwy, z_order, podniesienia, naruszony, chybiony>>
      /\ UNCHANGED <<aktywny_pid_gui, capture_pid_gui, system_overlay, widok>>
  BY DEF bws_gui_ustaw_przejecie_myszy, Wywolaj, warstwy, adresy, Widoczne
<1>2. /\ TypyOkien /\ Powiadomiony(widok, aktywny_pid_gui, naruszony)
      /\ capture_pid_gui \in V \cup {Nikt} /\ system_overlay \in V \cup {Nikt}
  BY <1>1, WSpoczynku
<1>3. /\ wywolanie' \in Seq(Pozne(V))
      /\ wywolanie' = <<>> \/ (wywolanie' # <<>> /\ Head(wywolanie').rodzaj # "z")
  <2>1. CASE stan
    <3>1. p \in Ktos /\ p \in V
      BY <1>1, <2>1 DEF Ktos
    <3> HIDE DEF V
    <3>2. k \in Pozne(V) /\ m \in Pozne(V) /\ k.rodzaj = "focus"
      BY <3>1, PoznyKrok, KrokToKrok DEF Zwykle
    <3> HIDE DEF k, m
    <3>3. <<k, m>> \in Seq(Pozne(V)) /\ <<k, m>> # <<>> /\ Head(<<k, m>>) = k
      BY <3>2, Dwa
    <3>4. QED
      BY <1>1, <2>1, <3>2, <3>3
  <2>2. CASE ~stan
    BY <1>1, <2>2, Pusta
  <2>3. QED
    BY <2>1, <2>2
<1>4. Poprawne(wywolanie', V, aktywny_pid_gui, naruszony, widok)
  BY <1>2, <1>3, ZostalyPozne
<1>5. QED
  BY <1>1, <1>2, <1>3, <1>4, PoczatekBezWarstw DEF TypyOkien

LEMMA UstawCaptureInw ==
  ASSUME NEW p \in PidyOkien, InwOkien, bws_gui_ustaw_capture(p)
  PROVE  InwOkien'
<1> DEFINE V == Widoczne
           k == Krok("przejmij", p)
<1>1. /\ wywolanie = <<>> /\ wywolanie' = <<k>> /\ p \in V
      /\ UNCHANGED <<stan_warstwy, z_order, podniesienia, naruszony, chybiony>>
      /\ UNCHANGED <<aktywny_pid_gui, capture_pid_gui, system_overlay, widok>>
  BY DEF bws_gui_ustaw_capture, Wywolaj, warstwy, adresy, mysz, Widoczne
<1>2. /\ TypyOkien /\ Powiadomiony(widok, aktywny_pid_gui, naruszony)
      /\ capture_pid_gui \in V \cup {Nikt} /\ system_overlay \in V \cup {Nikt}
  BY <1>1, WSpoczynku
<1>3. k \in Kroki /\ k.rodzaj = "przejmij" /\ k.pid = p
  BY KrokToKrok, p \in Ktos DEF Pojedyncze, Ktos
<1> HIDE DEF k
<1>4. <<k>> \in Seq(Kroki) /\ <<k>> # <<>> /\ Head(<<k>>) = k /\ Tail(<<k>>) = <<>>
  BY <1>3
<1>5. Zwyczajny(k, <<>>, V, aktywny_pid_gui, naruszony, widok)
  BY <1>1, <1>2, <1>3, Pusta DEF Zwyczajny
<1>6. Poprawne(<<k>>, V, aktywny_pid_gui, naruszony, widok)
  BY <1>3, <1>4, <1>5 DEF Poprawne, Grupa
<1>7. QED
  BY <1>1, <1>2, <1>3, <1>4, <1>6, PoczatekBezWarstw DEF TypyOkien

LEMMA ZwolnijCaptureInw ==
  ASSUME NEW p \in PidyOkien, InwOkien, ZwolnijCapture(p)
  PROVE  InwOkien'
<1>1. /\ wywolanie = <<>> /\ wywolanie' = <<>> /\ capture_pid_gui' = Nikt
      /\ UNCHANGED <<stan_warstwy, z_order, podniesienia, naruszony, chybiony>>
      /\ UNCHANGED <<aktywny_pid_gui, system_overlay, widok>>
  BY DEF ZwolnijCapture, Wywolaj, warstwy, mysz
<1>2. TypyOkien /\ system_overlay \in Widoczne \cup {Nikt}
  BY <1>1, WSpoczynku
<1>3. Poprawne(<<>>, Widoczne, aktywny_pid_gui, naruszony, widok)
  BY <1>1 DEF InwOkien, Wywolania
<1>4. QED
  BY <1>1, <1>2, <1>3, PoczatekBezWarstw DEF TypyOkien

LEMMA OverlayInw ==
  ASSUME NEW otwarty \in BOOLEAN, InwOkien, skladacz_obrazu_ustaw_overlay(otwarty)
  PROVE  InwOkien'
<1>1. /\ wywolanie = <<>> /\ wywolanie' = <<>>
      /\ otwarty => pobierz_warstwe(Menedzer)
      /\ system_overlay' = (IF otwarty THEN Menedzer ELSE Nikt)
      /\ UNCHANGED <<stan_warstwy, z_order, podniesienia, naruszony, chybiony>>
      /\ UNCHANGED <<aktywny_pid_gui, capture_pid_gui, widok>>
  BY DEF skladacz_obrazu_ustaw_overlay, Wywolaj, warstwy, adresy, mysz
<1>2. capture_pid_gui \in Widoczne \cup {Nikt}
  BY <1>1, WSpoczynku
<1>3. system_overlay' \in {Nikt, Menedzer} /\ system_overlay' \in Widoczne \cup {Nikt}
  BY <1>1, PidyToLiczby DEF Widoczne
<1>4. Poprawne(<<>>, Widoczne, aktywny_pid_gui, naruszony, widok)
  BY <1>1 DEF InwOkien, Wywolania
<1>5. QED
  BY <1>1, <1>2, <1>3, <1>4, PoczatekBezWarstw

(* A call that begins with a change of the layers.                         *)
LEMMA PoczatekZWarstwami ==
  ASSUME InwOkien, wywolanie = <<>>, NEW V2, NEW s, s # <<>>, Head(s).rodzaj # "z",
         wywolanie' = s, Widoczne' = V2,
         Poprawne(s, V2, aktywny_pid_gui, naruszony, widok),
         Obecni(s, V2, aktywny_pid_gui, capture_pid_gui, system_overlay'),
         ~naruszony => Uporzadkowane(podniesienia', V2, z_order', Podnoszone(s)),
         stan_warstwy' \in [PidyOkien -> {"brak", "widoczna", "ukryta"}],
         z_order' \in [PidyOkien -> ZakresZ], podniesienia' \subseteq PidyOkien \X PidyOkien,
         system_overlay' \in {Nikt, Menedzer},
         UNCHANGED <<naruszony, chybiony, aktywny_pid_gui, capture_pid_gui, widok>>
  PROVE  InwOkien'
<1>1. TypyOkien'
  BY DEF InwOkien, TypyOkien
<1>2. WKolejnosci(podniesienia', V2, z_order', s, naruszony)
  BY DEF WKolejnosci
<1>3. Wywolania' /\ Adresaci' /\ Kolejnosc'
  BY <1>2 DEF Wywolania, Adresaci, Kolejnosc
<1>4. QED
  BY <1>1, <1>3 DEF InwOkien

LEMMA UtworzInw ==
  ASSUME NEW p \in PidyOkien, NEW z \in PoczatkoweZ[p], InwOkien, bws_utworz_warstwe(p, z)
  PROVE  InwOkien'
<1> DEFINE V == Widoczne
           W == Widoczne \ {p}
           h == KrokZ("publikuj", p, z)
           k == Krok("focus", p)
           m == Krok("podnies", p)
           s == <<h>> \o <<k, m>>
<1>1. /\ wywolanie = <<>> /\ wywolanie' = <<h, k, m>>
      /\ stan_warstwy' = [stan_warstwy EXCEPT ![p] = "brak"]
      /\ UNCHANGED <<z_order, podniesienia, naruszony, chybiony>>
      /\ UNCHANGED <<aktywny_pid_gui, capture_pid_gui, system_overlay, widok>>
  BY DEF bws_utworz_warstwe, Wywolaj, adresy, mysz
<1>2. /\ TypyOkien /\ Powiadomiony(widok, aktywny_pid_gui, naruszony)
      /\ capture_pid_gui \in V \cup {Nikt} /\ aktywny_pid_gui \in V \cup {Nikt}
      /\ system_overlay \in V \cup {Nikt}
      /\ ~naruszony => Uporzadkowane(podniesienia, V, z_order, {})
  BY <1>1, WSpoczynku
<1>3. stan_warstwy' \in [PidyOkien -> {"brak", "widoczna", "ukryta"}] /\ Widoczne' = W
  BY <1>1, <1>2, ZmianaWidocznych DEF TypyOkien
<1>4. p \in Ktos /\ z \in ZakresZ
  BY Zakres DEF Ktos
<1>5. /\ h \in Kroki /\ h.rodzaj = "publikuj" /\ h.pid = p
      /\ k \in Kroki /\ m \in Kroki
  BY <1>4, KrokToKrok DEF Pojedyncze, Zwykle
<1>6. <<k, m>> = <<Krok("focus", h.pid), Krok("podnies", h.pid)>>
  BY <1>5
<1> HIDE DEF h, k, m
<1>7. <<h, k, m>> = s /\ <<k, m>> \in Seq(Kroki)
  BY <1>5, TrzyNaPoczatek, Dwa
<1>8. s \in Seq(Kroki) /\ s # <<>> /\ Head(s) = h /\ Tail(s) = <<k, m>>
  BY <1>5, <1>7, NaPoczatek
<1>9. Zwyczajny(h, <<k, m>>, W, aktywny_pid_gui, naruszony, widok)
  BY <1>2, <1>5, <1>6 DEF Zwyczajny
<1>10. Poprawne(s, W, aktywny_pid_gui, naruszony, widok)
  BY <1>5, <1>7, <1>9, Najpierw DEF Grupa
<1> HIDE DEF s
<1>11. Obecni(s, W, aktywny_pid_gui, capture_pid_gui, system_overlay)
  BY <1>2, <1>5, <1>8 DEF Obecni, Zwisa, Publikuje
<1>12. ~naruszony => Uporzadkowane(podniesienia, W, z_order, Podnoszone(s))
  BY <1>2, MniejUporzadkowanych, W \ Podnoszone(s) \subseteq V \ {}
<1>13. wywolanie' = s /\ Head(s).rodzaj # "z"
  BY <1>1, <1>5, <1>7, <1>8
<1>14. QED
  BY <1>1, <1>2, <1>3, <1>8, <1>10, <1>11, <1>12, <1>13, PoczatekZWarstwami DEF TypyOkien

LEMMA MinimalizujInw ==
  ASSUME NEW p \in PidyOkien, InwOkien, bws_gui_minimalizuj_warstwe(p), ~wyjatek'
  PROVE  InwOkien'
<1> DEFINE V == Widoczne
           W == Widoczne \ {p}
           h == Krok("porzuc", p)
           s == <<h>> \o <<>>
<1>1. /\ wywolanie = <<>> /\ wywolanie' = <<h>> /\ system_overlay # p
      /\ stan_warstwy' = [stan_warstwy EXCEPT ![p] = "ukryta"]
      /\ UNCHANGED <<z_order, podniesienia, naruszony, chybiony>>
      /\ UNCHANGED <<aktywny_pid_gui, capture_pid_gui, system_overlay, widok>>
  BY DEF bws_gui_minimalizuj_warstwe, Wywolaj, adresy, mysz
<1>2. /\ TypyOkien /\ Powiadomiony(widok, aktywny_pid_gui, naruszony)
      /\ capture_pid_gui \in V \cup {Nikt} /\ aktywny_pid_gui \in V \cup {Nikt}
      /\ system_overlay \in V \cup {Nikt}
      /\ ~naruszony => Uporzadkowane(podniesienia, V, z_order, {})
  BY <1>1, WSpoczynku
<1>3. stan_warstwy' \in [PidyOkien -> {"brak", "widoczna", "ukryta"}] /\ Widoczne' = W
  BY <1>1, <1>2, ZmianaWidocznych DEF TypyOkien
<1>4. p \in Ktos
  BY DEF Ktos
<1>5. h \in Kroki /\ h.rodzaj = "porzuc" /\ h.pid = p
  BY <1>4, KrokToKrok DEF Pojedyncze
<1> HIDE DEF h
<1>6. <<h>> = s /\ <<>> \in Seq(Kroki) /\ <<>> \in Seq(Pozne(W))
  BY <1>5
<1>7. s \in Seq(Kroki) /\ s # <<>> /\ Head(s) = h
  BY <1>5, <1>6, NaPoczatek
<1>8. Zwyczajny(h, <<>>, W, aktywny_pid_gui, naruszony, widok)
  BY <1>2, <1>5, <1>6 DEF Zwyczajny
<1>9. Poprawne(s, W, aktywny_pid_gui, naruszony, widok)
  BY <1>5, <1>6, <1>8, Najpierw DEF Grupa
<1> HIDE DEF s
<1>10. Obecni(s, W, aktywny_pid_gui, capture_pid_gui, system_overlay)
  BY <1>1, <1>2, <1>5, <1>7 DEF Obecni, Zwisa, TypyOkien
<1>11. ~naruszony => Uporzadkowane(podniesienia, W, z_order, Podnoszone(s))
  BY <1>2, MniejUporzadkowanych, W \ Podnoszone(s) \subseteq V \ {}
<1>12. wywolanie' = s /\ Head(s).rodzaj # "z"
  BY <1>1, <1>5, <1>6, <1>7
<1>13. QED
  BY <1>1, <1>2, <1>3, <1>7, <1>9, <1>10, <1>11, <1>12, PoczatekZWarstwami DEF TypyOkien

LEMMA AktywujInw ==
  ASSUME NEW p \in PidyOkien, InwOkien, bws_gui_aktywuj_okno(p)
  PROVE  InwOkien'
<1> DEFINE V == Widoczne
           W == Widoczne \cup {p}
           k == Krok("podnies", p)
           m == Krok("focus", p)
           s == <<k, m>>
<1>1. /\ wywolanie = <<>> /\ wywolanie' = s
      /\ stan_warstwy' = [stan_warstwy EXCEPT ![p] = "widoczna"]
      /\ UNCHANGED <<z_order, podniesienia, naruszony, chybiony>>
      /\ UNCHANGED <<aktywny_pid_gui, capture_pid_gui, system_overlay, widok>>
  BY DEF bws_gui_aktywuj_okno, Wywolaj, adresy, mysz
<1>2. /\ TypyOkien /\ Powiadomiony(widok, aktywny_pid_gui, naruszony)
      /\ capture_pid_gui \in V \cup {Nikt} /\ aktywny_pid_gui \in V \cup {Nikt}
      /\ system_overlay \in V \cup {Nikt}
      /\ ~naruszony => Uporzadkowane(podniesienia, V, z_order, {})
  BY <1>1, WSpoczynku
<1>3. stan_warstwy' \in [PidyOkien -> {"brak", "widoczna", "ukryta"}] /\ Widoczne' = W
  BY <1>1, <1>2, ZmianaWidocznych DEF TypyOkien
<1>4. p \in Ktos /\ p \in W
  BY DEF Ktos
<1>5. Obecni(s, W, aktywny_pid_gui, capture_pid_gui, system_overlay)
  BY <1>2 DEF Obecni
<1> HIDE DEF W
<1>6. /\ k \in Pozne(W) /\ m \in Pozne(W) /\ k.rodzaj = "podnies" /\ k.pid = p
  BY <1>4, PoznyKrok, KrokToKrok DEF Zwykle
<1> HIDE DEF k, m
<1>7. s \in Seq(Pozne(W)) /\ s # <<>> /\ Len(s) = 2 /\ s[1] = k /\ Head(s) = k
  BY <1>6, Dwa
<1> HIDE DEF s
<1>8. Poprawne(s, W, aktywny_pid_gui, naruszony, widok)
  BY <1>2, <1>7, ZostalyPozne
<1>9. p \in Podnoszone(s)
  <2>1. s \in Seq(Kroki) /\ 1 \in 1 .. Len(s)
    BY <1>7, PozneToKroki
  <2>2. QED
    BY <1>6, <1>7, <2>1, PodnoszoneMiejsce DEF Podnosi
<1>10. W \ Podnoszone(s) \subseteq V \ {}
  BY <1>9 DEF W
<1>11. ~naruszony => Uporzadkowane(podniesienia, W, z_order, Podnoszone(s))
  BY <1>2, <1>10, MniejUporzadkowanych
<1>12. QED
  BY <1>1, <1>2, <1>3, <1>5, <1>6, <1>7, <1>8, <1>11, PoczatekZWarstwami DEF TypyOkien

LEMMA ZakonczInw ==
  ASSUME NEW p \in PidyOkien, InwOkien, bws_zakoncz_biezacy_proces(p)
  PROVE  InwOkien'
<1> DEFINE V == Widoczne
           W == Widoczne \ {p}
           h == Krok("stan", p)
           m == Krok("mysz", p)
           s == <<h, m>>
<1>1. /\ wywolanie = <<>> /\ wywolanie' = s
      /\ stan_warstwy' = [stan_warstwy EXCEPT ![p] = "brak"]
      /\ z_order' = [z_order EXCEPT ![p] = 0] /\ podniesienia' = BezNiej(p)
      /\ system_overlay' = (IF system_overlay = p THEN Nikt ELSE system_overlay)
      /\ UNCHANGED <<naruszony, chybiony, aktywny_pid_gui, capture_pid_gui, widok>>
  BY DEF bws_zakoncz_biezacy_proces, Wywolaj, adresy, mysz
<1>2. /\ TypyOkien /\ Powiadomiony(widok, aktywny_pid_gui, naruszony)
      /\ capture_pid_gui \in V \cup {Nikt} /\ aktywny_pid_gui \in V \cup {Nikt}
      /\ system_overlay \in V \cup {Nikt} /\ V \subseteq PidyOkien
      /\ ~naruszony => Uporzadkowane(podniesienia, V, z_order, {})
  BY <1>1, WSpoczynku
<1>3. stan_warstwy' \in [PidyOkien -> {"brak", "widoczna", "ukryta"}] /\ Widoczne' = W
  BY <1>1, <1>2, ZmianaWidocznych DEF TypyOkien
<1>4. p \in Ktos
  BY DEF Ktos
<1>5. /\ h \in Kroki /\ h.rodzaj = "stan" /\ h.pid = p
      /\ m \in Kroki /\ m \in Pozne(W)
  BY <1>4, KrokToKrok, PoznyKrok DEF Pojedyncze, Zwykle
<1> HIDE DEF h, m
<1>6. s \in Seq(Kroki) /\ s # <<>> /\ Head(s) = h /\ Tail(s) = <<m>>
  BY <1>5, Dwa
<1>7. <<m>> \in Seq(Pozne(W))
  BY <1>5
<1> HIDE DEF s
<1>8. Zwyczajny(h, <<m>>, W, aktywny_pid_gui, naruszony, widok)
  BY <1>2, <1>5, <1>7 DEF Zwyczajny
<1>9. Poprawne(s, W, aktywny_pid_gui, naruszony, widok)
  BY <1>5, <1>6, <1>8 DEF Poprawne, Grupa
<1>10. Obecni(s, W, aktywny_pid_gui, capture_pid_gui, system_overlay')
  BY <1>1, <1>2, <1>5, <1>6 DEF Obecni, Zwisa
<1>11. z_order' \in [PidyOkien -> ZakresZ] /\ \A q \in PidyOkien \ {p} : z_order'[q] = z_order[q]
  BY <1>1, <1>2, Zakres DEF TypyOkien
<1>12. podniesienia' \subseteq PidyOkien \X PidyOkien
  BY <1>1, <1>2, CoToBezNiej DEF TypyOkien
<1>13. ASSUME ~naruszony PROVE Uporzadkowane(podniesienia', W, z_order', Podnoszone(s))
  <2> DEFINE w == {}
  <2>1. Uporzadkowane(podniesienia, V, z_order, w)
    BY <1>2, <1>13
  <2>2. W \ Podnoszone(s) \subseteq (V \ w) \ {p}
    OBVIOUS
  <2>3. podniesienia \subseteq PidyOkien \X PidyOkien
    BY <1>2 DEF TypyOkien
  <2> HIDE DEF W, V, w
  <2>4. Uporzadkowane(BezNiej(p), W, z_order', Podnoszone(s))
    BY <1>2, <1>11, <2>1, <2>2, <2>3, BezJednej
  <2>5. QED
    BY <1>1, <2>4
<1>14. system_overlay' \in {Nikt, Menedzer}
  BY <1>1, <1>2 DEF TypyOkien
<1>15. QED
  BY <1>1, <1>3, <1>5, <1>6, <1>9, <1>10, <1>11, <1>12, <1>13, <1>14, PoczatekZWarstwami

-----------------------------------------------------------------------------
(* The mouse, between any two steps of a call.                             *)
LEMMA BezKlikniecia ==
  ASSUME InwOkien, UNCHANGED <<stan_warstwy, z_order, podniesienia, naruszony, chybiony>>,
         UNCHANGED <<aktywny_pid_gui, system_overlay, widok, wywolanie>>,
         capture_pid_gui' \in {Nikt, capture_pid_gui}
  PROVE  InwOkien'
<1>1. Obecni(wywolanie, Widoczne, aktywny_pid_gui, capture_pid_gui', system_overlay)
  BY DEF InwOkien, Adresaci, Obecni
<1>2. capture_pid_gui' \in Ktos
  BY DEF InwOkien, TypyOkien, Ktos
<1>3. QED
  BY <1>1, <1>2, BezWarstw DEF InwOkien, TypyOkien, Wywolania, Kolejnosc

LEMMA MyszPowlokiInw == InwOkien /\ MyszPowloki => InwOkien'
BY BezKlikniecia DEF MyszPowloki, warstwy, adresy

LEMMA PuszczenieInw ==
  ASSUME NEW przyciski, InwOkien, Puszczenie(przyciski)
  PROVE  InwOkien'
<1>1. /\ UNCHANGED <<stan_warstwy, z_order, podniesienia, naruszony, chybiony>>
      /\ UNCHANGED <<aktywny_pid_gui, system_overlay, widok, wywolanie>>
      /\ capture_pid_gui' \in {Nikt, capture_pid_gui}
  BY DEF Puszczenie, warstwy
<1>2. QED
  BY <1>1, BezKlikniecia

(* What the hit test may find.                                             *)
LEMMA CoTrafiono ==
  ASSUME InwOkien, NEW punkt
  PROVE  /\ znajdz_warstwe_pod_punktem(punkt) \in Ktos
         /\ \/ znajdz_warstwe_pod_punktem(punkt) \in Widoczne \cup {Nikt}
            \/ znajdz_warstwe_pod_punktem(punkt) = system_overlay
<1> DEFINE b == znajdz_warstwe_pod_punktem(punkt)
<1>1. TypyOkien /\ Widoczne \subseteq PidyOkien
  BY PidyToLiczby DEF InwOkien
<1>2. CASE system_overlay # Nikt
  BY <1>1, <1>2, PidyToLiczby DEF znajdz_warstwe_pod_punktem, TypyOkien, Ktos
<1>3. CASE system_overlay = Nikt
  <2> DEFINE tu == {p \in Widoczne : punkt \in Obszar[p]}
  <2>1. b = Najwyzsza(tu)
    BY <1>3 DEF znajdz_warstwe_pod_punktem
  <2>2. tu \subseteq Widoczne /\ tu \subseteq PidyOkien
    BY <1>1
  <2> HIDE DEF tu, b
  <2>3. CASE tu = {}
    BY <2>1, <2>3 DEF Najwyzsza, Ktos, b
  <2>4. CASE tu # {}
    BY <1>1, <2>1, <2>2, <2>4, NajwyzszaJest DEF TypyOkien, Ktos, b
  <2>5. QED
    BY <2>3, <2>4
<1>4. QED
  BY <1>2, <1>3

LEMMA NacisniecieInw ==
  ASSUME NEW przyciski, NEW punkt, InwOkien, Nacisniecie(przyciski, punkt)
  PROVE  InwOkien'
<1> DEFINE V == Widoczne
           a == aktywny_pid_gui
           b == znajdz_warstwe_pod_punktem(punkt)
           podnosi == DoPodniesienia(b)
           y == Podniesione(b, NajwyzszeZ)
           m == \/ naruszony
                \/ b # a /\ \E i \in DOMAIN wywolanie : wywolanie[i].rodzaj \in {"aktywny", "blur", "fokus"}
                \/ podnosi /\ Teraz("z")
<1>1. /\ z_order' = (IF podnosi THEN y ELSE z_order)
      /\ podniesienia' = (IF m THEN {} ELSE IF podnosi THEN NaKoncu(b) ELSE podniesienia)
      /\ aktywny_pid_gui' = b
      /\ widok' = (IF b # a THEN [p \in PidyOkien |-> (widok[p] \/ p = b) /\ p # a /\ ~m] ELSE widok)
      /\ capture_pid_gui' = Nikt
      /\ naruszony' = m
      /\ chybiony' = (chybiony \/ (wywolanie = <<>> /\ ~naruszony /\ ~wyjatek'
                                   /\ b # NaWierzchu(punkt)))
      /\ UNCHANGED <<stan_warstwy, system_overlay, wywolanie>>
  BY DEF Nacisniecie, CaptureNacisniecia
<1>2. /\ TypyOkien /\ Poprawne(wywolanie, V, a, naruszony, widok)
      /\ Obecni(wywolanie, V, a, capture_pid_gui, system_overlay)
      /\ WKolejnosci(podniesienia, V, z_order, wywolanie, naruszony) /\ ~chybiony
      /\ wywolanie \in Seq(Kroki)
  BY DEF InwOkien, Wywolania, Adresaci, Kolejnosc, Poprawne
<1>3. V \subseteq PidyOkien /\ Widoczne' = V
  BY <1>1, PidyToLiczby DEF Widoczne, pobierz_warstwe
<1>4. b \in Ktos /\ (b \in V \cup {Nikt} \/ b = system_overlay)
  BY CoTrafiono
<1>5. Obecni(wywolanie, V, b, Nikt, system_overlay)
  <2>1. CASE b \in V \cup {Nikt}
    BY <1>2, <2>1 DEF Obecni
  <2>2. CASE b \notin V \cup {Nikt}
    <3>1. b = system_overlay /\ Publikuje(wywolanie, b) /\ b \in PidyOkien
      BY <1>2, <1>4, <2>2 DEF Obecni, Ktos
    <3>2. QED
      BY <1>2, <3>1 DEF Obecni, Publikuje, Zwisa
  <2>3. QED
    BY <2>1, <2>2
<1> HIDE DEF b
<1>6. podnosi => b \in Dodatnie /\ b \in PidyOkien
  BY DEF DoPodniesienia, Dodatnie, Widoczne, pobierz_warstwe
<1>7. podnosi => NajwyzszeZ \in ZakresZ /\ \A q \in Dodatnie : z_order[q] <= NajwyzszeZ
  BY <1>2, <1>6, NajwyzszeZJest DEF TypyOkien
<1>8. podnosi => Podniesiona(y, b)
  BY <1>2, <1>6, <1>7, PodniesionaJest DEF TypyOkien
<1>9. z_order' \in [PidyOkien -> ZakresZ]
  BY <1>1, <1>2, <1>8 DEF TypyOkien, Podniesiona
<1>10. m \in BOOLEAN /\ (naruszony => m) /\ (b # a /\ wywolanie # <<>> /\ Head(wywolanie).rodzaj \in Grupa => m)
  <2>1. wywolanie # <<>> => 1 \in DOMAIN wywolanie /\ Head(wywolanie) = wywolanie[1]
    BY <1>2
  <2>2. QED
    BY <1>2, <2>1 DEF Grupa, TypyOkien
<1>11. podniesienia' \subseteq PidyOkien \X PidyOkien
  <2>1. CASE m \/ ~podnosi
    BY <1>1, <1>2, <2>1 DEF TypyOkien
  <2>2. CASE ~m /\ podnosi
    BY <1>1, <1>2, <1>6, <1>10, <2>2, CoToNaKoncu DEF TypyOkien
  <2>3. QED
    BY <2>1, <2>2
<1>12. widok' \in [PidyOkien -> BOOLEAN]
  BY <1>1, <1>2, <1>10 DEF TypyOkien
<1>13. ASSUME ~m PROVE /\ Uporzadkowane(podniesienia', V, z_order', Podnoszone(wywolanie))
                       /\ wywolanie # <<>> /\ Head(wywolanie).rodzaj = "z" =>
                            Najwyzej(V, z_order', Head(wywolanie))
  <2>1. /\ Uporzadkowane(podniesienia, V, z_order, Podnoszone(wywolanie))
        /\ wywolanie # <<>> /\ Head(wywolanie).rodzaj = "z" => Najwyzej(V, z_order, Head(wywolanie))
        /\ ~naruszony
    BY <1>2, <1>10, <1>13 DEF WKolejnosci
  <2>2. CASE ~podnosi
    <3>1. z_order' = z_order /\ podniesienia' = podniesienia
      BY <1>1, <1>13, <2>2
    <3>2. QED
      BY <2>1, <3>1
  <2>3. CASE podnosi
    <3>1. z_order' = y /\ podniesienia' = NaKoncu(b)
      BY <1>1, <1>13, <2>3
    <3>2. ~ (wywolanie # <<>> /\ Head(wywolanie).rodzaj = "z")
      BY <1>13, <2>3 DEF Teraz
    <3> HIDE DEF y, m, podnosi
    <3>3. Uporzadkowane(NaKoncu(b), V, y, Podnoszone(wywolanie) \ {b})
      BY <1>2, <1>6, <1>8, <2>1, <2>3, PoPodniesieniu DEF TypyOkien
    <3>4. Uporzadkowane(NaKoncu(b), V, y, Podnoszone(wywolanie))
      BY <3>3, MniejUporzadkowanych, V \ Podnoszone(wywolanie) \subseteq V \ (Podnoszone(wywolanie) \ {b})
    <3>5. QED
      BY <3>1, <3>2, <3>4
  <2>4. QED
    BY <2>2, <2>3
<1>14. ~chybiony'
  <2>1. ASSUME wywolanie = <<>>, ~naruszony PROVE b = NaWierzchu(punkt)
    <3>1. Uporzadkowane(podniesienia, V, z_order, {})
      BY <2>1, WSpoczynku
    <3>2. QED
      BY <1>2, <3>1, TrafionaNaWierzchu DEF TypyOkien, b
  <2>2. QED
    BY <1>1, <1>2, <2>1
<1>15. naruszony' = m /\ aktywny_pid_gui' = b
  BY <1>1
<1>16. b = a /\ ~m => widok' = widok
  BY <1>1
<1>17. b # a => widok' = [p \in PidyOkien |-> (widok[p] \/ p = b) /\ p # a /\ ~m]
  BY <1>1
<1> HIDE DEF m, y, podnosi
<1>18. Poprawne(wywolanie, V, b, m, widok')
  BY <1>2, <1>10, <1>12, <1>16, <1>17, PoNacisnieciu DEF TypyOkien
<1>19. WKolejnosci(podniesienia', V, z_order', wywolanie, m)
  BY <1>13 DEF WKolejnosci
<1>20. TypyOkien'
  BY <1>1, <1>2, <1>4, <1>9, <1>10, <1>11, <1>12 DEF TypyOkien, Ktos
<1>21. Wywolania' /\ Adresaci' /\ Kolejnosc'
  BY <1>1, <1>3, <1>5, <1>15, <1>18, <1>19 DEF Wywolania, Adresaci, Kolejnosc
<1>22. QED
  BY <1>14, <1>20, <1>21 DEF InwOkien

-----------------------------------------------------------------------------
(* The report of a USB mouse.                                              *)
LEMMA UsbNacisniecieInw == InwOkien /\ UsbNacisniecie => InwOkien'
<1> SUFFICES ASSUME InwOkien, UsbNacisniecie PROVE InwOkien'
  OBVIOUS
<1> DEFINE k == Krok("trafienie", Nikt)
<1>1. /\ wywolanie = <<>> /\ wywolanie' = <<k>> /\ capture_pid_gui' = Nikt
      /\ UNCHANGED <<stan_warstwy, z_order, podniesienia, naruszony, chybiony>>
      /\ UNCHANGED <<aktywny_pid_gui, system_overlay, widok>>
  BY DEF UsbNacisniecie, WPetli, CaptureNacisniecia, warstwy
<1>2. /\ TypyOkien /\ Powiadomiony(widok, aktywny_pid_gui, naruszony)
      /\ system_overlay \in Widoczne \cup {Nikt}
  BY <1>1, WSpoczynku
<1>3. k \in Kroki /\ k.rodzaj = "trafienie"
  BY KrokToKrok DEF Pojedyncze, Ktos
<1> HIDE DEF k
<1>4. <<k>> \in Seq(Kroki) /\ <<k>> # <<>> /\ Head(<<k>>) = k /\ Tail(<<k>>) = <<>>
  BY <1>3
<1>5. Zwyczajny(k, <<>>, Widoczne, aktywny_pid_gui, naruszony, widok)
  BY <1>2, <1>3, Pusta DEF Zwyczajny
<1>6. Poprawne(<<k>>, Widoczne, aktywny_pid_gui, naruszony, widok)
  BY <1>3, <1>4, <1>5 DEF Poprawne, Grupa
<1>7. QED
  BY <1>1, <1>2, <1>3, <1>4, <1>6, PoczatekBezWarstw DEF TypyOkien

LEMMA TrafienieInw ==
  ASSUME NEW punkt, InwOkien, Trafienie(punkt), wywolanie = <<Krok("trafienie", Nikt)>>
  PROVE  InwOkien'
<1> DEFINE V == Widoczne
           a == aktywny_pid_gui
           b == znajdz_warstwe_pod_punktem(punkt)
           k == Krok("podnies", b)
           m == Krok("focus", b)
           x == Krok("adresat", b)
           h == Krok("trafienie", Nikt)
           u == <<k>> \o <<m, x>>
<1>1. /\ Teraz("trafienie") /\ wywolanie' = <<k, m, x>> \o Tail(wywolanie)
      /\ UNCHANGED <<stan_warstwy, z_order, podniesienia, naruszony>>
      /\ UNCHANGED <<a, capture_pid_gui, system_overlay, widok>>
      /\ chybiony' = (chybiony \/ (~naruszony /\ ~wyjatek /\ b # NaWierzchu(punkt)))
  BY DEF Trafienie, WNacisku, Dalej, warstwy, adresy
<1>2. /\ Head(wywolanie).rodzaj = "trafienie" /\ wywolanie # <<>> /\ TypyOkien
      /\ wywolanie \in Seq(Kroki)
      /\ Zwyczajny(Head(wywolanie), Tail(wywolanie), V, a, naruszony, widok)
      /\ Obecni(wywolanie, V, a, capture_pid_gui, system_overlay)
      /\ WKolejnosci(podniesienia, V, z_order, wywolanie, naruszony)
  BY <1>1, WKroku DEF Grupa
<1>3. b \in Ktos /\ b \in V \cup {Nikt}
  BY <1>2, CoTrafiono DEF Obecni, Publikuje
<1>4. h \in Kroki /\ h.rodzaj = "trafienie"
  BY KrokToKrok DEF Pojedyncze, Ktos
<1>5. Powiadomiony(widok, a, naruszony)
  BY <1>2 DEF Zwyczajny
<1>6. ~chybiony'
  <2>1. Podnoszone(wywolanie) = {}
    <3>1. Podnosi(h) = {}
      BY <1>4 DEF Podnosi
    <3> HIDE DEF h
    <3>2. Len(<<h>>) = 1 /\ <<h>>[1] = h
      OBVIOUS
    <3>3. Podnoszone(<<h>>) = {}
      BY <3>1, <3>2, \A i \in 1 .. 1 : i = 1 DEF Podnoszone
    <3>4. QED
      BY <3>3 DEF h
  <2>2. ASSUME ~naruszony PROVE b = NaWierzchu(punkt)
    <3>1. Uporzadkowane(podniesienia, V, z_order, {})
      BY <1>2, <2>1, <2>2 DEF WKolejnosci
    <3>2. QED
      BY <1>2, <3>1, TrafionaNaWierzchu DEF TypyOkien
  <2>3. QED
    BY <1>1, <2>2 DEF InwOkien
<1>7. Tail(wywolanie) = <<>>
  <2> HIDE DEF h
  <2>1. Tail(<<h>>) = <<>>
    BY <1>4
  <2>2. QED
    BY <2>1 DEF h
<1> HIDE DEF V, b, h
<1>8. /\ k \in Pozne(V) /\ m \in Pozne(V) /\ x \in Pozne(V) /\ k.rodzaj = "podnies"
  BY <1>3, PoznyKrok, KrokToKrok DEF Zwykle
<1> HIDE DEF k, m, x
<1>9. <<m, x>> \in Seq(Pozne(V)) /\ <<k, m, x>> = u
  BY <1>8, Dwa, TrzyNaPoczatek
<1>10. u \in Seq(Pozne(V)) /\ u # <<>> /\ Head(u) = k
  BY <1>8, <1>9, NaPoczatek
<1> HIDE DEF u
<1>11. wywolanie' = u \o <<>> /\ u \o <<>> = u
  BY <1>1, <1>7, <1>9, <1>10, ConcatEmptySeq
<1>12. Poprawne(u, V, a, naruszony, widok)
  BY <1>5, <1>10, ZostalyPozne
<1>13. Obecni(u, V, a, capture_pid_gui, system_overlay)
  BY <1>2, ObecniDalej DEF Odbiera
<1>14. WKolejnosci(podniesienia, V, z_order, u \o Tail(wywolanie), naruszony)
  <2>1. u \in Seq(Kroki) /\ (u # <<>> => Head(u).rodzaj # "z")
    BY <1>8, <1>10, PozneToKroki
  <2>2. QED
    BY <1>1, <2>1, KolejnoscDalej DEF V
<1>15. QED
  BY <1>1, <1>2, <1>6, <1>7, <1>11, <1>12, <1>13, <1>14, BezWarstwTrafnie DEF TypyOkien, V

LEMMA AdresatInw ==
  ASSUME InwOkien, Adresat, Cel = Pid
  PROVE  InwOkien'
<1> DEFINE V == Widoczne
           a == aktywny_pid_gui
           t == Tail(wywolanie)
<1>1. /\ Teraz("adresat") /\ wywolanie' = <<>> \o t /\ ~chybiony'
      /\ UNCHANGED <<stan_warstwy, z_order, podniesienia, naruszony>>
      /\ UNCHANGED <<a, capture_pid_gui, system_overlay, widok>>
  BY DEF Adresat, WNacisku, Dalej, warstwy, adresy, InwOkien
<1>2. /\ wywolanie # <<>> /\ Head(wywolanie).rodzaj = "adresat" /\ TypyOkien /\ <<>> \o t = t
      /\ t \in Seq(Kroki)
      /\ Zwyczajny(Head(wywolanie), t, V, a, naruszony, widok)
      /\ Obecni(wywolanie, V, a, capture_pid_gui, system_overlay)
  BY <1>1, WKroku DEF Grupa
<1>3. Poprawne(t, V, a, naruszony, widok)
  BY <1>2, ZostalyPozne DEF Zwyczajny
<1>4. Obecni(t, V, a, capture_pid_gui, system_overlay)
  BY <1>2, ObecniDalej DEF Odbiera
<1>5. WKolejnosci(podniesienia, V, z_order, <<>> \o t, naruszony)
  BY <1>1, <1>2, KolejnoscDalej, Pusta
<1>6. QED
  BY <1>1, <1>2, <1>3, <1>4, <1>5, BezWarstwTrafnie DEF TypyOkien

(* The phases of a report outside a press.                                 *)
LEMMA UsbBezNaciskuInw ==
  ASSUME InwOkien, \/ UsbNapraw \/ UsbWlasciciel \/ UsbPusc \/ UsbZapisz
                   \/ \E przyciski \in SUBSET Przyciski : UsbPrzyciski(przyciski)
  PROVE  InwOkien'
<1>1. /\ UNCHANGED <<stan_warstwy, z_order, podniesienia, naruszony, chybiony>>
      /\ UNCHANGED <<aktywny_pid_gui, system_overlay, widok, wywolanie>>
      /\ capture_pid_gui' \in {Nikt, capture_pid_gui}
  BY DEF UsbNapraw, UsbWlasciciel, UsbPusc, UsbZapisz, UsbPrzyciski, warstwy, adresy
<1>2. QED
  BY <1>1, BezKlikniecia

-----------------------------------------------------------------------------
(* A press of the USB mouse that nothing came into: first the hit test;    *)
(* once it has hit t, steps after which t has the focus, and the step that *)
(* reads the addressee last.                                               *)
KrokiNacisku(t) == {k \in Kroki : /\ k.rodzaj \in {"podnies", "z", "focus"} \cup Grupa
                                  /\ k.rodzaj \in {"focus", "aktywny"} => k.pid = t}
Ciche == {k \in Kroki : k.rodzaj \notin {"focus", "aktywny"}}

Trafiono(s, a, t) ==
  \E q \in Seq(KrokiNacisku(t)) : /\ s = q \o <<Krok("adresat", t)>>
                                  /\ a = t \/ q \notin Seq(Ciche)

InwNacisku ==
  usb.faza = "nacisk" =>
    /\ capture_pid_gui = Nikt
    /\ \/ wywolanie = <<Krok("trafienie", Nikt)>>
       \/ \E t \in Ktos : Trafiono(wywolanie, aktywny_pid_gui, t)

LEMMA NaKoncuCiagu ==
  ASSUME NEW S, NEW q \in Seq(S), NEW x \in S
  PROVE  /\ q \o <<x>> \in Seq(S) /\ q \o <<x>> # <<>>
         /\ q = <<>> => q \o <<x>> = <<x>>
         /\ q # <<>> => Head(q \o <<x>>) = Head(q) /\ Tail(q \o <<x>>) = Tail(q) \o <<x>>
<1>1. Append(q, x) = q \o <<x>>
  BY AppendIsConcat
<1>2. Append(q, x) \in Seq(S) /\ Append(q, x) # <<>>
  BY AppendProperties
<1>3. CASE q = <<>>
  BY <1>1, <1>2, <1>3, <<x>> \in Seq(S), ConcatEmptySeq
<1>4. CASE q # <<>>
  <2>1. Tail(q) \in Seq(S)
    BY <1>4, Czolo
  <2>2. Append(Tail(q), x) = Tail(q) \o <<x>>
    BY <2>1, AppendIsConcat
  <2>3. Head(Append(q, x)) = Head(q) /\ Tail(Append(q, x)) = Append(Tail(q), x)
    BY <1>4, HeadTailAppend
  <2>4. QED
    BY <1>1, <1>2, <1>4, <2>2, <2>3
<1>5. QED
  BY <1>3, <1>4

LEMMA ZElementow ==
  ASSUME NEW S, NEW T, NEW q \in Seq(T), \A i \in 1 .. Len(q) : q[i] \in S
  PROVE  q \in Seq(S)
<1>1. Len(q) \in Nat /\ q \in [1 .. Len(q) -> T]
  BY LenProperties
<1>2. q \in [1 .. Len(q) -> S]
  BY <1>1
<1>3. QED
  BY <1>1, <1>2, SeqDef

LEMMA CzesciCiagu ==
  ASSUME NEW S, NEW T, NEW u \in Seq(T), NEW v \in Seq(T), u \o v \in Seq(S)
  PROVE  u \in Seq(S) /\ v \in Seq(S)
<1>1. /\ Len(u) \in Nat /\ Len(v) \in Nat /\ Len(u \o v) = Len(u) + Len(v)
      /\ \A i \in 1 .. Len(u) + Len(v) : (u \o v)[i] = IF i <= Len(u) THEN u[i] ELSE v[i - Len(u)]
  BY ConcatProperties, LenProperties
<1>2. \A i \in 1 .. Len(u) + Len(v) : (u \o v)[i] \in S
  BY <1>1, ElementOfSeq
<1>3. ASSUME NEW i \in 1 .. Len(u) PROVE u[i] \in S
  BY <1>1, <1>2
<1>4. ASSUME NEW i \in 1 .. Len(v) PROVE v[i] \in S
  <2>1. Len(u) + i \in 1 .. Len(u) + Len(v) /\ ~(Len(u) + i <= Len(u)) /\ (Len(u) + i) - Len(u) = i
    BY <1>1
  <2>2. QED
    BY <1>1, <1>2, <2>1
<1>5. QED
  BY <1>3, <1>4, ZElementow

LEMMA ZCzolaIReszty ==
  ASSUME NEW S, NEW T, NEW q \in Seq(T), q # <<>>, Head(q) \in S, Tail(q) \in Seq(S)
  PROVE  q \in Seq(S)
<1>1. /\ Len(q) \in Nat \ {0} /\ Head(q) = q[1] /\ Len(Tail(q)) = Len(q) - 1
      /\ \A i \in 1 .. Len(Tail(q)) : Tail(q)[i] = q[i + 1]
  BY Czolo, HeadTailProperties
<1>2. ASSUME NEW i \in 1 .. Len(q) PROVE q[i] \in S
  <2>1. CASE i = 1
    BY <1>1, <2>1
  <2>2. CASE i # 1
    <3>1. i - 1 \in 1 .. Len(Tail(q)) /\ (i - 1) + 1 = i
      BY <1>1, <2>2
    <3>2. Tail(q)[i - 1] \in S /\ Tail(q)[i - 1] = q[i]
      BY <1>1, <3>1, ElementOfSeq
    <3>3. QED
      BY <3>2
  <2>3. QED
    BY <2>1, <2>2
<1>3. QED
  BY <1>2, ZElementow

LEMMA KrokAdresat ==
  ASSUME NEW t \in Ktos
  PROVE  /\ Krok("adresat", t) \in Kroki /\ Krok("adresat", t).rodzaj = "adresat"
         /\ Krok("adresat", t).pid = t /\ KrokiNacisku(t) \subseteq Kroki
BY KrokToKrok DEF Zwykle, KrokiNacisku

(* The step at the front of such a press.                                  *)
LEMMA CzoloNacisku ==
  ASSUME NEW s, NEW a, NEW t \in Ktos, Trafiono(s, a, t)
  PROVE  /\ s # <<>> /\ (Head(s) \in KrokiNacisku(t) \/ Head(s) = Krok("adresat", t))
         /\ Head(s).rodzaj = "adresat" => a = t
<1>1. PICK q \in Seq(KrokiNacisku(t)) : s = q \o <<Krok("adresat", t)>> /\ (a = t \/ q \notin Seq(Ciche))
  BY DEF Trafiono
<1> DEFINE x == Krok("adresat", t)
<1>2. q \in Seq(Kroki) /\ x \in Kroki /\ x.rodzaj = "adresat"
  BY KrokAdresat, Szerszy
<1> HIDE DEF x
<1>3. /\ q \o <<x>> # <<>>
      /\ q = <<>> => q \o <<x>> = <<x>>
      /\ q # <<>> => Head(q \o <<x>>) = Head(q)
  BY <1>2, NaKoncuCiagu
<1>4. CASE q = <<>>
  <2>1. Head(<<x>>) = x /\ <<>> \in Seq(Ciche)
    OBVIOUS
  <2>2. QED
    BY <1>1, <1>3, <1>4, <2>1 DEF x
<1>5. CASE q # <<>>
  <2>1. Head(q) \in KrokiNacisku(t)
    BY <1>5, Czolo
  <2>2. Head(q).rodzaj # "adresat"
    BY <2>1 DEF KrokiNacisku, Grupa
  <2>3. QED
    BY <1>1, <1>3, <1>5, <2>1, <2>2 DEF x
<1>6. QED
  BY <1>4, <1>5

(* Its first step is replaced by steps u, a2 then has the focus.           *)
LEMMA NaciskTrwa ==
  ASSUME NEW s, NEW a, NEW t \in Ktos, Trafiono(s, a, t), Head(s).rodzaj # "adresat",
         NEW u \in Seq(KrokiNacisku(t)), NEW a2, a2 = a \/ a2 = t,
         Head(s).rodzaj \in {"focus", "aktywny"} => a2 = t \/ u \notin Seq(Ciche)
  PROVE  Trafiono(u \o Tail(s), a2, t)
<1> DEFINE K == KrokiNacisku(t)
           x == Krok("adresat", t)
<1>1. PICK q \in Seq(K) : s = q \o <<x>> /\ (a = t \/ q \notin Seq(Ciche))
  BY DEF Trafiono
<1>2. q \in Seq(Kroki) /\ x \in Kroki /\ x.rodzaj = "adresat" /\ u \in Seq(Kroki) /\ K \subseteq Kroki
  BY KrokAdresat, Szerszy
<1> HIDE DEF x, K
<1>3. q # <<>>
  <2>1. SUFFICES ASSUME q = <<>> PROVE FALSE
    OBVIOUS
  <2>2. s = <<x>>
    BY <1>1, <1>2, <2>1, NaKoncuCiagu
  <2>3. Head(<<x>>) = x
    OBVIOUS
  <2>4. QED
    BY <1>2, <2>2, <2>3
<1>4. /\ Head(s) = Head(q) /\ Tail(s) = Tail(q) \o <<x>>
      /\ Head(q) \in Kroki /\ Tail(q) \in Seq(K) /\ Tail(q) \in Seq(Kroki)
  BY <1>1, <1>2, <1>3, NaKoncuCiagu, Czolo
<1> DEFINE w == u \o Tail(q)
<1>5. u \in Seq(K)
  BY DEF K
<1>6. w \in Seq(K)
  BY <1>4, <1>5, ConcatProperties
<1>7. u \o Tail(s) = w \o <<x>>
  <2>1. <<x>> \in Seq(Kroki)
    BY <1>2
  <2>2. (u \o Tail(q)) \o <<x>> = u \o (Tail(q) \o <<x>>)
    BY <1>2, <1>4, <2>1, ConcatAssociative
  <2>3. QED
    BY <1>4, <2>2
<1>8. a2 = t \/ w \notin Seq(Ciche)
  <2>1. SUFFICES ASSUME a2 # t, w \in Seq(Ciche) PROVE FALSE
    OBVIOUS
  <2>2. u \in Seq(Ciche) /\ Tail(q) \in Seq(Ciche)
    BY <1>2, <1>4, <2>1, CzesciCiagu
  <2>3. Head(q) \in Ciche
    BY <1>4, <2>1, <2>2 DEF Ciche
  <2>4. q \in Seq(Ciche)
    BY <1>2, <1>3, <2>2, <2>3, ZCzolaIReszty
  <2>5. QED
    BY <1>1, <2>1, <2>4
<1>9. QED
  BY <1>6, <1>7, <1>8 DEF Trafiono, K, x

(* What may be the next step inside a press.                               *)
LEMMA RodzajWNacisku ==
  ASSUME InwOkien, InwNacisku, usb.faza = "nacisk", NEW r, Teraz(r), r # "trafienie"
  PROVE  \E t \in Ktos : /\ Trafiono(wywolanie, aktywny_pid_gui, t)
                         /\ r \in {"podnies", "z", "focus", "adresat"} \cup Grupa
                         /\ r \in {"focus", "aktywny", "adresat"} => Pid = t
                         /\ r = "adresat" => aktywny_pid_gui = t
<1>1. wywolanie # <<>> /\ Head(wywolanie).rodzaj = r /\ Pid = Head(wywolanie).pid
  BY DEF Teraz, Pid
<1>2. wywolanie # <<Krok("trafienie", Nikt)>>
  <2>1. Head(<<Krok("trafienie", Nikt)>>).rodzaj = "trafienie"
    BY DEF Krok
  <2>2. QED
    BY <1>1, <2>1
<1>3. PICK t \in Ktos : Trafiono(wywolanie, aktywny_pid_gui, t)
  BY <1>2 DEF InwNacisku
<1>4. /\ Head(wywolanie) \in KrokiNacisku(t) \/ Head(wywolanie) = Krok("adresat", t)
      /\ r = "adresat" => aktywny_pid_gui = t
  BY <1>1, <1>3, CzoloNacisku
<1>5. CASE Head(wywolanie) \in KrokiNacisku(t)
  BY <1>1, <1>3, <1>4, <1>5 DEF KrokiNacisku, Grupa
<1>6. CASE Head(wywolanie) = Krok("adresat", t)
  BY <1>1, <1>3, <1>4, <1>6, KrokAdresat
<1>7. QED
  BY <1>4, <1>5, <1>6

LEMMA NaciskDalej ==
  ASSUME InwOkien, InwNacisku, UNCHANGED <<usb, capture_pid_gui>>,
         NEW r, Teraz(r), r \notin {"trafienie", "adresat"},
         NEW u, wywolanie' = u \o Tail(wywolanie),
         \A t \in Ktos : (r \in {"focus", "aktywny"} => Pid = t) =>
           /\ u \in Seq(KrokiNacisku(t)) /\ (aktywny_pid_gui' = aktywny_pid_gui \/ aktywny_pid_gui' = t)
           /\ r \in {"focus", "aktywny"} => aktywny_pid_gui' = t \/ u \notin Seq(Ciche)
  PROVE  InwNacisku'
<1>1. SUFFICES ASSUME usb.faza = "nacisk"
               PROVE  capture_pid_gui = Nikt /\ \E t \in Ktos : Trafiono(wywolanie', aktywny_pid_gui', t)
  BY DEF InwNacisku
<1>2. PICK t \in Ktos : /\ Trafiono(wywolanie, aktywny_pid_gui, t)
                        /\ r \in {"focus", "aktywny"} => Pid = t
  BY <1>1, RodzajWNacisku
<1>3. Head(wywolanie).rodzaj = r
  BY DEF Teraz
<1>4. /\ u \in Seq(KrokiNacisku(t)) /\ (aktywny_pid_gui' = aktywny_pid_gui \/ aktywny_pid_gui' = t)
      /\ r \in {"focus", "aktywny"} => aktywny_pid_gui' = t \/ u \notin Seq(Ciche)
  BY <1>2
<1>5. Trafiono(u \o Tail(wywolanie), aktywny_pid_gui', t)
  BY <1>2, <1>3, <1>4, NaciskTrwa
<1>6. QED
  BY <1>1, <1>5 DEF InwNacisku

(* The change of the focus to t, as steps of a press.                      *)
LEMMA ZmianaWNacisku ==
  ASSUME NEW a \in Ktos, NEW t \in Ktos
  PROVE  PelnaZmiana(a, t) \in Seq(KrokiNacisku(t)) /\ PelnaZmiana(a, t) \notin Seq(Ciche)
<1> DEFINE k == Krok("aktywny", t)
           b == Powiadom("blur", a)
           f == Powiadom("fokus", t)
           K == KrokiNacisku(t)
<1>1. /\ k \in Kroki /\ k.rodzaj = "aktywny" /\ k.pid = t
      /\ Krok("blur", a) \in Kroki /\ Krok("blur", a).rodzaj = "blur"
      /\ Krok("fokus", t) \in Kroki /\ Krok("fokus", t).rodzaj = "fokus"
  BY KrokToKrok DEF Grupa
<1>2. k \in K /\ Krok("blur", a) \in K /\ Krok("fokus", t) \in K /\ k \notin Ciche
  BY <1>1 DEF KrokiNacisku, Ciche, Grupa
<1>3. <<k>> \in Seq(K) /\ b \in Seq(K) /\ f \in Seq(K)
  BY <1>2 DEF Powiadom
<1>4. PelnaZmiana(a, t) = (<<k>> \o b) \o f
  BY DEF PelnaZmiana
<1> HIDE DEF k, b, f, K
<1>5. <<k>> \o b \in Seq(K) /\ (<<k>> \o b) \o f \in Seq(K)
  BY <1>3, ConcatProperties
<1>6. ASSUME (<<k>> \o b) \o f \in Seq(Ciche) PROVE FALSE
  <2>1. <<k>> \o b \in Seq(Ciche)
    BY <1>3, <1>5, <1>6, CzesciCiagu
  <2>2. <<k>> \in Seq(Ciche)
    BY <1>3, <2>1, CzesciCiagu
  <2>3. QED
    BY <1>2, <2>2
<1>7. QED
  BY <1>4, <1>5, <1>6 DEF K

LEMMA WywolanieWNacisku ==
  ASSUME InwOkien, InwNacisku, KrokWywolania
  PROVE  InwNacisku'
<1>0. TypyOkien /\ \A t \in Ktos : <<>> \in Seq(KrokiNacisku(t))
  BY DEF InwOkien
<1>1. CASE ZmienFocus
  <2> DEFINE u == IF Pid = aktywny_pid_gui THEN <<>> ELSE PelnaZmiana(aktywny_pid_gui, Pid)
  <2>1. /\ Teraz("focus") /\ wywolanie' = u \o Tail(wywolanie)
        /\ UNCHANGED <<usb, aktywny_pid_gui, capture_pid_gui>>
    BY <1>1 DEF ZmienFocus, Dalej, PelnaZmiana, adresy, mysz, pid0
  <2>2. ASSUME NEW t \in Ktos, Pid = t
        PROVE  u \in Seq(KrokiNacisku(t)) /\ (aktywny_pid_gui = t \/ u \notin Seq(Ciche))
    BY <1>0, <2>2, ZmianaWNacisku DEF TypyOkien
  <2> HIDE DEF u
  <2>3. QED
    BY <2>1, <2>2, NaciskDalej, "focus" \notin {"trafienie", "adresat"}
<1>2. CASE ZapiszAktywny
  <2>1. /\ Teraz("aktywny") /\ wywolanie' = <<>> \o Tail(wywolanie) /\ aktywny_pid_gui' = Pid
        /\ UNCHANGED <<usb, capture_pid_gui>>
    BY <1>2 DEF ZapiszAktywny, Dalej, mysz, pid0
  <2>2. QED
    BY <1>0, <2>1, NaciskDalej
<1>3. ASSUME NEW r \in {"blur", "fokus", "z"}, Teraz(r), Dalej(<<>>),
             UNCHANGED <<usb, aktywny_pid_gui, capture_pid_gui>>
      PROVE  InwNacisku'
  BY <1>0, <1>3, NaciskDalej DEF Dalej
<1>4. CASE PowiadomBlur \/ PowiadomFocus \/ ZapiszZ
  BY <1>3, <1>4 DEF PowiadomBlur, PowiadomFocus, ZapiszZ, adresy, mysz, pid0
<1>5. CASE ZnajdzNajwyzszeZ
  <2> DEFINE u == IF DoPodniesienia(Pid) THEN <<KrokZ("z", Pid, NajwyzszeZ)>> ELSE <<>>
  <2>1. /\ Teraz("podnies") /\ wywolanie' = u \o Tail(wywolanie)
        /\ UNCHANGED <<usb, aktywny_pid_gui, capture_pid_gui>>
    BY <1>5 DEF ZnajdzNajwyzszeZ, Dalej, adresy, mysz, pid0
  <2>2. ASSUME NEW t \in Ktos PROVE u \in Seq(KrokiNacisku(t))
    <3>1. CASE DoPodniesienia(Pid)
      <4>1. Pid \in Dodatnie /\ Pid \in Ktos
        BY <3>1, PidyToLiczby DEF DoPodniesienia, Dodatnie, Widoczne, pobierz_warstwe, Ktos
      <4>2. NajwyzszeZ \in ZakresZ
        BY <1>0, <4>1, NajwyzszeZJest DEF TypyOkien
      <4>3. "z" \in Pojedyncze \cup Zwykle \cup Grupa
        BY DEF Pojedyncze
      <4>4. KrokZ("z", Pid, NajwyzszeZ) \in Kroki /\ KrokZ("z", Pid, NajwyzszeZ).rodzaj = "z"
        BY ONLY <4>1, <4>2, <4>3, KrokToKrok
      <4>5. KrokZ("z", Pid, NajwyzszeZ) \in KrokiNacisku(t)
        BY <4>4 DEF KrokiNacisku
      <4>6. QED
        BY <3>1, <4>5
    <3>2. CASE ~DoPodniesienia(Pid)
      BY <1>0, <3>2
    <3>3. QED
      BY <3>1, <3>2
  <2> HIDE DEF u
  <2>3. \A t \in Ktos : /\ u \in Seq(KrokiNacisku(t)) /\ aktywny_pid_gui' = aktywny_pid_gui
                        /\ "podnies" \notin {"focus", "aktywny"}
    BY <2>1, <2>2
  <2>4. QED
    BY <2>1, <2>3, NaciskDalej, "podnies" \notin {"trafienie", "adresat"}
<1>6. ASSUME NEW r \in {"nastepca", "publikuj", "przejmij", "porzuc", "stan", "mysz"}, Teraz(r), usb' = usb
      PROVE  InwNacisku'
  <2>1. usb.faza # "nacisk"
    BY <1>6, RodzajWNacisku DEF Grupa
  <2>2. QED
    BY <1>6, <2>1 DEF InwNacisku
<1>7. CASE \/ ZnajdzNastepce \/ Publikuj \/ Przejmij \/ Porzuc
           \/ bws_gui_usun_stan_procesu \/ bws_gui_zwolnij_mysz_procesu
  BY <1>6, <1>7 DEF ZnajdzNastepce, Publikuj, Przejmij, Porzuc, bws_gui_usun_stan_procesu,
                    bws_gui_zwolnij_mysz_procesu, mysz, pid0
<1>8. QED
  BY <1>1, <1>2, <1>4, <1>5, <1>7 DEF KrokWywolania

LEMMA TrafienieWNacisku ==
  ASSUME InwOkien, InwNacisku, NEW punkt, Trafienie(punkt)
  PROVE  wywolanie = <<Krok("trafienie", Nikt)>> /\ InwNacisku'
<1> DEFINE b == znajdz_warstwe_pod_punktem(punkt)
           h == Krok("trafienie", Nikt)
           k == Krok("podnies", b)
           m == Krok("focus", b)
           x == Krok("adresat", b)
<1>1. /\ usb.faza = "nacisk" /\ Teraz("trafienie") /\ wywolanie' = <<k, m, x>> \o Tail(wywolanie)
      /\ UNCHANGED <<usb, capture_pid_gui>>
  BY DEF Trafienie, WNacisku, Dalej, adresy, pid0
<1>2. b \in Ktos
  BY CoTrafiono
<1> HIDE DEF b
<1>3. wywolanie = <<h>>
  <2>1. ASSUME NEW t \in Ktos, Trafiono(wywolanie, aktywny_pid_gui, t) PROVE FALSE
    BY <1>1, <2>1, CzoloNacisku, KrokAdresat DEF Teraz, KrokiNacisku, Grupa
  <2>2. QED
    BY <1>1, <2>1 DEF InwNacisku
<1>4. /\ k \in Kroki /\ k.rodzaj = "podnies" /\ m \in Kroki /\ m.rodzaj = "focus" /\ m.pid = b
      /\ x \in Kroki /\ h \in Kroki
  BY <1>2, KrokToKrok DEF Zwykle, Pojedyncze, Ktos
<1>5. k \in KrokiNacisku(b) /\ m \in KrokiNacisku(b) /\ m \notin Ciche
  BY <1>4 DEF KrokiNacisku, Ciche
<1> HIDE DEF k, m, x, h
<1>6. <<k, m>> \in Seq(KrokiNacisku(b)) /\ <<k, m>> \notin Seq(Ciche)
  <2>1. ASSUME <<k, m>> \in Seq(Ciche) PROVE FALSE
    <3>1. <<k, m>>[2] \in Ciche
      BY <2>1, Len(<<k, m>>) = 2, 2 \in 1 .. 2, ElementOfSeq
    <3>2. QED
      BY <1>5, <3>1
  <2>2. QED
    BY <1>5, <2>1
<1>7. wywolanie' = <<k, m>> \o <<x>>
  <2>1. /\ Tail(<<h>>) = <<>>
        /\ <<k, m, x>> \in Seq(Kroki)
        /\ <<k, m>> \o <<x>> = <<k, m, x>>
    <3>1. Tail(<<h>>) = <<>>
      OBVIOUS
    <3>2. <<k, m, x>> \in Seq(Kroki)
      BY <1>4
    <3>3. <<k, m>> \o <<x>> = <<k, m, x>>
      BY <1>4, TrzyNaKoncu
    <3>4. QED
      BY <3>1, <3>2, <3>3
  <2>2. <<k, m, x>> \o <<>> = <<k, m, x>>
    BY <2>1, ConcatEmptySeq
  <2>3. QED
    BY <1>1, <1>3, <2>1, <2>2
<1>8. Trafiono(wywolanie', aktywny_pid_gui', b)
  BY <1>6, <1>7 DEF Trafiono, x
<1>9. QED
  BY <1>1, <1>2, <1>3, <1>8 DEF InwNacisku, h

(* A call begins only outside a press.                                     *)
LEMMA PozaNaciskiem ==
  ASSUME InwNacisku, wywolanie = <<>>
  PROVE  usb.faza # "nacisk"
<1>1. <<Krok("trafienie", Nikt)>> # <<>>
  OBVIOUS
<1>2. ASSUME NEW t \in Ktos, Trafiono(wywolanie, aktywny_pid_gui, t) PROVE FALSE
  BY <1>2, CzoloNacisku
<1>3. QED
  BY <1>1, <1>2 DEF InwNacisku

LEMMA NaciskKrok ==
  ASSUME InwOkien, InwNacisku, odlozone = <<>>, ~wyjatek', [OknaNext]_okienka
  PROVE  InwNacisku'
<1>1. ASSUME wywolanie = <<>>, usb' = usb PROVE InwNacisku'
  BY <1>1, PozaNaciskiem DEF InwNacisku
<1>2. ASSUME NEW p \in PidyOkien, NEW z \in PoczatkoweZ[p], bws_utworz_warstwe(p, z) PROVE InwNacisku'
  BY <1>1, <1>2 DEF bws_utworz_warstwe, Wywolaj, mysz, pid0
<1>3. ASSUME NEW p \in PidyOkien, NEW stan \in BOOLEAN, bws_gui_ustaw_przejecie_myszy(p, stan)
      PROVE  InwNacisku'
  BY <1>1, <1>3 DEF bws_gui_ustaw_przejecie_myszy, Wywolaj, pid0
<1>4. ASSUME NEW p \in PidyOkien, \/ bws_gui_ustaw_capture(p) \/ ZwolnijCapture(p)
                                  \/ bws_gui_minimalizuj_warstwe(p) \/ bws_gui_aktywuj_okno(p)
                                  \/ bws_zakoncz_biezacy_proces(p)
      PROVE  InwNacisku'
  BY <1>1, <1>4 DEF bws_gui_ustaw_capture, ZwolnijCapture, bws_gui_minimalizuj_warstwe,
                    bws_gui_aktywuj_okno, bws_zakoncz_biezacy_proces, Wywolaj, mysz, pid0
<1>5. ASSUME NEW otwarty \in BOOLEAN, skladacz_obrazu_ustaw_overlay(otwarty) PROVE InwNacisku'
  BY <1>1, <1>5 DEF skladacz_obrazu_ustaw_overlay, Wywolaj, mysz, pid0
<1>6. CASE KrokWywolania
  BY <1>6, WywolanieWNacisku
<1>7. ASSUME UNCHANGED <<usb, wywolanie, aktywny_pid_gui>>, capture_pid_gui' \in {Nikt, capture_pid_gui}
      PROVE  InwNacisku'
  BY <1>7 DEF InwNacisku
<1>8. CASE MyszPowloki
  BY <1>7, <1>8 DEF MyszPowloki, adresy, pid0
<1>9. ASSUME NEW przyciski, Puszczenie(przyciski) PROVE InwNacisku'
  BY <1>7, <1>9 DEF Puszczenie, pid0
<1>10. ASSUME NEW przyciski, NEW punkt, Nacisniecie(przyciski, punkt) PROVE InwNacisku'
  BY <1>10 DEF Nacisniecie, InwNacisku, pid0
<1>11. ASSUME UsbNapraw \/ UsbWlasciciel \/ UsbPusc \/ UsbZapisz \/ Adresat
              \/ \E przyciski \in SUBSET Przyciski : UsbPrzyciski(przyciski)
       PROVE  InwNacisku'
  <2>1. usb'.faza # "nacisk"
    BY <1>11 DEF UsbNapraw, UsbWlasciciel, UsbPusc, UsbZapisz, UsbPrzyciski, Adresat, PoCelu,
                 Raport, BezRaportu
  <2>2. QED
    BY <2>1 DEF InwNacisku
<1>12. CASE UsbNacisniecie
  BY <1>12 DEF UsbNacisniecie, CaptureNacisniecia, InwNacisku
<1>13. ASSUME NEW punkt, Trafienie(punkt) PROVE InwNacisku'
  BY <1>13, TrafienieWNacisku
<1>14. CASE Wywlaszcz \/ Wznow
  BY <1>14 DEF Wywlaszcz, Wznow
<1>15. CASE UNCHANGED okienka
  BY <1>7, <1>15 DEF okienka, adresy, mysz, pid0
<1>16. QED
  BY <1>2, <1>3, <1>4, <1>5, <1>6, <1>8, <1>9, <1>10, <1>11, <1>12, <1>13, <1>14, <1>15
     DEF OknaNext, WywolaniaOkien, MyszPs2, MyszUsb

-----------------------------------------------------------------------------
LEMMA OknaPoczatek == OknaInit => InwOkien
<1> SUFFICES ASSUME OknaInit PROVE InwOkien
  OBVIOUS
<1>1. TypyOkien
  BY Zakres DEF OknaInit, TypyOkien, Ktos
<1>2. Wywolania
  <2>1. Powiadomiony(widok, Nikt, naruszony)
    BY PidyToLiczby DEF OknaInit, Powiadomiony
  <2>2. QED
    BY <2>1, Pusta DEF OknaInit, Wywolania, Poprawne
<1>3. Adresaci
  BY DEF OknaInit, Adresaci, Obecni
<1>4. Kolejnosc
  <2>1. Widoczne = {}
    BY DEF OknaInit, Widoczne, pobierz_warstwe
  <2>2. QED
    BY <2>1 DEF OknaInit, Kolejnosc, WKolejnosci, Uporzadkowane
<1>5. QED
  BY <1>1, <1>2, <1>3, <1>4 DEF OknaInit, InwOkien

LEMMA OknaKrok ==
  ASSUME InwOkien, InwNacisku, odlozone = <<>>, ~wyjatek', [OknaNext]_okienka
  PROVE  InwOkien'
<1>1. ASSUME NEW p \in PidyOkien, NEW z \in PoczatkoweZ[p], bws_utworz_warstwe(p, z) PROVE InwOkien'
  BY <1>1, UtworzInw
<1>2. ASSUME NEW p \in PidyOkien, NEW stan \in BOOLEAN, bws_gui_ustaw_przejecie_myszy(p, stan)
      PROVE  InwOkien'
  BY <1>2, PrzejecieInw
<1>3. ASSUME NEW p \in PidyOkien, bws_gui_ustaw_capture(p) \/ ZwolnijCapture(p) PROVE InwOkien'
  BY <1>3, UstawCaptureInw, ZwolnijCaptureInw
<1>4. ASSUME NEW p \in PidyOkien, bws_gui_minimalizuj_warstwe(p) \/ bws_gui_aktywuj_okno(p)
                                  \/ bws_zakoncz_biezacy_proces(p)
      PROVE  InwOkien'
  BY <1>4, MinimalizujInw, AktywujInw, ZakonczInw
<1>5. ASSUME NEW otwarty \in BOOLEAN, skladacz_obrazu_ustaw_overlay(otwarty) PROVE InwOkien'
  BY <1>5, OverlayInw
<1>6. CASE KrokWywolania
  BY <1>6, ZmienFocusInw, ZapiszAktywnyInw, PowiadomBlurInw, PowiadomFocusInw,
     ZnajdzNajwyzszeZInw, ZapiszZInw, ZnajdzNastepceInw, PublikujInw, PrzejmijInw, PorzucInw,
     UsunStanInw, ZwolnijMyszInw DEF KrokWywolania
<1>7. CASE MyszPowloki
  BY <1>7, MyszPowlokiInw
<1>8. ASSUME NEW przyciski \in SUBSET Przyciski, NEW punkt \in Punkty, Nacisniecie(przyciski, punkt)
      PROVE  InwOkien'
  BY <1>8, NacisniecieInw
<1>9. ASSUME NEW przyciski \in SUBSET Przyciski, Puszczenie(przyciski) PROVE InwOkien'
  BY <1>9, PuszczenieInw
<1>10. CASE UNCHANGED okienka
  <2>1. /\ UNCHANGED <<stan_warstwy, z_order, podniesienia, naruszony, chybiony>>
        /\ UNCHANGED <<aktywny_pid_gui, capture_pid_gui, system_overlay, widok, wywolanie>>
    BY <1>10 DEF okienka, warstwy, adresy, mysz
  <2>2. QED
    BY <2>1, BezWarstw DEF InwOkien, TypyOkien, Wywolania, Adresaci, Kolejnosc
<1>11. CASE \/ UsbNapraw \/ UsbWlasciciel \/ UsbPusc \/ UsbZapisz
            \/ \E przyciski \in SUBSET Przyciski : UsbPrzyciski(przyciski)
  BY <1>11, UsbBezNaciskuInw
<1>12. CASE UsbNacisniecie
  BY <1>12, UsbNacisniecieInw
<1>13. ASSUME NEW punkt \in Punkty, Trafienie(punkt) PROVE InwOkien'
  BY <1>13, TrafienieInw, TrafienieWNacisku
<1>14. CASE Adresat
  <2>1. usb.faza = "nacisk" /\ Teraz("adresat")
    BY <1>14 DEF Adresat, WNacisku
  <2>2. Pid = aktywny_pid_gui /\ capture_pid_gui = Nikt
    BY <2>1, RodzajWNacisku, "adresat" # "trafienie" DEF InwNacisku
  <2>3. QED
    BY <1>14, <2>2, AdresatInw DEF Cel
<1>15. CASE Wywlaszcz \/ Wznow
  BY <1>15 DEF Wywlaszcz, Wznow
<1>16. QED
  BY <1>1, <1>2, <1>3, <1>4, <1>5, <1>6, <1>7, <1>8, <1>9, <1>10, <1>11, <1>12, <1>13, <1>14, <1>15
     DEF OknaNext, WywolaniaOkien, MyszPs2, MyszUsb

(* What a step does to the ghosts of the exceptions: an exception stays,   *)
(* no press is judged after it, and only with it PID 0 is put aside inside *)
(* a press.                                                                *)
LEMMA WyjatekZostaje ==
  ASSUME [OknaNext]_okienka, odlozone # <<>> => wyjatek
  PROVE  /\ wyjatek => wyjatek'
         /\ odlozone' # <<>> => wyjatek'
         /\ ~chybiony /\ wyjatek' => ~chybiony'
<1> USE DEF warstwy, adresy, mysz, pid0
<1>1. ASSUME UNCHANGED <<chybiony, wyjatek, odlozone>>
      PROVE  /\ wyjatek => wyjatek'
             /\ odlozone' # <<>> => wyjatek'
             /\ ~chybiony /\ wyjatek' => ~chybiony'
  BY <1>1
<1>2. CASE KrokWywolania
  <2>1. UNCHANGED <<chybiony, wyjatek, odlozone>>
    BY <1>2 DEF KrokWywolania, ZmienFocus, ZapiszAktywny, PowiadomBlur, PowiadomFocus,
                ZnajdzNajwyzszeZ, ZapiszZ, ZnajdzNastepce, Publikuj, Przejmij, Porzuc,
                bws_gui_usun_stan_procesu, bws_gui_zwolnij_mysz_procesu
  <2>2. QED
    BY <1>1, <2>1
<1>3. ASSUME NEW p \in PidyOkien, NEW z \in PoczatkoweZ[p], bws_utworz_warstwe(p, z)
      PROVE  UNCHANGED <<chybiony, wyjatek, odlozone>>
  BY <1>3 DEF bws_utworz_warstwe
<1>4. ASSUME NEW p \in PidyOkien, NEW stan \in BOOLEAN, bws_gui_ustaw_przejecie_myszy(p, stan)
      PROVE  UNCHANGED <<chybiony, wyjatek, odlozone>>
  BY <1>4 DEF bws_gui_ustaw_przejecie_myszy
<1>5. ASSUME NEW p \in PidyOkien, \/ bws_gui_ustaw_capture(p) \/ ZwolnijCapture(p)
                                  \/ bws_gui_aktywuj_okno(p) \/ bws_zakoncz_biezacy_proces(p)
      PROVE  UNCHANGED <<chybiony, wyjatek, odlozone>>
  BY <1>5 DEF bws_gui_ustaw_capture, ZwolnijCapture, bws_gui_aktywuj_okno, bws_zakoncz_biezacy_proces
<1>6. ASSUME NEW p \in PidyOkien, bws_gui_minimalizuj_warstwe(p)
      PROVE  UNCHANGED <<chybiony, odlozone>> /\ (wyjatek => wyjatek')
  BY <1>6 DEF bws_gui_minimalizuj_warstwe
<1>7. ASSUME NEW otwarty \in BOOLEAN, skladacz_obrazu_ustaw_overlay(otwarty)
      PROVE  UNCHANGED <<chybiony, wyjatek, odlozone>>
  BY <1>7 DEF skladacz_obrazu_ustaw_overlay
<1>8. ASSUME NEW przyciski, MyszPowloki \/ Puszczenie(przyciski)
      PROVE  UNCHANGED <<chybiony, wyjatek, odlozone>>
  BY <1>8 DEF MyszPowloki, Puszczenie
<1>9. ASSUME NEW przyciski, NEW punkt, Nacisniecie(przyciski, punkt)
      PROVE  /\ odlozone' = odlozone /\ (wyjatek => wyjatek')
             /\ ~chybiony /\ wyjatek' => ~chybiony'
  BY <1>9 DEF Nacisniecie
<1>10. CASE \/ UsbNapraw \/ UsbWlasciciel \/ UsbNacisniecie \/ UsbPusc \/ UsbZapisz
            \/ \E przyciski \in SUBSET Przyciski : UsbPrzyciski(przyciski)
  <2>1. UNCHANGED <<chybiony, wyjatek, odlozone>>
    BY <1>10 DEF UsbNapraw, UsbWlasciciel, UsbPrzyciski, UsbNacisniecie, UsbPusc, UsbZapisz
  <2>2. QED
    BY <1>1, <2>1
<1>11. ASSUME NEW punkt, Trafienie(punkt) \/ Adresat
       PROVE  /\ UNCHANGED <<wyjatek, odlozone>>
              /\ ~chybiony /\ wyjatek' => ~chybiony'
  <2>1. CASE Trafienie(punkt)
    <3>1. /\ UNCHANGED <<wyjatek, odlozone>>
          /\ chybiony' = (\/ chybiony
                          \/ /\ ~naruszony /\ ~wyjatek
                             /\ znajdz_warstwe_pod_punktem(punkt) # NaWierzchu(punkt))
      BY <2>1 DEF Trafienie
    <3>2. QED
      BY <3>1
  <2>2. CASE Adresat
    BY <2>2 DEF Adresat
  <2>3. QED
    BY <1>11, <2>1, <2>2
<1>12. CASE Wywlaszcz \/ Wznow
  BY <1>12 DEF Wywlaszcz, Wznow
<1>13. CASE UNCHANGED okienka
  BY <1>1, <1>13 DEF okienka
<1>14. QED
  BY <1>1, <1>2, <1>3, <1>4, <1>5, <1>6, <1>7, <1>8, <1>9, <1>10, <1>11, <1>12, <1>13
     DEF OknaNext, WywolaniaOkien, MyszPs2, MyszUsb

(* The invariant: up to the first exception, that of the windows and of    *)
(* the press under way; and ever after it, what was found up to it.        *)
InwRazem ==
  /\ ~chybiony
  /\ odlozone # <<>> => wyjatek
  /\ wyjatek \/ (InwOkien /\ InwNacisku)

LEMMA InwRazemZawsze == OknaSpec => []InwRazem
<1>1. OknaInit => InwRazem
  <2>1. OknaInit => InwNacisku /\ ~chybiony /\ odlozone = <<>>
    BY DEF OknaInit, InwNacisku, BezRaportu, Raport
  <2>2. QED
    BY <2>1, OknaPoczatek DEF InwRazem
<1>2. ASSUME InwRazem, [OknaNext]_okienka PROVE InwRazem'
  <2>1. /\ wyjatek => wyjatek'
        /\ odlozone' # <<>> => wyjatek'
        /\ ~chybiony /\ wyjatek' => ~chybiony'
    BY <1>2, WyjatekZostaje DEF InwRazem
  <2>2. CASE wyjatek'
    BY <1>2, <2>1, <2>2 DEF InwRazem
  <2>3. CASE ~wyjatek'
    <3>1. InwOkien /\ InwNacisku /\ odlozone = <<>>
      BY <1>2, <2>1, <2>3 DEF InwRazem
    <3>2. InwOkien' /\ InwNacisku'
      BY <1>2, <2>3, <3>1, OknaKrok, NaciskKrok
    <3>3. ~chybiony'
      BY <3>2 DEF InwOkien
    <3>4. QED
      BY <2>1, <3>2, <3>3 DEF InwRazem
  <2>4. QED
    BY <2>2, <2>3
<1>3. QED
  BY <1>1, <1>2, PTL DEF OknaSpec

(* Whenever no call and no press of a USB mouse is under way, the focus    *)
(* and the capture are with processes that have a visible layer, and the   *)
(* one with the focus is the one that was last told FOCUS, unless a press  *)
(* came inside a change of the focus (ustaw_focus_gui,                     *)
(* bws_gui_usun_stan_procesu).  A report of a USB mouse may stop before    *)
(* and behind its press for any calls; the theorem ends where PID 0 is     *)
(* preempted inside the press (xhci.cpp 475), and where the owner of an    *)
(* open overlay hides its layer.                                           *)
THEOREM AdresatZawszeZgodny == OknaSpec => []AdresatZgodny
<1>1. InwRazem => AdresatZgodny
  <2>1. SUFFICES ASSUME InwOkien, wywolanie = <<>>
                 PROVE  /\ {aktywny_pid_gui, capture_pid_gui} \subseteq Widoczne \cup {Nikt}
                        /\ ~naruszony => \A p \in PidyOkien : widok[p] <=> p = aktywny_pid_gui
    BY DEF AdresatZgodny, InwRazem
  <2>2. QED
    BY <2>1, WSpoczynku DEF Powiadomiony
<1>2. QED
  BY <1>1, InwRazemZawsze, PTL

(* A press at rest goes to the layer that was raised last of those under   *)
(* the pointer, however often z_orders were numbered anew                  *)
(* (znajdz_warstwe_pod_punktem, skladacz_obrazu_podnies_warstwe), with     *)
(* the exceptions of the theorem above.  The press of a USB mouse takes    *)
(* several steps: its event goes to the process the hit test found, since  *)
(* in them the focus comes to that process and no capture begins.          *)
THEOREM NacisniecieZawszeTrafia == OknaSpec => []NacisniecieTrafia
<1>1. InwRazem => NacisniecieTrafia
  BY DEF InwRazem, NacisniecieTrafia
<1>2. QED
  BY <1>1, InwRazemZawsze, PTL

=============================================================================
