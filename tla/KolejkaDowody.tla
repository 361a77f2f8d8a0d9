---------------------------- MODULE KolejkaDowody ----------------------------
(***************************************************************************)
(* Proofs about the event queue of a process, for a ring of any size.      *)
(*                                                                         *)
(* The ring is read as the sequence Zawartosc, and every step is shown to  *)
(* do one of five things to that sequence (lemma KrokKolejki); the three   *)
(* theorems then speak of sequences and no longer of indexes.              *)
(***************************************************************************)
EXTENDS KolejkaZdarzen, Lematy, SequenceTheorems, TLAPS

-----------------------------------------------------------------------------
(* What Max and Min of FiniteSetsExt choose.                               *)

LEMMA MaxJest ==
  ASSUME NEW n \in Nat, NEW T, T \subseteq 0 .. n, T # {}
  PROVE  Max(T) \in T /\ \A y \in T : Max(T) >= y
BY JestNajwieksza DEF Max

LEMMA MinJest ==
  ASSUME NEW T, T \subseteq Nat, T # {}
  PROVE  Min(T) \in T /\ \A y \in T : Min(T) <= y
BY JestNajmniejsza DEF Min

-----------------------------------------------------------------------------
(* TrwaleDo(s) is the function its recursive definition describes.  Where  *)
(* induction is called for, the smallest counterexample is refuted.        *)

Dalej(s, n, q) == IF Trwale(s[n]) THEN Append(q, s[n]) ELSE q

Przebieg(s, n, g) ==
  /\ g[0] = <<>>
  /\ \A i \in 1 .. n : g[i] = Dalej(s, i, g[i - 1])

LEMMA PrzebiegIstnieje == ASSUME NEW s, NEW n \in Nat PROVE \E g : Przebieg(s, n, g)
<1> DEFINE Zle == { m \in Nat : ~ \E g : Przebieg(s, m, g) }
<1> SUFFICES ASSUME Zle # {} PROVE FALSE
  OBVIOUS
<1>1. PICK m \in Zle : \A k \in Zle : m <= k
  <2>1. Zle \subseteq Nat
    OBVIOUS
  <2> HIDE DEF Zle
  <2>2. QED
    BY <2>1, JestNajmniejsza
<1>2. m \in Nat /\ ~ \E g : Przebieg(s, m, g)
  OBVIOUS
<1>3. CASE m = 0
  <2>1. Przebieg(s, m, [i \in {0} |-> <<>>])
    BY <1>3 DEF Przebieg
  <2>2. QED
    BY <1>2, <2>1
<1>4. CASE m # 0
  <2>1. m - 1 \in Nat /\ ~ (m <= m - 1)
    BY <1>2, <1>4
  <2>2. PICK h : Przebieg(s, m - 1, h)
    BY <1>1, <2>1
  <2> DEFINE g == [i \in 0 .. m |-> IF i < m THEN h[i] ELSE Dalej(s, m, h[m - 1])]
  <2>3. g[0] = <<>>
    BY <1>2, <1>4, <2>2 DEF Przebieg
  <2>4. ASSUME NEW i \in 1 .. m PROVE g[i] = Dalej(s, i, g[i - 1])
    <3>1. g[i - 1] = h[i - 1]
      BY <1>2
    <3>2. CASE i = m
      <4>1. g[i] = Dalej(s, m, h[m - 1])
        BY <1>2, <3>2
      <4>2. QED
        BY <3>1, <3>2, <4>1
    <3>3. CASE i # m
      <4>1. i \in 1 .. m - 1 /\ g[i] = h[i]
        BY <1>2, <3>3
      <4>2. h[i] = Dalej(s, i, h[i - 1])
        BY <2>2, <4>1 DEF Przebieg
      <4>3. QED
        BY <3>1, <4>1, <4>2
    <3>4. QED
      BY <3>2, <3>3
  <2> HIDE DEF g
  <2>5. Przebieg(s, m, g)
    BY <2>3, <2>4 DEF Przebieg
  <2>6. QED
    BY <1>2, <2>5
<1>5. QED
  BY <1>3, <1>4

LEMMA PrzebiegJedyny ==
  ASSUME NEW s, NEW n \in Nat, NEW m \in Nat, m <= n, NEW g, NEW h,
         Przebieg(s, n, g), Przebieg(s, m, h)
  PROVE  g[m] = h[m]
<1> DEFINE Zle == { i \in 0 .. m : g[i] # h[i] }
<1> SUFFICES ASSUME Zle # {} PROVE FALSE
  OBVIOUS
<1>1. PICK i \in Zle : \A k \in Zle : i <= k
  <2>1. Zle \subseteq Nat
    OBVIOUS
  <2> HIDE DEF Zle
  <2>2. QED
    BY <2>1, JestNajmniejsza
<1>2. i \in 0 .. m /\ g[i] # h[i]
  OBVIOUS
<1>3. i # 0
  BY <1>2 DEF Przebieg
<1>4. i \in 1 .. m /\ i \in 1 .. n /\ i - 1 \in 0 .. m
  BY <1>2, <1>3
<1>5. g[i - 1] = h[i - 1]
  <2>1. i - 1 \notin Zle
    BY <1>1, <1>4
  <2>2. QED
    BY <1>4, <2>1
<1>6. g[i] = Dalej(s, i, g[i - 1]) /\ h[i] = Dalej(s, i, h[i - 1])
  BY <1>4 DEF Przebieg
<1>7. QED
  BY <1>2, <1>5, <1>6

LEMMA CoZostaje ==
  ASSUME NEW s
  PROVE  /\ TrwaleDo(s)[0] = <<>>
         /\ \A n \in Nat \ {0} : TrwaleDo(s)[n] = Dalej(s, n, TrwaleDo(s)[n - 1])
<1> DEFINE G(n) == CHOOSE g : Przebieg(s, n, g)
           f == [n \in Nat |-> G(n)[n]]
           D(T) == [n \in Nat |-> IF n = 0 THEN <<>>
                                  ELSE IF Trwale(s[n]) THEN Append(T[n - 1], s[n]) ELSE T[n - 1]]
<1>1. \A n \in Nat : Przebieg(s, n, G(n))
  BY PrzebiegIstnieje
<1> HIDE DEF G
<1>2. f[0] = <<>>
  BY <1>1 DEF Przebieg
<1>3. ASSUME NEW n \in Nat, n # 0 PROVE f[n] = Dalej(s, n, f[n - 1])
  <2>1. n - 1 \in Nat /\ n \in 1 .. n /\ n - 1 <= n
    BY <1>3
  <2>2. G(n)[n] = Dalej(s, n, G(n)[n - 1])
    BY <1>1, <2>1 DEF Przebieg
  <2>3. G(n)[n - 1] = G(n - 1)[n - 1]
    BY <1>1, <2>1, PrzebiegJedyny
  <2>4. QED
    BY <2>1, <2>2, <2>3
<1>4. f = D(f)
  <2>1. \A n \in Nat : f[n] = D(f)[n]
    <3> SUFFICES ASSUME NEW n \in Nat PROVE f[n] = D(f)[n]
      OBVIOUS
    <3>1. D(f)[n] = IF n = 0 THEN <<>> ELSE Dalej(s, n, f[n - 1])
      BY DEF Dalej
    <3>2. QED
      BY <1>2, <1>3, <3>1
  <2>2. QED
    BY <2>1
<1> HIDE DEF f
<1> DEFINE T == TrwaleDo(s)
<1>5. T = D(T)
  <2>1. T = CHOOSE g : g = D(g)
    BY DEF TrwaleDo
  <2> HIDE DEF T, D
  <2>2. QED
    BY <1>4, <2>1
<1>6. T[0] = <<>>
  <2>1. D(T)[0] = <<>>
    OBVIOUS
  <2> HIDE DEF D, T
  <2>2. QED
    BY <1>5, <2>1
<1>7. ASSUME NEW n \in Nat \ {0} PROVE T[n] = Dalej(s, n, T[n - 1])
  <2>1. D(T)[n] = Dalej(s, n, T[n - 1])
    BY DEF Dalej
  <2> HIDE DEF D, T
  <2>2. QED
    BY <1>5, <2>1
<1>8. QED
  BY <1>6, <1>7

LEMMA TypTrwalych ==
  ASSUME NEW W, NEW s \in Seq(W), NEW n \in 0 .. Len(s)
  PROVE  TrwaleDo(s)[n] \in Seq(W) /\ Len(TrwaleDo(s)[n]) <= n
<1> DEFINE P(i) == TrwaleDo(s)[i] \in Seq(W) /\ Len(TrwaleDo(s)[i]) <= i
           Zle == { i \in 0 .. Len(s) : ~ P(i) }
<1> SUFFICES ASSUME Zle # {} PROVE FALSE
  OBVIOUS
<1>1. PICK i \in Zle : \A k \in Zle : i <= k
  <2>1. Zle \subseteq Nat
    OBVIOUS
  <2> HIDE DEF Zle
  <2>2. QED
    BY <2>1, JestNajmniejsza
<1>2. i \in 0 .. Len(s) /\ ~ P(i)
  OBVIOUS
<1>3. P(0)
  <2>1. TrwaleDo(s)[0] = <<>>
    BY CoZostaje
  <2>2. <<>> \in Seq(W) /\ Len(<<>>) = 0
    BY EmptySeq
  <2>3. QED
    BY <2>1, <2>2
<1>4. i \in Nat \ {0} /\ i - 1 \in 0 .. Len(s) /\ i \in 1 .. Len(s)
  BY <1>2, <1>3
<1>5. P(i - 1)
  BY <1>1, <1>4
<1>6. TrwaleDo(s)[i] = Dalej(s, i, TrwaleDo(s)[i - 1])
  BY <1>4, CoZostaje
<1>7. s[i] \in W
  BY <1>4
<1>8. P(i)
  <2> DEFINE q == TrwaleDo(s)[i - 1]
  <2>1. q \in Seq(W) /\ Len(q) <= i - 1
    BY <1>5
  <2> HIDE DEF q
  <2>2. Append(q, s[i]) \in Seq(W) /\ Len(Append(q, s[i])) = Len(q) + 1
    BY <1>7, <2>1
  <2>3. CASE Trwale(s[i])
    <3>1. TrwaleDo(s)[i] = Append(q, s[i])
      BY <1>6, <2>3 DEF Dalej, q
    <3>2. QED
      BY <1>4, <2>1, <2>2, <3>1
  <2>4. CASE ~ Trwale(s[i])
    <3>1. TrwaleDo(s)[i] = q
      BY <1>6, <2>4 DEF Dalej, q
    <3>2. QED
      BY <1>4, <2>1, <3>1
  <2>5. QED
    BY <2>3, <2>4
<1>9. QED
  BY <1>2, <1>8

Zlacz(p, q) == p \o q

LEMMA DopisaniePoZlaczeniu ==
  ASSUME NEW W, NEW p \in Seq(W), NEW q \in Seq(W), NEW x \in W
  PROVE  Append(Zlacz(p, q), x) = Zlacz(p, Append(q, x))
<1> DEFINE u == Append(Zlacz(p, q), x)
           v == Zlacz(p, Append(q, x))
<1>1. Zlacz(p, q) \in Seq(W) /\ Append(q, x) \in Seq(W)
  BY ConcatProperties, AppendProperties DEF Zlacz
<1>2. u \in Seq(W) /\ v \in Seq(W)
  BY <1>1, ConcatProperties, AppendProperties DEF Zlacz
<1>3. Len(u) = Len(p) + Len(q) + 1 /\ Len(v) = Len(p) + Len(q) + 1
  BY DEF Zlacz
<1>4. ASSUME NEW i \in 1 .. Len(u) PROVE u[i] = v[i]
  BY DEF Zlacz
<1> HIDE DEF u, v
<1>5. QED
  BY <1>2, <1>3, <1>4, SeqEqual DEF u, v

(* Two sequences that go on alike keep alike what is left of them.         *)
Zgodne(x, y) == x = y \/ (~ Trwale(x) /\ ~ Trwale(y))

Rownolegle(s, a, t, b, m) ==
  /\ a + m <= Len(s) /\ b + m <= Len(t)
  /\ \A i \in 1 .. m : Zgodne(s[a + i], t[b + i])

LEMMA Przedluzenie ==
  ASSUME NEW W, NEW s \in Seq(W), NEW t \in Seq(W), NEW p \in Seq(W), NEW m \in Nat,
         NEW a \in Nat, NEW b \in Nat, Rownolegle(s, a, t, b, m),
         TrwaleDo(s)[a] = Zlacz(p, TrwaleDo(t)[b])
  PROVE  TrwaleDo(s)[a + m] = Zlacz(p, TrwaleDo(t)[b + m])
<1> DEFINE P(i) == TrwaleDo(s)[a + i] = Zlacz(p, TrwaleDo(t)[b + i])
           Zle == { i \in 0 .. m : ~ P(i) }
<1> SUFFICES ASSUME ~ P(m) PROVE FALSE
  OBVIOUS
<1>0. P(0)
  <2>1. a + 0 = a /\ b + 0 = b
    OBVIOUS
  <2>2. QED
    BY <2>1
<1> HIDE DEF P
<1>1. PICK i \in Zle : \A k \in Zle : i <= k
  <2>1. Zle \subseteq Nat /\ m \in Zle
    OBVIOUS
  <2> HIDE DEF Zle
  <2>2. QED
    BY <2>1, JestNajmniejsza
<1>2. i \in 0 .. m /\ ~ P(i)
  OBVIOUS
<1>3. i # 0
  BY <1>0, <1>2
<1>4. /\ i - 1 \in 0 .. m /\ i \in 1 .. m
      /\ a + i \in Nat \ {0} /\ (a + i) - 1 = a + (i - 1)
      /\ b + i \in Nat \ {0} /\ (b + i) - 1 = b + (i - 1)
      /\ b + (i - 1) \in 0 .. Len(t) /\ a + i \in 1 .. Len(s) /\ b + i \in 1 .. Len(t)
  BY <1>2, <1>3 DEF Rownolegle
<1>5. P(i - 1)
  <2>1. i - 1 \notin Zle
    BY <1>1, <1>4
  <2>2. QED
    BY <1>4, <2>1
<1> DEFINE q == TrwaleDo(t)[b + (i - 1)]
<1>6. q \in Seq(W)
  BY <1>4, TypTrwalych
<1>7. /\ TrwaleDo(s)[a + i] = Dalej(s, a + i, Zlacz(p, q))
      /\ TrwaleDo(t)[b + i] = Dalej(t, b + i, q)
  <2>1. /\ TrwaleDo(s)[a + i] = Dalej(s, a + i, TrwaleDo(s)[(a + i) - 1])
        /\ TrwaleDo(t)[b + i] = Dalej(t, b + i, TrwaleDo(t)[(b + i) - 1])
    BY <1>4, CoZostaje
  <2>2. QED
    BY <1>4, <1>5, <2>1 DEF P
<1>8. Zgodne(s[a + i], t[b + i]) /\ s[a + i] \in W /\ t[b + i] \in W
  <2>1. \A j \in 1 .. Len(s) : s[j] \in W
    BY ElementOfSeq
  <2>2. \A j \in 1 .. Len(t) : t[j] \in W
    BY ElementOfSeq
  <2>3. QED
    BY <1>4, <2>1, <2>2 DEF Rownolegle
<1> HIDE DEF q
<1>9. Append(Zlacz(p, q), t[b + i]) = Zlacz(p, Append(q, t[b + i]))
  <2>1. PICK x \in W : x = t[b + i]
    BY <1>8
  <2>2. PICK r \in Seq(W) : r = q
    BY <1>6
  <2>3. PICK v \in Seq(W) : v = p
    OBVIOUS
  <2>4. Append(Zlacz(v, r), x) = Zlacz(v, Append(r, x))
    BY ONLY v \in Seq(W), r \in Seq(W), x \in W, DopisaniePoZlaczeniu
  <2>5. QED
    BY <2>1, <2>2, <2>3, <2>4
<1>10. P(i)
  <2>1. CASE Trwale(t[b + i])
    <3>1. s[a + i] = t[b + i]
      BY <1>8, <2>1 DEF Zgodne
    <3>2. QED
      BY <1>7, <1>9, <2>1, <3>1 DEF Dalej, P
  <2>2. CASE ~ Trwale(t[b + i])
    <3>1. ~ Trwale(s[a + i])
      BY <1>8, <2>2 DEF Zgodne
    <3>2. QED
      BY <1>7, <2>2, <3>1 DEF Dalej, P
  <2>3. QED
    BY <2>1, <2>2
<1>11. QED
  BY <1>2, <1>10

(* The same with nothing in front.                                         *)
LEMMA Zgodnosc ==
  ASSUME NEW W, NEW s \in Seq(W), NEW t \in Seq(W), NEW m \in Nat,
         NEW a \in Nat, NEW b \in Nat, Rownolegle(s, a, t, b, m),
         TrwaleDo(s)[a] = TrwaleDo(t)[b]
  PROVE  TrwaleDo(s)[a + m] = TrwaleDo(t)[b + m]
<1>1. PICK p \in Seq(W) : \A q \in Seq(W) : Zlacz(p, q) = q
  BY EmptySeq, ConcatEmptySeq DEF Zlacz
<1>2. TrwaleDo(t)[b] \in Seq(W) /\ TrwaleDo(t)[b + m] \in Seq(W)
  <2>1. b \in 0 .. Len(t) /\ b + m \in 0 .. Len(t)
    BY DEF Rownolegle
  <2>2. QED
    BY <2>1, TypTrwalych
<1>3. TrwaleDo(s)[a] = Zlacz(p, TrwaleDo(t)[b])
  BY <1>1, <1>2
<1>4. TrwaleDo(s)[a + m] = Zlacz(p, TrwaleDo(t)[b + m])
  BY <1>3, Przedluzenie
<1>5. QED
  BY <1>1, <1>2, <1>4

-----------------------------------------------------------------------------
(* The ring w with the head at g and the tail at o, read as a sequence.    *)

Ring(w, g, o, n, W) ==
  /\ n \in Nat /\ n > 1
  /\ w \in [0 .. n - 1 -> W] /\ g \in 0 .. n - 1 /\ o \in 0 .. n - 1

(* Slot c of w, and no other, was given the value x.                       *)
Zamiana(w, v, c, x, n) == \A i \in 0 .. n - 1 : v[i] = IF i = c THEN x ELSE w[i]

(* From the u-th slot after o on, the values moved one slot towards o.     *)
Zsuniete(w, v, o, u, x, n) ==
  \A i \in 0 .. n - 1 :
    v[i] = IF Odleglosc(o, i, n) = n - 2 THEN x
           ELSE IF Odleglosc(o, i, n) \in u - 1 .. n - 3 THEN w[Przesun(i, 1, n)]
           ELSE w[i]

Obraz(w, g, o, n) == [k \in 1 .. Odleglosc(o, g, n) |-> w[Przesun(o, k - 1, n)]]

LEMMA ObrazCiag ==
  ASSUME NEW n, NEW W, NEW w, NEW g, NEW o, Ring(w, g, o, n, W)
  PROVE  /\ Odleglosc(o, g, n) \in 0 .. n - 1
         /\ Obraz(w, g, o, n) \in Seq(W)
         /\ Len(Obraz(w, g, o, n)) = Odleglosc(o, g, n)
         /\ \A k \in 1 .. Odleglosc(o, g, n) :
              /\ Przesun(o, k - 1, n) \in 0 .. n - 1
              /\ Obraz(w, g, o, n)[k] = w[Przesun(o, k - 1, n)]
<1> DEFINE d == Odleglosc(o, g, n)
<1> USE DEF Ring
<1>1. d \in 0 .. n - 1
  <2>1. n > 0
    OBVIOUS
  <2>2. QED
    BY <2>1, CoToOdleglosc
<1> HIDE DEF d
<1>2. \A k \in 1 .. d : Przesun(o, k - 1, n) \in 0 .. n - 1
  <2> SUFFICES ASSUME NEW k \in 1 .. d PROVE Przesun(o, k - 1, n) \in 0 .. n - 1
    OBVIOUS
  <2>1. k - 1 \in 0 .. n
    BY <1>1
  <2>2. QED
    BY <2>1, CoToPrzesun
<1>3. Obraz(w, g, o, n) = [k \in 1 .. d |-> w[Przesun(o, k - 1, n)]]
  BY DEF Obraz, d
<1>4. [k \in 1 .. d |-> w[Przesun(o, k - 1, n)]] \in [1 .. d -> W]
  BY <1>2
<1>5. QED
  BY <1>1, <1>2, <1>3, <1>4 DEF d

LEMMA ObrazDopisany ==
  ASSUME NEW n, NEW W, NEW w, NEW v, NEW g, NEW h, NEW o, NEW x \in W,
         Ring(w, g, o, n, W), Ring(v, h, o, n, W), Zamiana(w, v, g, x, n),
         h = Przesun(g, 1, n), h # o
  PROVE  /\ Obraz(v, h, o, n) = Append(Obraz(w, g, o, n), x)
         /\ Odleglosc(o, g, n) < n - 1
<1> DEFINE d == Odleglosc(o, g, n)
           s == Obraz(w, g, o, n)
           t == Obraz(v, h, o, n)
<1>0. n \in Nat /\ n > 0 /\ g \in 0 .. n - 1 /\ o \in 0 .. n - 1
  BY DEF Ring
<1>1. h \in 0 .. n - 1 /\ d # n - 1 /\ Odleglosc(o, h, n) = d + 1
  BY <1>0, KrokOdleglosci
<1>2. d \in 0 .. n - 1 /\ s \in Seq(W) /\ Len(s) = d
  BY ObrazCiag
<1>4. t \in Seq(W) /\ Len(t) = d + 1
  BY <1>1, ObrazCiag
<1>5. ASSUME NEW k \in 1 .. d + 1 PROVE t[k] = Append(s, x)[k]
  <2>1. /\ t[k] = v[Przesun(o, k - 1, n)]
        /\ Przesun(o, k - 1, n) \in 0 .. n - 1
    BY <1>1, ObrazCiag
  <2>2. k - 1 \in 0 .. n - 1
    BY <1>0, <1>1, <1>2
  <2>3. Odleglosc(o, Przesun(o, k - 1, n), n) = k - 1
    BY <2>2, <1>0, TamIZPowrotem
  <2>4. CASE k = d + 1
    <3>1. Przesun(o, d, n) = g
      BY <1>0, TamIZPowrotem
    <3>2. k - 1 = d
      BY <1>2, <2>4
    <3>3. t[k] = x
      BY <2>1, <3>1, <3>2 DEF Zamiana
    <3>4. QED
      BY <1>2, <2>4, <3>3
  <2>5. CASE k # d + 1
    <3>1. k \in 1 .. d /\ k - 1 # d
      BY <1>2, <2>5
    <3>2. Przesun(o, k - 1, n) # g
      BY <2>3, <3>1
    <3>3. t[k] = w[Przesun(o, k - 1, n)]
      BY <2>1, <3>2 DEF Zamiana
    <3>4. s[k] = w[Przesun(o, k - 1, n)]
      BY <3>1, ObrazCiag
    <3>5. QED
      BY <1>2, <3>1, <3>3, <3>4
  <2>6. QED
    BY <2>4, <2>5
<1> HIDE DEF s, t, d
<1>6. Append(s, x) \in Seq(W) /\ Len(Append(s, x)) = d + 1
  BY <1>2
<1>7. t = Append(s, x)
  BY <1>4, <1>5, <1>6, SeqEqual
<1>8. QED
  <2>1. d < n - 1
    BY <1>0, <1>1, <1>2
  <2>2. QED
    BY <1>7, <2>1 DEF s, t, d

LEMMA ObrazZdjety ==
  ASSUME NEW n, NEW W, NEW w, NEW g, NEW o, Ring(w, g, o, n, W), o # g
  PROVE  /\ Obraz(w, g, o, n) # <<>>
         /\ Obraz(w, g, Przesun(o, 1, n), n) = Tail(Obraz(w, g, o, n))
<1> DEFINE d == Odleglosc(o, g, n)
           q == Przesun(o, 1, n)
           s == Obraz(w, g, o, n)
           t == Obraz(w, g, q, n)
<1>0. n \in Nat /\ n > 0 /\ g \in 0 .. n - 1 /\ o \in 0 .. n - 1
  BY DEF Ring
<1>1. q \in 0 .. n - 1 /\ d # 0 /\ Odleglosc(q, g, n) = d - 1
  BY <1>0, KrokOdleglosci
<1>2. d \in 1 .. n - 1 /\ s \in Seq(W) /\ Len(s) = d
  BY <1>1, ObrazCiag
<1>r. Ring(w, g, q, n, W)
  BY <1>1 DEF Ring
<1> HIDE DEF q
<1>3. t \in Seq(W) /\ Len(t) = d - 1
  BY <1>1, <1>r, ObrazCiag
<1>4. ASSUME NEW k \in 1 .. d - 1 PROVE t[k] = s[k + 1]
  <2>1. t[k] = w[Przesun(q, k - 1, n)]
    BY <1>1, <1>r, ObrazCiag
  <2>2. k - 1 \in 0 .. n - 1 /\ (k - 1) + 1 = k /\ k + 1 \in 1 .. d /\ (k + 1) - 1 = k
    BY <1>0, <1>2
  <2>3. Przesun(q, k - 1, n) = Przesun(o, k, n)
    BY <2>2, <1>0, OdNastepnego DEF q
  <2>4. s[k + 1] = w[Przesun(o, (k + 1) - 1, n)]
    BY <2>2, ObrazCiag
  <2>5. QED
    BY <2>1, <2>2, <2>3, <2>4
<1> HIDE DEF s, t, d
<1>5. s # <<>>
  BY <1>2
<1>6. Tail(s) \in Seq(W) /\ Len(Tail(s)) = d - 1 /\ \A k \in 1 .. d - 1 : Tail(s)[k] = s[k + 1]
  BY <1>2, <1>5, HeadTailProperties
<1>7. t = Tail(s)
  BY <1>3, <1>4, <1>6, SeqEqual
<1>8. QED
  BY <1>5, <1>7 DEF s, t, q

LEMMA ObrazZmieniony ==
  ASSUME NEW n, NEW W, NEW w, NEW v, NEW g, NEW o, NEW x, NEW u, NEW c,
         Ring(w, g, o, n, W), Ring(v, g, o, n, W), Zamiana(w, v, c, x, n),
         u \in 1 .. Odleglosc(o, g, n), c = Przesun(o, u - 1, n)
  PROVE  \A k \in 1 .. Odleglosc(o, g, n) :
           Obraz(v, g, o, n)[k] = IF k = u THEN x ELSE Obraz(w, g, o, n)[k]
<1> SUFFICES ASSUME NEW k \in 1 .. Odleglosc(o, g, n)
             PROVE  Obraz(v, g, o, n)[k] = IF k = u THEN x ELSE Obraz(w, g, o, n)[k]
  OBVIOUS
<1>0. n \in Nat /\ n > 0 /\ o \in 0 .. n - 1 /\ g \in 0 .. n - 1
  BY DEF Ring
<1>1. Odleglosc(o, g, n) \in 0 .. n - 1
  BY ObrazCiag
<1>2. /\ Obraz(v, g, o, n)[k] = v[Przesun(o, k - 1, n)]
      /\ Obraz(w, g, o, n)[k] = w[Przesun(o, k - 1, n)]
      /\ Przesun(o, k - 1, n) \in 0 .. n - 1
  BY ObrazCiag
<1>3. k - 1 \in 0 .. n - 1 /\ u - 1 \in 0 .. n - 1 /\ (k - 1 = u - 1 => k = u)
  BY <1>0, <1>1
<1>4. Przesun(o, k - 1, n) = Przesun(o, u - 1, n) => k = u
  BY <1>0, <1>3, TamIZPowrotem
<1>5. QED
  BY <1>2, <1>4 DEF Zamiana

LEMMA ObrazWyparty ==
  ASSUME NEW n, NEW W, NEW w, NEW v, NEW g, NEW o, NEW x, NEW u \in 1 .. n - 1,
         Ring(w, g, o, n, W), Ring(v, g, o, n, W), Przesun(g, 1, n) = o,
         Zsuniete(w, v, o, u, x, n)
  PROVE  /\ Odleglosc(o, g, n) = n - 1
         /\ \A k \in 1 .. n - 1 :
              Obraz(v, g, o, n)[k] = IF k < u THEN Obraz(w, g, o, n)[k]
                                     ELSE IF k < n - 1 THEN Obraz(w, g, o, n)[k + 1]
                                     ELSE x
<1>0. n \in Nat /\ n > 1 /\ n > 0 /\ g \in 0 .. n - 1 /\ o \in 0 .. n - 1
  BY DEF Ring
<1>1. Odleglosc(o, g, n) = n - 1
  BY <1>0, KrokOdleglosci
<1>2. ASSUME NEW k \in 1 .. n - 1
      PROVE  Obraz(v, g, o, n)[k] = IF k < u THEN Obraz(w, g, o, n)[k]
                                    ELSE IF k < n - 1 THEN Obraz(w, g, o, n)[k + 1]
                                    ELSE x
  <2> DEFINE i == Przesun(o, k - 1, n)
  <2>1. i \in 0 .. n - 1 /\ Obraz(v, g, o, n)[k] = v[i] /\ Obraz(w, g, o, n)[k] = w[i]
    BY <1>1, ObrazCiag
  <2>2. Odleglosc(o, i, n) = k - 1
    <3>1. k - 1 \in 0 .. n - 1
      BY <1>0
    <3>2. QED
      BY <1>0, <3>1, TamIZPowrotem
  <2> HIDE DEF i
  <2>3. v[i] = IF k - 1 = n - 2 THEN x
               ELSE IF k - 1 \in u - 1 .. n - 3 THEN w[Przesun(i, 1, n)] ELSE w[i]
    BY <2>1, <2>2 DEF Zsuniete
  <2>4. CASE k < u
    <3>1. k - 1 # n - 2 /\ k - 1 \notin u - 1 .. n - 3
      BY <1>0, <2>4
    <3>2. QED
      BY <2>1, <2>3, <2>4, <3>1
  <2>5. CASE ~ (k < u) /\ k < n - 1
    <3>1. k - 1 # n - 2 /\ k - 1 \in u - 1 .. n - 3 /\ k + 1 \in 1 .. n - 1 /\ (k + 1) - 1 = k
      <4>1. n \in Nat /\ u \in 1 .. n - 1 /\ k \in 1 .. n - 1
        BY <1>0
      <4>2. QED
        BY ONLY <2>5, <4>1
    <3>2. Obraz(w, g, o, n)[k + 1] = w[Przesun(o, (k + 1) - 1, n)]
      BY <1>1, <3>1, ObrazCiag
    <3>3. Odleglosc(o, Przesun(i, 1, n), n) = k /\ Przesun(i, 1, n) \in 0 .. n - 1
      <4>1. k - 1 # n - 1 /\ (k - 1) + 1 = k
        BY <1>0, <2>5
      <4>2. /\ Przesun(i, 1, n) \in 0 .. n - 1
            /\ Odleglosc(o, Przesun(i, 1, n), n)
                 = IF Odleglosc(o, i, n) = n - 1 THEN 0 ELSE Odleglosc(o, i, n) + 1
        BY <1>0, <2>1, KrokOdleglosci
      <4>3. QED
        BY <2>2, <4>1, <4>2
    <3>4. Przesun(o, k, n) = Przesun(i, 1, n)
      BY <1>0, <3>3, TamIZPowrotem
    <3>5. QED
      BY <2>1, <2>3, <2>5, <3>1, <3>2, <3>4
  <2>6. CASE ~ (k < u) /\ ~ (k < n - 1)
    <3>1. k - 1 = n - 2
      BY <1>0, <2>6
    <3>2. QED
      BY <2>1, <2>3, <2>6, <3>1
  <2>7. QED
    BY <2>4, <2>5, <2>6
<1>3. QED
  BY <1>1, <1>2

-----------------------------------------------------------------------------
(* What a step does to the sequence of queued events.                      *)

Wpis == Zdarzenia \cup {Zerowe}

TypKolejki == wpisy \in [Indeksy -> Wpis] /\ glowa \in Indeksy /\ ogon \in Indeksy

(* No queued event of the type of z could take z in.                       *)
Nowe(s, z) ==
  z.typ \in Scalane =>
    \A k \in 1 .. Len(s) :
      s[k].typ = z.typ => \E j \in k + 1 .. Len(s) : s[j].typ \in Krawedzie

(* z replaced the u-th event, which no edge follows.                       *)
Scalony(s, z, u, t) ==
  /\ u \in 1 .. Len(s) /\ s[u].typ = z.typ /\ z.typ \in Scalane
  /\ \A j \in u + 1 .. Len(s) : s[j].typ \notin Krawedzie
  /\ Len(t) = Len(s)
  /\ \A k \in 1 .. Len(s) : t[k] = IF k = u THEN z ELSE s[k]

(* The u-th event, a motion or a tick, left, and z came in at the end.     *)
Wyparty(s, z, u, t) ==
  /\ u \in 1 .. Len(s) /\ s[u].typ \in Scalane
  /\ Len(t) = Len(s)
  /\ \A k \in 1 .. Len(s) :
       t[k] = IF k < u THEN s[k] ELSE IF k < Len(s) THEN s[k + 1] ELSE z

LEMMA Ciag ==
  ASSUME KolejkaZalozenia, TypKolejki
  PROVE  /\ ROZMIAR \in Nat /\ ROZMIAR > 1 /\ Indeksy = 0 .. ROZMIAR - 1
         /\ Ring(wpisy, glowa, ogon, ROZMIAR, Wpis)
         /\ Zawartosc = Obraz(wpisy, glowa, ogon, ROZMIAR)
         /\ Zawartosc \in Seq(Wpis)
         /\ Len(Zawartosc) = Dlugosc
         /\ Dlugosc = Odleglosc(ogon, glowa, ROZMIAR)
         /\ Dlugosc \in 0 .. ROZMIAR - 1
         /\ \A k \in Pozycje : k + 1 \in 1 .. Len(Zawartosc) /\ Typ(k) = Zawartosc[k + 1].typ
         /\ \A k \in Pozycje : Slot(k) = Przesun(ogon, (k + 1) - 1, ROZMIAR)
<1>1. ROZMIAR \in Nat /\ ROZMIAR > 1 /\ Indeksy = 0 .. ROZMIAR - 1
  BY DEF KolejkaZalozenia, Indeksy
<1>2. Ring(wpisy, glowa, ogon, ROZMIAR, Wpis)
  BY <1>1 DEF TypKolejki, Ring
<1>3. Zawartosc = Obraz(wpisy, glowa, ogon, ROZMIAR)
  BY DEF Zawartosc, Obraz, Dlugosc, Slot, Przesun, Odleglosc
<1>4. Dlugosc = Odleglosc(ogon, glowa, ROZMIAR)
  BY DEF Dlugosc, Odleglosc
<1>5. /\ Zawartosc \in Seq(Wpis)
      /\ Len(Zawartosc) = Dlugosc
      /\ Dlugosc \in 0 .. ROZMIAR - 1
  BY <1>2, <1>3, <1>4, ObrazCiag
<1>6. ASSUME NEW k \in Pozycje
      PROVE  /\ k + 1 \in 1 .. Len(Zawartosc) /\ Typ(k) = Zawartosc[k + 1].typ
             /\ Slot(k) = Przesun(ogon, (k + 1) - 1, ROZMIAR)
  <2>1. k + 1 \in 1 .. Dlugosc /\ (k + 1) - 1 = k
    BY <1>5 DEF Pozycje
  <2>2. Slot(k) = Przesun(ogon, (k + 1) - 1, ROZMIAR)
    BY <2>1 DEF Slot, Przesun
  <2>3. Zawartosc[k + 1] = wpisy[Slot(k)]
    BY <1>2, <1>3, <1>4, <2>1, <2>2, ObrazCiag
  <2>4. QED
    BY <1>5, <2>1, <2>2, <2>3 DEF Typ
<1>7. QED
  BY <1>1, <1>2, <1>3, <1>4, <1>5, <1>6

LEMMA TypPotem ==
  ASSUME KolejkaZalozenia, TypKolejki'
  PROVE  /\ Ring(wpisy', glowa', ogon', ROZMIAR, Wpis)
         /\ Zawartosc' = Obraz(wpisy', glowa', ogon', ROZMIAR)
         /\ Zawartosc' \in Seq(Wpis)
         /\ Len(Zawartosc') = Odleglosc(ogon', glowa', ROZMIAR)
         /\ Len(Zawartosc') = Dlugosc'
<1>1. ROZMIAR \in Nat /\ ROZMIAR > 1 /\ Indeksy = 0 .. ROZMIAR - 1
  BY DEF KolejkaZalozenia, Indeksy
<1>2. Ring(wpisy', glowa', ogon', ROZMIAR, Wpis)
  BY <1>1 DEF TypKolejki, Ring, Indeksy
<1>3. Zawartosc' = Obraz(wpisy', glowa', ogon', ROZMIAR)
  BY DEF Zawartosc, Obraz, Dlugosc, Slot, Przesun, Odleglosc
<1>4. Dlugosc' = Odleglosc(ogon', glowa', ROZMIAR)
  BY DEF Dlugosc, Odleglosc
<1>5. QED
  BY <1>2, <1>3, <1>4, ObrazCiag

LEMMA NoweZdarzenie ==
  ASSUME KolejkaZalozenia, TypKolejki, NEW z, NieScala(z)
  PROVE  Nowe(Zawartosc, z)
<1> SUFFICES ASSUME z.typ \in Scalane, NEW k \in 1 .. Len(Zawartosc),
                    Zawartosc[k].typ = z.typ
             PROVE  \E j \in k + 1 .. Len(Zawartosc) : Zawartosc[j].typ \in Krawedzie
  BY DEF Nowe
<1>1. k - 1 \in Pozycje /\ (k - 1) + 1 = k /\ Len(Zawartosc) = Dlugosc /\ Dlugosc \in Nat
  BY Ciag DEF Pozycje
<1>2. Typ(k - 1) = z.typ
  BY <1>1, Ciag
<1>3. PICK j \in (k - 1) + 1 .. Dlugosc - 1 : Typ(j) \in Krawedzie
  BY <1>1, <1>2 DEF NieScala, Trafienia
<1>4. j \in Pozycje /\ j + 1 \in k + 1 .. Len(Zawartosc)
  BY <1>1 DEF Pozycje
<1>5. Typ(j) = Zawartosc[j + 1].typ
  BY <1>4, Ciag
<1>6. QED
  BY <1>3, <1>4, <1>5

LEMMA KrokScal ==
  ASSUME KolejkaZalozenia, TypKolejki, NEW z \in Zdarzenia, Scal(z)
  PROVE  TypKolejki' /\ \E u : Scalony(Zawartosc, z, u, Zawartosc')
<1> DEFINE h == Max(Trafienia(z))
<1>1. Trafienia(z) \subseteq 0 .. ROZMIAR /\ Trafienia(z) # {} /\ Dlugosc \in Nat
  BY Ciag DEF Scal, Trafienia, Pozycje
<1>2. h \in Trafienia(z)
  BY <1>1, Ciag, MaxJest
<1> HIDE DEF h
<1>3. h \in Pozycje /\ Typ(h) = z.typ
  BY <1>2 DEF Trafienia
<1>4. h + 1 \in 1 .. Len(Zawartosc) /\ Zawartosc[h + 1].typ = z.typ /\ h \in Nat
  BY <1>1, <1>3, Ciag DEF Pozycje
<1>5. wpisy' = [wpisy EXCEPT ![Slot(h)] = z] /\ glowa' = glowa /\ ogon' = ogon
  BY DEF Scal, h
<1>6. z \in Wpis
  BY DEF Wpis
<1>7. TypKolejki'
  BY <1>5, <1>6 DEF TypKolejki, Indeksy
<1>8. /\ Len(Zawartosc') = Len(Zawartosc)
      /\ \A k \in 1 .. Len(Zawartosc) :
           Zawartosc'[k] = IF k = h + 1 THEN z ELSE Zawartosc[k]
  <2>1. PICK u : u = h + 1
    OBVIOUS
  <2>2. Slot(h) = Przesun(ogon, u - 1, ROZMIAR)
    BY <1>3, <2>1, Ciag
  <2>3. Zamiana(wpisy, wpisy', Slot(h), z, ROZMIAR)
    BY <1>5, Ciag DEF TypKolejki, Zamiana
  <2>4. u \in 1 .. Odleglosc(ogon, glowa, ROZMIAR)
    BY <1>4, <2>1, Ciag
  <2>5. Ring(wpisy, glowa, ogon, ROZMIAR, Wpis)
    BY Ciag
  <2>6. Ring(wpisy', glowa, ogon, ROZMIAR, Wpis)
    BY <1>5, <1>7, TypPotem
  <2>7. \A k \in 1 .. Odleglosc(ogon, glowa, ROZMIAR) :
          Obraz(wpisy', glowa, ogon, ROZMIAR)[k]
            = IF k = u THEN z ELSE Obraz(wpisy, glowa, ogon, ROZMIAR)[k]
    BY <2>2, <2>3, <2>4, <2>5, <2>6, ObrazZmieniony
  <2>8. /\ Zawartosc' = Obraz(wpisy', glowa, ogon, ROZMIAR)
        /\ Len(Zawartosc') = Odleglosc(ogon, glowa, ROZMIAR)
    BY <1>5, <1>7, TypPotem
  <2>9. /\ Zawartosc = Obraz(wpisy, glowa, ogon, ROZMIAR)
        /\ Len(Zawartosc) = Odleglosc(ogon, glowa, ROZMIAR)
    BY Ciag
  <2>10. QED
    BY <2>1, <2>7, <2>8, <2>9
<1>9. ASSUME NEW j \in (h + 1) + 1 .. Len(Zawartosc) PROVE Zawartosc[j].typ \notin Krawedzie
  <2>1. j - 1 \in h + 1 .. Dlugosc - 1 /\ j - 1 \in Pozycje /\ (j - 1) + 1 = j
    BY <1>1, <1>4, Ciag DEF Pozycje
  <2>2. Typ(j - 1) \notin Krawedzie
    BY <1>2, <2>1 DEF Trafienia
  <2>3. QED
    BY <2>1, <2>2, Ciag
<1>10. Scalony(Zawartosc, z, h + 1, Zawartosc')
  BY <1>4, <1>8, <1>9 DEF Scalony, Scal
<1>11. QED
  BY <1>7, <1>10

LEMMA KrokDopisz ==
  ASSUME KolejkaZalozenia, TypKolejki, NEW z \in Zdarzenia, Dopisz(z)
  PROVE  /\ TypKolejki'
         /\ Nowe(Zawartosc, z)
         /\ Zawartosc' = Append(Zawartosc, z)
         /\ Len(Zawartosc) < ROZMIAR - 1
<1>1. /\ wpisy' = [wpisy EXCEPT ![glowa] = z]
      /\ glowa' = Nastepny(glowa) /\ ogon' = ogon
      /\ Nastepny(glowa) # ogon /\ NieScala(z)
  BY DEF Dopisz
<1>2. /\ ROZMIAR \in Nat /\ ROZMIAR > 1 /\ ROZMIAR > 0 /\ Indeksy = 0 .. ROZMIAR - 1
      /\ glowa \in 0 .. ROZMIAR - 1 /\ ogon \in 0 .. ROZMIAR - 1
      /\ wpisy \in [0 .. ROZMIAR - 1 -> Wpis]
  BY Ciag DEF TypKolejki
<1>3. Nastepny(glowa) = Przesun(glowa, 1, ROZMIAR)
  BY DEF Nastepny, Przesun
<1>4. z \in Wpis
  BY DEF Wpis
<1>5. TypKolejki'
  <2>1. Przesun(glowa, 1, ROZMIAR) \in 0 .. ROZMIAR - 1
    BY <1>2, KrokOdleglosci
  <2>2. QED
    BY <1>1, <1>2, <1>3, <1>4, <2>1 DEF TypKolejki, Indeksy
<1>6. Zamiana(wpisy, wpisy', glowa, z, ROZMIAR)
  BY <1>1, <1>2 DEF Zamiana
<1>7. Ring(wpisy, glowa, ogon, ROZMIAR, Wpis) /\ Ring(wpisy', glowa', ogon, ROZMIAR, Wpis)
  BY <1>1, <1>5, Ciag, TypPotem
<1>8. /\ Obraz(wpisy', glowa', ogon, ROZMIAR) = Append(Obraz(wpisy, glowa, ogon, ROZMIAR), z)
      /\ Odleglosc(ogon, glowa, ROZMIAR) < ROZMIAR - 1
  <2>1. glowa' = Przesun(glowa, 1, ROZMIAR) /\ glowa' # ogon
    BY <1>1, <1>3
  <2>2. QED
    BY <1>4, <1>6, <1>7, <2>1, ObrazDopisany
<1>9. Zawartosc' = Obraz(wpisy', glowa', ogon, ROZMIAR)
  BY <1>1, <1>5, TypPotem
<1>10. Zawartosc = Obraz(wpisy, glowa, ogon, ROZMIAR)
       /\ Len(Zawartosc) = Odleglosc(ogon, glowa, ROZMIAR)
  BY Ciag
<1>11. Nowe(Zawartosc, z)
  BY <1>1, NoweZdarzenie
<1>12. QED
  BY <1>5, <1>8, <1>9, <1>10, <1>11

LEMMA KrokWyparcia ==
  ASSUME KolejkaZalozenia, TypKolejki, NEW z \in Zdarzenia, DopiszZWyparciem(z)
  PROVE  /\ TypKolejki'
         /\ Nowe(Zawartosc, z)
         /\ \E u : Wyparty(Zawartosc, z, u, Zawartosc')
         /\ Len(Zawartosc) = ROZMIAR - 1
<1> DEFINE m == Min(DoUsuniecia)
           Miejsce(i) == (i + ROZMIAR - ogon) % ROZMIAR
<1>1. /\ wpisy' = [i \in Indeksy |->
                     CASE Miejsce(i) = Dlugosc - 1 -> z
                       [] Miejsce(i) \in m .. Dlugosc - 2 -> wpisy[Nastepny(i)]
                       [] OTHER -> wpisy[i]]
      /\ glowa' = glowa /\ ogon' = ogon
      /\ Nastepny(glowa) = ogon /\ NieScala(z) /\ DoUsuniecia # {}
  BY DEF DopiszZWyparciem
<1>2. /\ ROZMIAR \in Nat /\ ROZMIAR > 1 /\ ROZMIAR > 0 /\ Indeksy = 0 .. ROZMIAR - 1
      /\ glowa \in 0 .. ROZMIAR - 1 /\ ogon \in 0 .. ROZMIAR - 1
      /\ wpisy \in [0 .. ROZMIAR - 1 -> Wpis]
  BY Ciag DEF TypKolejki
<1>3. /\ Przesun(glowa, 1, ROZMIAR) = ogon
      /\ \A i : Nastepny(i) = Przesun(i, 1, ROZMIAR)
      /\ \A i : Miejsce(i) = Odleglosc(ogon, i, ROZMIAR)
  BY <1>1 DEF Nastepny, Przesun, Odleglosc
<1>4. z \in Wpis
  BY DEF Wpis
<1>5. Dlugosc = ROZMIAR - 1 /\ Len(Zawartosc) = Dlugosc
  <2>1. Odleglosc(ogon, glowa, ROZMIAR) = ROZMIAR - 1
    BY <1>2, <1>3, KrokOdleglosci
  <2>2. QED
    BY <2>1, Ciag
<1>6. m \in DoUsuniecia
  <2>1. DoUsuniecia \subseteq Nat
    BY <1>2, <1>5 DEF DoUsuniecia, Pozycje
  <2>2. QED
    BY <1>1, <2>1, MinJest
<1> HIDE DEF m, Miejsce
<1>7. m \in Pozycje /\ Typ(m) \in Scalane /\ m \in Nat
  BY <1>2, <1>5, <1>6 DEF DoUsuniecia, Pozycje
<1>8. PICK u : u = m + 1
  OBVIOUS
<1>9. u \in 1 .. ROZMIAR - 1 /\ u - 1 = m /\ Zawartosc[u].typ \in Scalane
  BY <1>2, <1>5, <1>7, <1>8, Ciag DEF Pozycje
<1>10. ASSUME NEW i \in 0 .. ROZMIAR - 1
       PROVE  /\ wpisy'[i] \in Wpis
              /\ wpisy'[i] = IF Odleglosc(ogon, i, ROZMIAR) = ROZMIAR - 2 THEN z
                             ELSE IF Odleglosc(ogon, i, ROZMIAR) \in u - 1 .. ROZMIAR - 3
                             THEN wpisy[Przesun(i, 1, ROZMIAR)]
                             ELSE wpisy[i]
  <2>1. Dlugosc - 1 = ROZMIAR - 2 /\ Dlugosc - 2 = ROZMIAR - 3
    BY <1>2, <1>5
  <2>2. wpisy'[i] = IF Miejsce(i) = Dlugosc - 1 THEN z
                    ELSE IF Miejsce(i) \in m .. Dlugosc - 2 THEN wpisy[Nastepny(i)]
                    ELSE wpisy[i]
    <3>1. wpisy'[i] = CASE Miejsce(i) = Dlugosc - 1 -> z
                        [] Miejsce(i) \in m .. Dlugosc - 2 -> wpisy[Nastepny(i)]
                        [] OTHER -> wpisy[i]
      BY <1>1, <1>2, Zenon
    <3>2. ~ (Miejsce(i) = Dlugosc - 1 /\ Miejsce(i) \in m .. Dlugosc - 2)
      BY <1>2, <1>5, <1>7
    <3>3. QED
      BY <3>1, <3>2
  <2>3. wpisy'[i] = IF Odleglosc(ogon, i, ROZMIAR) = ROZMIAR - 2 THEN z
                    ELSE IF Odleglosc(ogon, i, ROZMIAR) \in u - 1 .. ROZMIAR - 3
                    THEN wpisy[Przesun(i, 1, ROZMIAR)]
                    ELSE wpisy[i]
    BY <1>3, <1>9, <2>1, <2>2
  <2>4. Przesun(i, 1, ROZMIAR) \in 0 .. ROZMIAR - 1
    BY <1>2, KrokOdleglosci
  <2>5. wpisy[i] \in Wpis /\ wpisy[Przesun(i, 1, ROZMIAR)] \in Wpis
    BY <1>2, <2>4
  <2>6. QED
    BY <1>4, <2>3, <2>5
<1>11. TypKolejki'
  <2>1. wpisy' = [i \in 0 .. ROZMIAR - 1 |-> wpisy'[i]]
    BY <1>1, <1>2
  <2>2. wpisy' \in [0 .. ROZMIAR - 1 -> Wpis]
    BY <1>10, <2>1
  <2>3. QED
    BY <1>1, <1>2, <2>2 DEF TypKolejki, Indeksy
<1>12. Zsuniete(wpisy, wpisy', ogon, u, z, ROZMIAR)
  BY <1>10 DEF Zsuniete
<1>13. Ring(wpisy, glowa, ogon, ROZMIAR, Wpis) /\ Ring(wpisy', glowa, ogon, ROZMIAR, Wpis)
  BY <1>1, <1>11, Ciag, TypPotem
<1>14. \A k \in 1 .. ROZMIAR - 1 :
         Obraz(wpisy', glowa, ogon, ROZMIAR)[k]
           = IF k < u THEN Obraz(wpisy, glowa, ogon, ROZMIAR)[k]
             ELSE IF k < ROZMIAR - 1 THEN Obraz(wpisy, glowa, ogon, ROZMIAR)[k + 1]
             ELSE z
  BY <1>3, <1>9, <1>12, <1>13, ObrazWyparty
<1>15. /\ Zawartosc' = Obraz(wpisy', glowa, ogon, ROZMIAR)
       /\ Len(Zawartosc') = Odleglosc(ogon, glowa, ROZMIAR)
  BY <1>1, <1>11, TypPotem
<1>16. /\ Zawartosc = Obraz(wpisy, glowa, ogon, ROZMIAR)
       /\ Len(Zawartosc) = Odleglosc(ogon, glowa, ROZMIAR)
  BY Ciag
<1>17. Wyparty(Zawartosc, z, u, Zawartosc')
  BY <1>5, <1>9, <1>14, <1>15, <1>16 DEF Wyparty
<1>18. Nowe(Zawartosc, z)
  BY <1>1, NoweZdarzenie
<1>19. QED
  BY <1>5, <1>11, <1>17, <1>18

LEMMA KrokPobierz ==
  ASSUME KolejkaZalozenia, TypKolejki, ogon # glowa, ogon' = Nastepny(ogon),
         UNCHANGED <<wpisy, glowa>>
  PROVE  TypKolejki' /\ Zawartosc # <<>> /\ Zawartosc' = Tail(Zawartosc)
<1>1. /\ ROZMIAR \in Nat /\ ROZMIAR > 0 /\ Indeksy = 0 .. ROZMIAR - 1
      /\ glowa \in 0 .. ROZMIAR - 1 /\ ogon \in 0 .. ROZMIAR - 1
  BY Ciag DEF TypKolejki
<1>2. ogon' = Przesun(ogon, 1, ROZMIAR) /\ Przesun(ogon, 1, ROZMIAR) \in 0 .. ROZMIAR - 1
  BY <1>1, KrokOdleglosci DEF Nastepny, Przesun
<1>3. TypKolejki'
  BY <1>1, <1>2 DEF TypKolejki, Indeksy
<1>4. Zawartosc' = Obraz(wpisy, glowa, Przesun(ogon, 1, ROZMIAR), ROZMIAR)
  BY <1>2, <1>3, TypPotem
<1>5. QED
  BY <1>3, <1>4, Ciag, ObrazZdjety

LEMMA KrokUsun ==
  ASSUME KolejkaZalozenia, wpisy' = [i \in Indeksy |-> Zerowe], glowa' = 0, ogon' = 0
  PROVE  TypKolejki' /\ Zawartosc' = <<>>
<1>1. ROZMIAR \in Nat /\ ROZMIAR > 1
  BY DEF KolejkaZalozenia
<1>2. TypKolejki'
  BY <1>1 DEF TypKolejki, Indeksy, Wpis
<1>3. Odleglosc(0, 0, ROZMIAR) = 0
  BY <1>1, CoToOdleglosc
<1>4. Zawartosc' \in Seq(Wpis) /\ Len(Zawartosc') = 0
  BY <1>2, <1>3, TypPotem
<1>5. QED
  BY <1>2, <1>4

(* The whole of what can happen to the sequence.                           *)
Zmiana(s, t) ==
  \/ t = s
  \/ \E z \in Zdarzenia : \E u : Scalony(s, z, u, t)
  \/ \E z \in Zdarzenia : Nowe(s, z) /\ t = Append(s, z)
  \/ \E z \in Zdarzenia : Nowe(s, z) /\ \E u : Wyparty(s, z, u, t)
  \/ s # <<>> /\ t = Tail(s)
  \/ t = <<>>

LEMMA BezZmian ==
  ASSUME TypKolejki, UNCHANGED <<wpisy, glowa, ogon>>
  PROVE  TypKolejki' /\ Zawartosc' = Zawartosc /\ Dlugosc' = Dlugosc
BY DEF TypKolejki, Zawartosc, Dlugosc, Slot

LEMMA KrokKolejki ==
  ASSUME KolejkaZalozenia, TypKolejki, [KolejkaNext]_zdarzenia
  PROVE  TypKolejki' /\ Zmiana(Zawartosc, Zawartosc')
<1>1. ASSUME NEW z \in Zdarzenia, Scal(z) PROVE TypKolejki' /\ Zmiana(Zawartosc, Zawartosc')
  BY <1>1, KrokScal DEF Zmiana
<1>2. ASSUME NEW z \in Zdarzenia, Dopisz(z) PROVE TypKolejki' /\ Zmiana(Zawartosc, Zawartosc')
  BY <1>2, KrokDopisz DEF Zmiana
<1>3. ASSUME NEW z \in Zdarzenia, DopiszZWyparciem(z)
      PROVE  TypKolejki' /\ Zmiana(Zawartosc, Zawartosc')
  BY <1>3, KrokWyparcia DEF Zmiana
<1>4. ASSUME UNCHANGED <<wpisy, glowa, ogon>>
      PROVE  TypKolejki' /\ Zmiana(Zawartosc, Zawartosc')
  BY <1>4, BezZmian DEF Zmiana
<1>5. ASSUME ogon # glowa, ogon' = Nastepny(ogon), UNCHANGED <<wpisy, glowa>>
      PROVE  TypKolejki' /\ Zmiana(Zawartosc, Zawartosc')
  BY <1>5, KrokPobierz DEF Zmiana
<1>6. CASE \E z \in Zdarzenia : scheduler_dodaj_zdarzenie(z)
  <2>1. PICK z \in Zdarzenia : scheduler_dodaj_zdarzenie(z)
    BY <1>6
  <2>2. Odrzuc(z) => UNCHANGED <<wpisy, glowa, ogon>>
    BY DEF Odrzuc
  <2>3. QED
    BY <1>1, <1>2, <1>3, <1>4, <2>1, <2>2 DEF scheduler_dodaj_zdarzenie
<1>7. CASE scheduler_pobierz_zdarzenie
  <2>1. \/ ogon # glowa /\ ogon' = Nastepny(ogon) /\ UNCHANGED <<wpisy, glowa>>
        \/ UNCHANGED <<wpisy, glowa, ogon>>
    BY <1>7 DEF scheduler_pobierz_zdarzenie
  <2>2. QED
    BY <1>4, <1>5, <2>1
<1>8. CASE scheduler_usun_zdarzenia_procesu
  BY <1>8, KrokUsun DEF scheduler_usun_zdarzenia_procesu, Zmiana
<1>9. CASE scheduler_czekaj_na_zdarzenie \/ NowyProces \/ UNCHANGED zdarzenia
  BY <1>4, <1>9 DEF scheduler_czekaj_na_zdarzenie, NowyProces, zdarzenia
<1>10. QED
  BY <1>6, <1>7, <1>8, <1>9 DEF KolejkaNext

LEMMA StartKolejki ==
  ASSUME KolejkaZalozenia, KolejkaInit
  PROVE  TypKolejki /\ Zawartosc = <<>> /\ Dlugosc = 0
<1>1. ROZMIAR \in Nat /\ ROZMIAR > 1
  BY DEF KolejkaZalozenia
<1>2. TypKolejki
  BY <1>1 DEF KolejkaInit, TypKolejki, Indeksy, Wpis
<1>3. Odleglosc(0, 0, ROZMIAR) = 0
  BY <1>1, CoToOdleglosc
<1>4. Zawartosc \in Seq(Wpis) /\ Len(Zawartosc) = 0 /\ Dlugosc = 0
  BY <1>2, <1>3, Ciag DEF KolejkaInit
<1>5. QED
  BY <1>2, <1>4

-----------------------------------------------------------------------------
(* Merging.                                                                *)

JedenWCiagu(s) ==
  \A t \in Scalane : \A j, k \in 1 .. Len(s) :
    (j < k /\ s[j].typ = t /\ s[k].typ = t) => \E m \in j .. k : s[m].typ \in Krawedzie

LEMMA RozneRodzaje == Scalane \cap Krawedzie = {}
BY DEF Scalane, Krawedzie

LEMMA JedenPoZmianie ==
  ASSUME NEW W, NEW s \in Seq(W), NEW t \in Seq(W), Zdarzenia \subseteq W,
         JedenWCiagu(s), Zmiana(s, t)
  PROVE  JedenWCiagu(t)
<1> SUFFICES ASSUME NEW c \in Scalane, NEW j \in 1 .. Len(t), NEW k \in 1 .. Len(t),
                    j < k, t[j].typ = c, t[k].typ = c
             PROVE  \E m \in j .. k : t[m].typ \in Krawedzie
  BY DEF JedenWCiagu
<1>0. Len(s) \in Nat /\ Len(t) \in Nat
  OBVIOUS
<1>1. CASE t = s
  BY <1>1 DEF JedenWCiagu
<1>2. ASSUME NEW z \in Zdarzenia, NEW u, Scalony(s, z, u, t)
      PROVE  \E m \in j .. k : t[m].typ \in Krawedzie
  <2>1. Len(t) = Len(s) /\ \A i \in 1 .. Len(s) : t[i].typ = s[i].typ
    BY <1>2 DEF Scalony
  <2>2. PICK m \in j .. k : s[m].typ \in Krawedzie
    BY <2>1 DEF JedenWCiagu
  <2>3. m \in 1 .. Len(s)
    BY <1>0, <2>1
  <2>4. QED
    BY <2>1, <2>2, <2>3
<1>3. ASSUME NEW z \in Zdarzenia, Nowe(s, z), t = Append(s, z)
      PROVE  \E m \in j .. k : t[m].typ \in Krawedzie
  <2>1. /\ Len(t) = Len(s) + 1 /\ t[Len(s) + 1] = z
        /\ \A i \in 1 .. Len(s) : t[i] = s[i]
    BY <1>3, AppendProperties
  <2>2. j \in 1 .. Len(s)
    BY <1>0, <2>1
  <2>3. CASE k = Len(s) + 1
    <3>1. PICK m \in j + 1 .. Len(s) : s[m].typ \in Krawedzie
      BY <1>3, <2>1, <2>2, <2>3 DEF Nowe
    <3>2. m \in j .. k /\ m \in 1 .. Len(s)
      BY <1>0, <2>2, <2>3
    <3>3. QED
      BY <2>1, <3>1, <3>2
  <2>4. CASE k # Len(s) + 1
    <3>1. k \in 1 .. Len(s)
      BY <1>0, <2>1, <2>4
    <3>2. PICK m \in j .. k : s[m].typ \in Krawedzie
      BY <2>1, <2>2, <3>1 DEF JedenWCiagu
    <3>3. m \in 1 .. Len(s)
      BY <1>0, <3>1
    <3>4. QED
      BY <2>1, <3>2, <3>3
  <2>5. QED
    BY <2>3, <2>4
<1>4. ASSUME NEW z \in Zdarzenia, Nowe(s, z), NEW u, Wyparty(s, z, u, t)
      PROVE  \E m \in j .. k : t[m].typ \in Krawedzie
  <2> DEFINE f(i) == IF i < u THEN i ELSE i + 1
  <2>1. /\ Len(t) = Len(s) /\ u \in 1 .. Len(s) /\ s[u].typ \in Scalane
        /\ t[Len(s)] = z
        /\ \A i \in 1 .. Len(s) - 1 : t[i] = s[f(i)] /\ f(i) \in 1 .. Len(s)
    BY <1>0, <1>4 DEF Wyparty
  <2>2. j \in 1 .. Len(s) - 1 /\ t[j] = s[f(j)] /\ f(j) \in 1 .. Len(s)
    BY <1>0, <2>1
  <2>3. ASSUME NEW m \in f(j) .. Len(s), s[m].typ \in Krawedzie
        PROVE  \E i \in j .. Len(s) - 1 : f(i) = m /\ t[i].typ \in Krawedzie
    <3>1. m # u
      BY <2>1, <2>3, RozneRodzaje
    <3>2. CASE m < u
      <4>1. m \in j .. Len(s) - 1 /\ f(m) = m /\ m \in 1 .. Len(s) - 1
        BY <1>0, <2>1, <2>2, <3>2
      <4>2. QED
        BY <2>1, <2>3, <4>1
    <3>3. CASE m > u
      <4>1. m - 1 \in j .. Len(s) - 1 /\ f(m - 1) = m /\ m - 1 \in 1 .. Len(s) - 1
        BY <1>0, <2>1, <2>2, <3>3
      <4>2. QED
        BY <2>1, <2>3, <4>1
    <3>4. QED
      BY <1>0, <2>1, <3>1, <3>2, <3>3
  <2>4. CASE k = Len(s)
    <3>1. PICK m \in f(j) + 1 .. Len(s) : s[m].typ \in Krawedzie
      BY <1>4, <2>1, <2>2, <2>4 DEF Nowe
    <3>2. m \in f(j) .. Len(s)
      BY <1>0, <2>2
    <3>3. PICK i \in j .. Len(s) - 1 : t[i].typ \in Krawedzie
      BY <2>3, <3>1, <3>2
    <3>4. i \in j .. k
      BY <1>0, <2>2, <2>4
    <3>5. QED
      BY <3>3, <3>4
  <2>5. CASE k # Len(s)
    <3>1. /\ k \in 1 .. Len(s) - 1 /\ t[k] = s[f(k)] /\ f(k) \in 1 .. Len(s)
          /\ f(j) < f(k)
      BY <1>0, <2>1, <2>2, <2>5
    <3>2. PICK m \in f(j) .. f(k) : s[m].typ \in Krawedzie
      BY <2>2, <3>1 DEF JedenWCiagu
    <3>3. m \in f(j) .. Len(s)
      BY <1>0, <2>2, <3>1
    <3>4. PICK i \in j .. Len(s) - 1 : f(i) = m /\ t[i].typ \in Krawedzie
      BY <2>3, <3>2, <3>3
    <3>5. i \in j .. k
      BY <1>0, <2>1, <2>2, <3>1, <3>2, <3>4
    <3>6. QED
      BY <3>4, <3>5
  <2>6. QED
    BY <2>4, <2>5
<1>5. CASE s # <<>> /\ t = Tail(s)
  <2>1. Len(t) = Len(s) - 1 /\ \A i \in 1 .. Len(t) : t[i] = s[i + 1]
    BY <1>5, HeadTailProperties
  <2>2. j + 1 \in 1 .. Len(s) /\ k + 1 \in 1 .. Len(s) /\ j + 1 < k + 1
    BY <1>0, <2>1
  <2>3. PICK m \in j + 1 .. k + 1 : s[m].typ \in Krawedzie
    <3>1. t[j] = s[j + 1] /\ t[k] = s[k + 1]
      BY <2>1
    <3>2. QED
      BY <2>2, <3>1, SMTT(30) DEF JedenWCiagu
  <2>4. m - 1 \in j .. k /\ m - 1 \in 1 .. Len(t) /\ (m - 1) + 1 = m
    BY <1>0, <2>1, <2>2
  <2>5. QED
    BY <2>1, <2>3, <2>4
<1>6. CASE t = <<>>
  BY <1>0, <1>6
<1>7. QED
  BY <1>1, <1>2, <1>3, <1>4, <1>5, <1>6 DEF Zmiana

(* However events come in, are merged, are evicted, are taken, and however *)
(* often the slot changes hands, between two edges of the queue there is   *)
(* at most one motion and one timer event (scheduler.cpp 721-722).         *)
THEOREM ScalanieJestZupelne == KolejkaZalozenia => (KolejkaSpec => []JedenNaOdcinek)
<1> SUFFICES ASSUME KolejkaZalozenia PROVE KolejkaSpec => []JedenNaOdcinek
  OBVIOUS
<1> DEFINE Inw == TypKolejki /\ JedenWCiagu(Zawartosc)
<1>1. KolejkaInit => Inw
  <2>1. JedenWCiagu(<<>>)
    BY DEF JedenWCiagu
  <2>2. QED
    BY <2>1, StartKolejki
<1>2. Inw /\ [KolejkaNext]_zdarzenia => Inw'
  <2> SUFFICES ASSUME Inw, [KolejkaNext]_zdarzenia PROVE Inw'
    OBVIOUS
  <2>1. TypKolejki' /\ Zmiana(Zawartosc, Zawartosc')
    BY KrokKolejki
  <2>2. Zawartosc \in Seq(Wpis) /\ Zawartosc' \in Seq(Wpis) /\ Zdarzenia \subseteq Wpis
    BY <2>1, Ciag, TypPotem DEF Wpis
  <2>3. JedenWCiagu(Zawartosc')
    BY <2>1, <2>2, JedenPoZmianie
  <2>4. QED
    BY <2>1, <2>3
<1>3. Inw => JedenNaOdcinek
  <2> SUFFICES ASSUME Inw, NEW c \in Scalane, NEW j \in Pozycje, NEW k \in Pozycje,
                      j < k, Typ(j) = c, Typ(k) = c
               PROVE  \E m \in j .. k : Typ(m) \in Krawedzie
    BY DEF JedenNaOdcinek
  <2>1. /\ j + 1 \in 1 .. Len(Zawartosc) /\ Typ(j) = Zawartosc[j + 1].typ
        /\ k + 1 \in 1 .. Len(Zawartosc) /\ Typ(k) = Zawartosc[k + 1].typ
        /\ Len(Zawartosc) = Dlugosc /\ Dlugosc \in Nat
    BY Ciag
  <2>2. j \in Nat /\ k \in Nat /\ j + 1 < k + 1 /\ k <= Dlugosc - 1
    BY <2>1 DEF Pozycje
  <2>3. PICK m \in j + 1 .. k + 1 : Zawartosc[m].typ \in Krawedzie
    BY <2>1, <2>2 DEF JedenWCiagu
  <2>4. m - 1 \in j .. k /\ m - 1 \in Pozycje /\ (m - 1) + 1 = m
    BY <2>1, <2>2 DEF Pozycje
  <2>5. Typ(m - 1) = Zawartosc[m].typ
    BY <2>4, Ciag
  <2>6. QED
    BY <2>3, <2>4, <2>5
<1>4. QED
  BY <1>1, <1>2, <1>3, PTL DEF KolejkaSpec

-----------------------------------------------------------------------------
(* The refinement: what a change of the sequence does to the events that   *)
(* are neither motion nor ticks.                                           *)

Zostaje(s) == TrwaleDo(s)[Len(s)]

LEMMA ZostajeTyp ==
  ASSUME NEW W, NEW s \in Seq(W)
  PROVE  Zostaje(s) \in Seq(W) /\ Len(Zostaje(s)) <= Len(s)
<1>1. Len(s) \in 0 .. Len(s)
  OBVIOUS
<1>2. QED
  BY <1>1, TypTrwalych DEF Zostaje

LEMMA ZostajeDopisany ==
  ASSUME NEW W, NEW s \in Seq(W), NEW z \in W
  PROVE  Zostaje(Append(s, z)) = IF Trwale(z) THEN Append(Zostaje(s), z) ELSE Zostaje(s)
<1>1. PICK t \in Seq(W) : t = Append(s, z)
  BY AppendProperties
<1>2. PICK n \in Nat : n = Len(s)
  OBVIOUS
<1>3. Len(t) = n + 1 /\ t[n + 1] = z /\ \A i \in 1 .. n : t[i] = s[i]
  BY <1>1, <1>2, AppendProperties
<1>4. TrwaleDo(t)[n] = TrwaleDo(s)[n]
  <2>1. Rownolegle(t, 0, s, 0, n)
    BY <1>2, <1>3 DEF Rownolegle, Zgodne
  <2>2. TrwaleDo(t)[0] = TrwaleDo(s)[0]
    BY CoZostaje
  <2>3. TrwaleDo(t)[0 + n] = TrwaleDo(s)[0 + n]
    BY <2>1, <2>2, Zgodnosc
  <2>4. QED
    BY <2>3
<1>5. TrwaleDo(t)[n + 1] = Dalej(t, n + 1, TrwaleDo(t)[n])
  <2>1. n + 1 \in Nat \ {0} /\ (n + 1) - 1 = n
    OBVIOUS
  <2>2. TrwaleDo(t)[n + 1] = Dalej(t, n + 1, TrwaleDo(t)[(n + 1) - 1])
    BY <2>1, CoZostaje
  <2>3. QED
    BY <2>1, <2>2
<1>6. QED
  BY <1>1, <1>2, <1>3, <1>4, <1>5 DEF Zostaje, Dalej

LEMMA ZostajeScalony ==
  ASSUME NEW W, NEW s \in Seq(W), NEW t \in Seq(W), NEW z, NEW u, Scalony(s, z, u, t)
  PROVE  Zostaje(t) = Zostaje(s)
<1>1. PICK n \in Nat : n = Len(s)
  OBVIOUS
<1>2. Rownolegle(t, 0, s, 0, n)
  BY <1>1 DEF Scalony, Rownolegle, Zgodne, Trwale
<1>3. TrwaleDo(t)[0] = TrwaleDo(s)[0]
  BY CoZostaje
<1>4. TrwaleDo(t)[0 + n] = TrwaleDo(s)[0 + n]
  BY <1>2, <1>3, Zgodnosc
<1>5. QED
  BY <1>1, <1>4 DEF Zostaje, Scalony

LEMMA ZostajeWyparty ==
  ASSUME NEW W, NEW s \in Seq(W), NEW t \in Seq(W), NEW z, NEW u, Wyparty(s, z, u, t)
  PROVE  /\ Zostaje(t) = IF Trwale(z) THEN Append(Zostaje(s), z) ELSE Zostaje(s)
         /\ Len(Zostaje(s)) <= Len(s) - 1
<1>1. PICK n \in Nat : n = Len(s)
  OBVIOUS
<1>2. /\ u \in 1 .. n /\ n \in Nat \ {0} /\ Len(t) = n /\ ~ Trwale(s[u])
      /\ t[n] = z
      /\ \A i \in 1 .. u - 1 : t[i] = s[i]
      /\ \A i \in u .. n - 1 : t[i] = s[i + 1]
  BY <1>1 DEF Wyparty, Trwale
<1>3. TrwaleDo(s)[u] = TrwaleDo(t)[u - 1]
  <2>1. PICK m \in Nat : m = u - 1
    BY <1>2
  <2>2. Rownolegle(s, 0, t, 0, m)
    BY <1>1, <1>2, <2>1 DEF Rownolegle, Zgodne
  <2>3. TrwaleDo(s)[0] = TrwaleDo(t)[0]
    BY CoZostaje
  <2>4. TrwaleDo(s)[0 + m] = TrwaleDo(t)[0 + m]
    BY <2>2, <2>3, Zgodnosc
  <2>5. u \in Nat \ {0}
    BY <1>2
  <2>6. TrwaleDo(s)[u] = Dalej(s, u, TrwaleDo(s)[u - 1])
    BY <2>5, CoZostaje
  <2>7. QED
    BY <1>2, <2>1, <2>4, <2>6 DEF Dalej
<1>4. TrwaleDo(s)[n] = TrwaleDo(t)[n - 1]
  <2>1. PICK a \in Nat, b \in Nat, m \in Nat : a = u /\ b = u - 1 /\ m = n - u
    BY <1>2
  <2>2. Rownolegle(s, a, t, b, m)
    <3>1. a + m <= Len(s) /\ b + m <= Len(t)
      BY <1>1, <1>2, <2>1
    <3>2. ASSUME NEW i \in 1 .. m PROVE s[a + i] = t[b + i]
      <4>1. b + i \in u .. n - 1 /\ (b + i) + 1 = a + i
        BY <1>2, <2>1
      <4>2. QED
        BY <1>2, <4>1
    <3>3. QED
      BY <3>1, <3>2 DEF Rownolegle, Zgodne
  <2>3. TrwaleDo(s)[a] = TrwaleDo(t)[b]
    BY <1>3, <2>1
  <2>4. TrwaleDo(s)[a + m] = TrwaleDo(t)[b + m]
    BY <2>2, <2>3, Zgodnosc
  <2>5. a + m = n /\ b + m = n - 1
    BY <1>2, <2>1
  <2>6. QED
    BY <2>4, <2>5
<1>5. TrwaleDo(t)[n] = Dalej(t, n, TrwaleDo(t)[n - 1])
  BY <1>2, CoZostaje
<1>6. Len(TrwaleDo(t)[n - 1]) <= n - 1
  <2>1. n - 1 \in 0 .. Len(t)
    BY <1>2
  <2>2. QED
    BY <2>1, TypTrwalych
<1>7. QED
  BY <1>1, <1>2, <1>4, <1>5, <1>6 DEF Zostaje, Dalej

LEMMA ZostajeZdjety ==
  ASSUME NEW W, NEW s \in Seq(W), s # <<>>
  PROVE  \/ Zostaje(Tail(s)) = Zostaje(s)
         \/ Zostaje(s) # <<>> /\ Zostaje(Tail(s)) = Tail(Zostaje(s))
<1>1. PICK t \in Seq(W) : t = Tail(s)
  BY HeadTailProperties
<1>2. PICK m \in Nat : m = Len(t)
  OBVIOUS
<1>3. Len(s) = 1 + m /\ \A i \in 1 .. m : t[i] = s[i + 1]
  BY <1>1, <1>2, HeadTailProperties
<1>4. PICK x \in W : x = s[1]
  BY <1>3, ElementOfSeq
<1> DEFINE q == TrwaleDo(t)[m]
<1>5. q \in Seq(W) /\ TrwaleDo(t)[0] = <<>>
  <2>1. m \in 0 .. Len(t)
    BY <1>2
  <2>2. QED
    BY <2>1, TypTrwalych, CoZostaje
<1>6. TrwaleDo(s)[1] = IF Trwale(x) THEN Append(<<>>, x) ELSE <<>>
  <2>1. 1 \in Nat \ {0} /\ 1 - 1 = 0
    OBVIOUS
  <2>2. TrwaleDo(s)[1] = Dalej(s, 1, TrwaleDo(s)[1 - 1]) /\ TrwaleDo(s)[0] = <<>>
    BY <2>1, CoZostaje
  <2>3. QED
    BY <1>4, <2>1, <2>2 DEF Dalej
<1>7. Rownolegle(s, 1, t, 0, m)
  <2>1. ASSUME NEW i \in 1 .. m PROVE s[1 + i] = t[0 + i]
    BY <1>3
  <2>2. QED
    BY <1>2, <1>3, <2>1 DEF Rownolegle, Zgodne
<1>8. PICK p \in Seq(W) : p = TrwaleDo(s)[1]
  <2>1. 1 \in 0 .. Len(s)
    BY <1>3
  <2>2. QED
    BY <2>1, TypTrwalych
<1>9. TrwaleDo(s)[1] = Zlacz(p, TrwaleDo(t)[0])
  BY <1>5, <1>8, ConcatEmptySeq DEF Zlacz
<1>10. TrwaleDo(s)[1 + m] = Zlacz(p, TrwaleDo(t)[0 + m])
  BY <1>7, <1>9, Przedluzenie
<1>11. TrwaleDo(s)[1 + m] = p \o q
  BY <1>10 DEF Zlacz
<1> HIDE DEF q
<1>12. CASE Trwale(x)
  <2>1. p = <<x>>
    BY <1>6, <1>8, <1>12
  <2>2. <<x>> \o q # <<>> /\ Tail(<<x>> \o q) = q
    BY <1>5
  <2>3. QED
    BY <1>1, <1>2, <1>3, <1>11, <2>1, <2>2 DEF Zostaje, q
<1>13. CASE ~ Trwale(x)
  <2>1. p = <<>>
    BY <1>6, <1>8, <1>13
  <2>2. <<>> \o q = q
    BY <1>5, ConcatEmptySeq
  <2>3. QED
    BY <1>1, <1>2, <1>3, <1>11, <2>1, <2>2 DEF Zostaje, q
<1>14. QED
  BY <1>12, <1>13

AKolejka == TrwaleDo(Zawartosc)[Dlugosc]

(* One step of the queue is one step of the lossless FIFO or none.         *)
LEMMA KrokFifo ==
  ASSUME KolejkaZalozenia, TypKolejki, [KolejkaNext]_zdarzenia
  PROVE  [Abstrakcja!Next]_<<AKolejka, stan>>
<1>0. TypKolejki'
  BY KrokKolejki
<1>1. /\ AKolejka = Zostaje(Zawartosc) /\ AKolejka' = Zostaje(Zawartosc')
      /\ Zawartosc \in Seq(Wpis) /\ Zawartosc' \in Seq(Wpis) /\ Len(Zawartosc) \in Nat
      /\ Len(AKolejka) \in Nat /\ Len(AKolejka) <= Len(Zawartosc)
  <2>1. /\ Zawartosc \in Seq(Wpis) /\ Len(Zawartosc) = Dlugosc
        /\ Zawartosc' \in Seq(Wpis) /\ Len(Zawartosc') = Dlugosc'
    BY <1>0, Ciag, TypPotem
  <2>2. AKolejka = Zostaje(Zawartosc) /\ AKolejka' = Zostaje(Zawartosc')
    BY <2>1 DEF AKolejka, Zostaje
  <2>3. Zostaje(Zawartosc) \in Seq(Wpis) /\ Len(Zostaje(Zawartosc)) <= Len(Zawartosc)
    BY <2>1, ZostajeTyp
  <2>4. QED
    BY <2>1, <2>2, <2>3
<1>2. ROZMIAR \in Nat
  BY Ciag
<1>w. Wybudz => stan' = Abstrakcja!Obudzony
  BY DEF Wybudz, Abstrakcja!Obudzony
<1>3. ASSUME stan' = Abstrakcja!Obudzony, AKolejka' = AKolejka
      PROVE  Abstrakcja!Next
  BY <1>3 DEF Abstrakcja!Next, Abstrakcja!ObudzRuchem, AKolejka
<1>4. ASSUME NEW z \in Zdarzenia, Trwale(z), Len(AKolejka) < ROZMIAR - 1,
             AKolejka' = Append(AKolejka, z), stan' = Abstrakcja!Obudzony
      PROVE  Abstrakcja!Next
  <2>1. Abstrakcja!Przyjmij(z)
    BY <1>4 DEF Abstrakcja!Przyjmij, AKolejka
  <2>2. QED
    BY <1>4, <2>1 DEF Abstrakcja!Next
<1>5. ASSUME NEW z \in Zdarzenia, Scal(z) PROVE Abstrakcja!Next
  <2>1. PICK u : Scalony(Zawartosc, z, u, Zawartosc')
    BY <1>5, KrokScal
  <2>2. AKolejka' = AKolejka
    BY <1>1, <2>1, ZostajeScalony
  <2>3. QED
    BY <1>3, <1>5, <1>w, <2>2 DEF Scal
<1>6. ASSUME NEW z \in Zdarzenia, Dopisz(z) \/ DopiszZWyparciem(z) PROVE Abstrakcja!Next
  <2>1. /\ AKolejka' = IF Trwale(z) THEN Append(AKolejka, z) ELSE AKolejka
        /\ Len(AKolejka) < ROZMIAR - 1
    <3>1. CASE Dopisz(z)
      <4>1. Zawartosc' = Append(Zawartosc, z) /\ Len(Zawartosc) < ROZMIAR - 1
        BY <3>1, KrokDopisz
      <4>2. z \in Wpis
        BY DEF Wpis
      <4>3. AKolejka' = IF Trwale(z) THEN Append(AKolejka, z) ELSE AKolejka
        BY <1>1, <4>1, <4>2, ZostajeDopisany
      <4>4. QED
        BY <1>1, <1>2, <4>1, <4>3
    <3>2. CASE DopiszZWyparciem(z)
      <4>1. Len(Zawartosc) = ROZMIAR - 1 /\ \E u : Wyparty(Zawartosc, z, u, Zawartosc')
        BY <3>2, KrokWyparcia
      <4>2. /\ AKolejka' = IF Trwale(z) THEN Append(AKolejka, z) ELSE AKolejka
            /\ Len(AKolejka) <= Len(Zawartosc) - 1
        BY <1>1, <4>1, ZostajeWyparty
      <4>3. QED
        BY <1>1, <1>2, <4>1, <4>2
    <3>3. QED
      BY <1>6, <3>1, <3>2
  <2>2. stan' = Abstrakcja!Obudzony
    BY <1>6, <1>w DEF Dopisz, DopiszZWyparciem
  <2>3. QED
    BY <1>3, <1>4, <2>1, <2>2
<1>7. ASSUME UNCHANGED <<wpisy, glowa, ogon>> PROVE AKolejka' = AKolejka
  BY <1>7, BezZmian DEF AKolejka
<1>8. CASE \E z \in Zdarzenia : scheduler_dodaj_zdarzenie(z)
  <2>1. PICK z \in Zdarzenia : scheduler_dodaj_zdarzenie(z)
    BY <1>8
  <2>2. CASE Odrzuc(z)
    BY <1>7, <2>2 DEF Odrzuc
  <2>3. QED
    BY <1>5, <1>6, <2>1, <2>2 DEF scheduler_dodaj_zdarzenie
<1>9. CASE scheduler_pobierz_zdarzenie
  <2>1. CASE ogon = glowa
    BY <1>7, <1>9, <2>1 DEF scheduler_pobierz_zdarzenie
  <2>2. CASE ogon # glowa
    <3>1. ogon' = Nastepny(ogon) /\ UNCHANGED <<wpisy, glowa>> /\ stan' = stan
      BY <1>9, <2>2 DEF scheduler_pobierz_zdarzenie
    <3>2. Zawartosc # <<>> /\ Zawartosc' = Tail(Zawartosc)
      BY <2>2, <3>1, KrokPobierz
    <3>3. AKolejka' = AKolejka \/ (AKolejka # <<>> /\ AKolejka' = Tail(AKolejka))
      BY <1>1, <3>2, ZostajeZdjety
    <3>4. QED
      BY <3>1, <3>3 DEF Abstrakcja!Next, Abstrakcja!Odbierz, AKolejka
  <2>3. QED
    BY <2>1, <2>2
<1>10. CASE scheduler_czekaj_na_zdarzenie
  <2>1. AKolejka' = AKolejka
    BY <1>7, <1>10 DEF scheduler_czekaj_na_zdarzenie
  <2>2. CASE ogon = glowa /\ stan = "GOTOWY"
    <3>1. AKolejka = <<>>
      <4>1. ROZMIAR > 0 /\ ogon \in 0 .. ROZMIAR - 1 /\ glowa \in 0 .. ROZMIAR - 1
        BY Ciag DEF TypKolejki
      <4>2. Dlugosc = 0
        BY <1>2, <2>2, <4>1, KrokOdleglosci, Ciag
      <4>3. QED
        BY <4>2, CoZostaje DEF AKolejka
    <3>2. stan' = "ZABL_ZDARZENIE"
      BY <1>10, <2>2 DEF scheduler_czekaj_na_zdarzenie
    <3>3. QED
      BY <2>1, <2>2, <3>1, <3>2 DEF Abstrakcja!Next, Abstrakcja!Zablokuj, AKolejka
  <2>3. CASE ~ (ogon = glowa /\ stan = "GOTOWY")
    BY <1>10, <2>1, <2>3 DEF scheduler_czekaj_na_zdarzenie
  <2>4. QED
    BY <2>2, <2>3
<1>11. CASE scheduler_usun_zdarzenia_procesu
  <2>1. stan # "KONCZACY" /\ stan' = "KONCZACY" /\ Zawartosc' = <<>>
    BY <1>11, KrokUsun DEF scheduler_usun_zdarzenia_procesu
  <2>2. AKolejka' = <<>>
    BY <1>1, <2>1, CoZostaje DEF Zostaje
  <2>3. QED
    BY <2>1, <2>2 DEF Abstrakcja!Next, Abstrakcja!Zakoncz, AKolejka
<1>12. CASE NowyProces
  BY <1>7, <1>12 DEF NowyProces, Abstrakcja!Next, Abstrakcja!NowyProces, AKolejka
<1>13. CASE UNCHANGED zdarzenia
  BY <1>7, <1>13 DEF zdarzenia
<1>14. QED
  BY <1>8, <1>9, <1>10, <1>11, <1>12, <1>13 DEF KolejkaNext

(* The event queue of scheduler.cpp 711-817 implements a bounded FIFO that *)
(* loses nothing it accepted: clicks, keys, focus changes and messages are *)
(* delivered once and in order, are never given up for another event, and  *)
(* a process is not left blocked with one of them waiting.  Only motion    *)
(* and timer events are merged or evicted.                                 *)
THEOREM KolejkaJestFifo == KolejkaZalozenia => (KolejkaSpec => FifoKrawedzi)
<1> SUFFICES ASSUME KolejkaZalozenia PROVE KolejkaSpec => FifoKrawedzi
  OBVIOUS
<1>1. KolejkaInit => TypKolejki /\ Abstrakcja!Init
  <2> SUFFICES ASSUME KolejkaInit PROVE TypKolejki /\ Abstrakcja!Init
    OBVIOUS
  <2>1. TypKolejki /\ Dlugosc = 0
    BY StartKolejki
  <2>2. QED
    BY <2>1, CoZostaje DEF Abstrakcja!Init, KolejkaInit
<1>2. TypKolejki /\ [KolejkaNext]_zdarzenia => TypKolejki'
  BY KrokKolejki
<1>3. TypKolejki /\ [KolejkaNext]_zdarzenia 
        => [Abstrakcja!Next]_<<TrwaleDo(Zawartosc)[Dlugosc], stan>>
  BY KrokFifo DEF AKolejka
<1>4. QED
  BY <1>1, <1>2, <1>3, PTL DEF KolejkaSpec, FifoKrawedzi, Abstrakcja!Spec

-----------------------------------------------------------------------------
(* The history before the last edge.                                       *)

(* e is the position of the last edge of s, 0 when there is none.          *)
DoKrawedzi(s, e) ==
  /\ e \in 0 .. Len(s)
  /\ e # 0 => s[e].typ \in Krawedzie
  /\ \A j \in e + 1 .. Len(s) : s[j].typ \notin Krawedzie

LEMMA CoToHistoria ==
  ASSUME KolejkaZalozenia, TypKolejki
  PROVE  DoKrawedzi(Zawartosc, OstatniaKrawedz)
<1> DEFINE P == { j \in Pozycje : Typ(j) \in Krawedzie }
           M == {0} \cup { k + 1 : k \in P }
           e == OstatniaKrawedz
<1>1. /\ Len(Zawartosc) = Dlugosc /\ Dlugosc \in Nat
      /\ \A k \in Pozycje : Typ(k) = Zawartosc[k + 1].typ
  BY Ciag
<1>2. \A k \in P : k + 1 \in 1 .. Dlugosc
  BY <1>1 DEF Pozycje
<1>3. M \subseteq 0 .. Dlugosc /\ M # {}
  BY <1>1, <1>2
<1>4. e = Max(M)
  BY DEF OstatniaKrawedz
<1> HIDE DEF e
<1>5. e \in M /\ \A y \in M : e >= y
  <2> HIDE DEF M
  <2>1. QED
    BY <1>1, <1>3, <1>4, MaxJest
<1>6. e \in 0 .. Dlugosc
  BY <1>3, <1>5
<1>7. e # 0 => Zawartosc[e].typ \in Krawedzie
  <2> SUFFICES ASSUME e # 0 PROVE Zawartosc[e].typ \in Krawedzie
    OBVIOUS
  <2>1. PICK k \in P : e = k + 1
    BY <1>5
  <2>2. QED
    BY <1>1, <2>1
<1>8. ASSUME NEW j \in e + 1 .. Len(Zawartosc) PROVE Zawartosc[j].typ \notin Krawedzie
  <2>1. j - 1 \in Pozycje /\ (j - 1) + 1 = j /\ ~ (e >= j)
    BY <1>1, <1>6 DEF Pozycje
  <2>2. j \notin M
    BY <1>5, <2>1
  <2>3. j - 1 \notin P
    BY <2>1, <2>2
  <2>4. QED
    BY <1>1, <2>1, <2>3
<1>9. QED
  BY <1>1, <1>6, <1>7, <1>8 DEF DoKrawedzi, e

LEMMA CoToPrefiks ==
  ASSUME NEW W, NEW s \in Seq(W), NEW t \in Seq(W), Len(s) <= Len(t),
         \A i \in 1 .. Len(s) : s[i] = t[i]
  PROVE  IsPrefix(s, t)
<1>1. Len(s) \in Nat /\ Len(t) \in Nat
  OBVIOUS
<1>2. /\ \A i \in 1 .. Len(s) : s[i] \in W
      /\ \A i \in 1 .. Len(s) : t[i] \in W
  BY <1>1, ElementOfSeq
<1> DEFINE a == SubSeq(s, 1, Len(s))
           b == SubSeq(t, 1, Len(s))
<1>3. /\ a \in Seq(W) /\ Len(a) = Len(s) /\ \A i \in 1 .. Len(s) : a[i] = s[i]
      /\ b \in Seq(W) /\ Len(b) = Len(s) /\ \A i \in 1 .. Len(s) : b[i] = t[i]
  BY <1>1, <1>2
<1> HIDE DEF a, b
<1>4. a = b
  BY <1>3, SeqEqual
<1>5. QED
  BY <1>4 DEF IsPrefix, a, b

LEMMA CoToUsuniecie ==
  ASSUME NEW W, NEW s \in Seq(W), NEW u \in 1 .. Len(s)
  PROVE  /\ RemoveAt(s, u) \in Seq(W)
         /\ Len(RemoveAt(s, u)) = Len(s) - 1
         /\ \A i \in 1 .. Len(s) - 1 : RemoveAt(s, u)[i] = IF i < u THEN s[i] ELSE s[i + 1]
<1>1. Len(s) \in Nat /\ \A i \in 1 .. Len(s) : s[i] \in W
  BY ElementOfSeq
<1> DEFINE a == SubSeq(s, 1, u - 1)
           b == SubSeq(s, u + 1, Len(s))
<1>2. /\ a \in Seq(W) /\ Len(a) = u - 1
      /\ \A i \in 1 .. u - 1 : a[i] = s[i]
  BY <1>1
<1>3. /\ b \in Seq(W) /\ Len(b) = Len(s) - u
      /\ \A i \in 1 .. Len(s) - u : b[i] = s[u + i]
  BY <1>1
<1>4. RemoveAt(s, u) = a \o b
  BY DEF RemoveAt
<1> HIDE DEF a, b
<1>5. /\ a \o b \in Seq(W) /\ Len(a \o b) = Len(s) - 1
      /\ \A i \in 1 .. Len(s) - 1 :
           (a \o b)[i] = IF i <= u - 1 THEN a[i] ELSE b[i - (u - 1)]
  BY <1>1, <1>2, <1>3, ConcatProperties
<1>6. ASSUME NEW i \in 1 .. Len(s) - 1
      PROVE  (a \o b)[i] = IF i < u THEN s[i] ELSE s[i + 1]
  <2>1. CASE i < u
    BY <1>1, <1>2, <1>5, <2>1
  <2>2. CASE ~ (i < u)
    <3>1. i - (u - 1) \in 1 .. Len(s) - u /\ u + (i - (u - 1)) = i + 1 /\ ~ (i <= u - 1)
      BY <1>1, <2>2
    <3>2. QED
      BY <1>3, <1>5, <2>2, <3>1
  <2>3. QED
    BY <2>1, <2>2
<1>7. QED
  BY <1>4, <1>5, <1>6

LEMMA HistoriaPoZmianie ==
  ASSUME NEW W, NEW s \in Seq(W), NEW t \in Seq(W), Zdarzenia \subseteq W,
         NEW e, DoKrawedzi(s, e), NEW h, h = SubSeq(s, 1, e), Zmiana(s, t)
  PROVE  \/ IsPrefix(h, t)
         \/ \E k \in DOMAIN h : h[k].typ \in Scalane /\ IsPrefix(RemoveAt(h, k), t)
         \/ t = Tail(s)
         \/ t = <<>>
<1>1. /\ Len(s) \in Nat /\ Len(t) \in Nat /\ e \in 0 .. Len(s)
      /\ \A i \in 1 .. Len(s) : s[i] \in W
  BY ElementOfSeq DEF DoKrawedzi
<1>2. /\ h \in Seq(W) /\ Len(h) = e /\ DOMAIN h = 1 .. e
      /\ \A i \in 1 .. e : h[i] = s[i]
  BY <1>1
<1>p. ASSUME e <= Len(t), \A i \in 1 .. e : t[i] = s[i] PROVE IsPrefix(h, t)
  BY <1>2, <1>p, CoToPrefiks
<1>3. CASE t = s
  BY <1>1, <1>3, <1>p
<1>4. ASSUME NEW z \in Zdarzenia, NEW u, Scalony(s, z, u, t) PROVE IsPrefix(h, t)
  <2>1. u \in 1 .. Len(s) /\ s[u].typ \notin Krawedzie
    BY <1>4, RozneRodzaje DEF Scalony
  <2>2. ~ (u <= e)
    <3> SUFFICES ASSUME u <= e PROVE FALSE
      OBVIOUS
    <3>1. e # 0 /\ s[e].typ \in Krawedzie
      BY <1>1, <2>1 DEF DoKrawedzi
    <3>2. e \in u + 1 .. Len(s)
      BY <1>1, <2>1, <3>1
    <3>3. QED
      BY <1>4, <3>1, <3>2 DEF Scalony
  <2>3. Len(t) = Len(s) /\ \A i \in 1 .. e : t[i] = s[i]
    BY <1>1, <1>4, <2>1, <2>2 DEF Scalony
  <2>4. QED
    BY <1>1, <1>p, <2>3
<1>5. ASSUME NEW z \in Zdarzenia, t = Append(s, z) PROVE IsPrefix(h, t)
  <2>1. Len(t) = Len(s) + 1 /\ \A i \in 1 .. Len(s) : t[i] = s[i]
    BY <1>5, AppendProperties
  <2>2. QED
    BY <1>1, <1>p, <2>1
<1>6. ASSUME NEW z \in Zdarzenia, NEW u, Wyparty(s, z, u, t)
      PROVE  \/ IsPrefix(h, t)
             \/ \E k \in DOMAIN h : h[k].typ \in Scalane /\ IsPrefix(RemoveAt(h, k), t)
  <2>1. /\ u \in 1 .. Len(s) /\ s[u].typ \in Scalane /\ Len(t) = Len(s)
        /\ \A k \in 1 .. Len(s) :
             t[k] = IF k < u THEN s[k] ELSE IF k < Len(s) THEN s[k + 1] ELSE z
    BY <1>6 DEF Wyparty
  <2>2. CASE e < u
    <3>1. e <= Len(t) /\ \A i \in 1 .. e : t[i] = s[i]
      BY <1>1, <2>1, <2>2
    <3>2. QED
      BY <1>p, <3>1
  <2>3. CASE ~ (e < u)
    <3>1. u \in 1 .. e /\ u \in DOMAIN h /\ h[u].typ \in Scalane
      BY <1>1, <1>2, <2>1, <2>3
    <3>2. PICK r \in Seq(W) : r = RemoveAt(h, u)
      BY <1>2, <3>1, CoToUsuniecie
    <3>3. /\ Len(r) = e - 1
          /\ \A i \in 1 .. e - 1 : r[i] = IF i < u THEN h[i] ELSE h[i + 1]
      <4>1. u \in 1 .. Len(h)
        BY <1>2, <3>1
      <4>2. /\ Len(r) = Len(h) - 1
            /\ \A i \in 1 .. Len(h) - 1 : r[i] = IF i < u THEN h[i] ELSE h[i + 1]
        BY <1>2, <3>2, <4>1, CoToUsuniecie
      <4>3. QED
        BY <1>2, <4>2
    <3>4. ASSUME NEW i \in 1 .. e - 1 PROVE r[i] = t[i]
      <4>1. i \in 1 .. e /\ i + 1 \in 1 .. e /\ i \in 1 .. Len(s) /\ i < Len(s)
        BY <1>1
      <4>2. h[i] = s[i] /\ h[i + 1] = s[i + 1]
        BY <1>2, <4>1
      <4>3. QED
        BY <2>1, <3>3, <4>1, <4>2
    <3>5. Len(r) <= Len(t)
      BY <1>1, <2>1, <3>3
    <3>6. IsPrefix(r, t)
      BY <3>3, <3>4, <3>5, CoToPrefiks
    <3>7. QED
      BY <3>1, <3>2, <3>6
  <2>4. QED
    BY <2>2, <2>3
<1>7. QED
  BY <1>3, <1>4, <1>5, <1>6 DEF Zmiana

(* What the owner will read up to the last click, key or change of focus   *)
(* is settled: no later event rewrites it or slips in front of it, and the *)
(* eviction of a full queue takes a motion or a tick out of it at most     *)
(* (scheduler.cpp 721-775).                                                *)
THEOREM HistoriiSieNieZmienia == KolejkaZalozenia => (KolejkaSpec => HistoriaNiezmienna)
<1> SUFFICES ASSUME KolejkaZalozenia PROVE KolejkaSpec => HistoriaNiezmienna
  OBVIOUS
<1>1. KolejkaInit => TypKolejki
  BY StartKolejki
<1>2. TypKolejki /\ [KolejkaNext]_zdarzenia => TypKolejki' /\ [HistoriaZostaje]_zdarzenia
  <2> SUFFICES ASSUME TypKolejki, [KolejkaNext]_zdarzenia PROVE TypKolejki' /\ HistoriaZostaje
    OBVIOUS
  <2>1. TypKolejki' /\ Zmiana(Zawartosc, Zawartosc')
    BY KrokKolejki
  <2>2. /\ Zawartosc \in Seq(Wpis) /\ Zawartosc' \in Seq(Wpis) /\ Zdarzenia \subseteq Wpis
        /\ DoKrawedzi(Zawartosc, OstatniaKrawedz)
        /\ Historia = SubSeq(Zawartosc, 1, OstatniaKrawedz)
    BY <2>1, Ciag, TypPotem, CoToHistoria DEF Wpis, Historia
  <2>3. HistoriaZostaje
    BY <2>1, <2>2, HistoriaPoZmianie DEF HistoriaZostaje
  <2>4. QED
    BY <2>1, <2>3
<1>3. QED
  BY <1>1, <1>2, PTL DEF KolejkaSpec, HistoriaNiezmienna
=============================================================================
