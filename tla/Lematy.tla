------------------------------- MODULE Lematy -------------------------------
(***************************************************************************)
(* What the proofs share: smallest and greatest elements, and rings, n     *)
(* slots used as a queue with indexes that go round.  The key buffer, the  *)
(* event queue of a process and both rings of the network card are rings.  *)
(***************************************************************************)
EXTENDS Integers, Sequences, WellFoundedInduction, TLAPS

-----------------------------------------------------------------------------
(* Every set of numbers has a smallest one, every bounded set a greatest.  *)
(* The proofs by induction of this project refute a smallest or a greatest *)
(* counterexample.                                                         *)

LEMMA JestNajmniejsza ==
  ASSUME NEW T, T \subseteq Nat, T # {}
  PROVE  \E x \in T : \A y \in T : x <= y
<1> DEFINE R == OpToRel(<, Nat)
<1>1. IsWellFoundedOn(R, Nat)
  BY NatLessThanWellFounded
<1>2. \A x, y \in Nat : y < x => <<y, x>> \in R
  BY DEF OpToRel
<1> HIDE DEF R
<1>3. PICK x \in T : \A y \in T : <<y, x>> \notin R
  BY <1>1, WFMin
<1>4. \A y \in T : ~ (y < x)
  BY <1>2, <1>3
<1>5. QED
  BY <1>4

LEMMA JestNajwieksza ==
  ASSUME NEW n \in Nat, NEW T, T \subseteq 0 .. n, T # {}
  PROVE  \E x \in T : \A y \in T : x >= y
<1> DEFINE U == { u \in Nat : \A t \in T : t <= u }
<1>1. PICK z \in U : \A y \in U : z <= y
  <2>1. n \in U
    OBVIOUS
  <2>2. U \subseteq Nat
    OBVIOUS
  <2> HIDE DEF U
  <2>3. QED
    BY <2>1, <2>2, JestNajmniejsza
<1>2. z \in T
  <2> SUFFICES ASSUME z \notin T PROVE FALSE
    OBVIOUS
  <2>1. PICK t \in T : TRUE
    OBVIOUS
  <2>2. t <= z /\ t # z /\ t \in Nat /\ z \in Nat
    BY <2>1
  <2>3. z - 1 \in Nat /\ \A y \in T : y <= z - 1
    BY <2>2
  <2>4. z - 1 \in U
    BY <2>3
  <2>5. QED
    BY <1>1, <2>2, <2>4
<1>3. QED
  BY <1>2

-----------------------------------------------------------------------------
(* Rings.                                                                  *)

(* The slot k steps after slot i, and the steps from slot i to slot j.     *)
Przesun(i, k, n)   == (i + k) % n
Odleglosc(i, j, n) == (j + n - i) % n

(* The ring p holds the sequence s from slot h on.                         *)
Zawiera(p, h, n, s) == \A i \in 1 .. Len(s) : s[i] = p[Przesun(h, i - 1, n)]

LEMMA ResztaMala ==
  ASSUME NEW n \in Nat, n > 0, NEW a \in Nat, a < n
  PROVE  a % n = a
OBVIOUS

LEMMA ResztaRaz ==
  ASSUME NEW n \in Nat, n > 0, NEW a \in Nat, n <= a, a < 2 * n
  PROVE  a % n = a - n
OBVIOUS

(* Without the remainders.                                                 *)
LEMMA CoToPrzesun ==
  ASSUME NEW n \in Nat, n > 0, NEW i \in 0 .. n - 1, NEW k \in 0 .. n
  PROVE  /\ Przesun(i, k, n) = IF i + k < n THEN i + k ELSE i + k - n
         /\ Przesun(i, k, n) \in 0 .. n - 1
<1>1. CASE i + k < n
  BY <1>1, ResztaMala, i + k \in Nat DEF Przesun
<1>2. CASE n <= i + k
  BY <1>2, ResztaRaz, i + k \in Nat DEF Przesun
<1>3. QED
  BY <1>1, <1>2

LEMMA CoToOdleglosc ==
  ASSUME NEW n \in Nat, n > 0, NEW i \in 0 .. n - 1, NEW j \in 0 .. n - 1
  PROVE  /\ Odleglosc(i, j, n) = IF i <= j THEN j - i ELSE j + n - i
         /\ Odleglosc(i, j, n) \in 0 .. n - 1
<1>1. j + n - i \in Nat /\ j + n - i < 2 * n
  OBVIOUS
<1>2. CASE i <= j
  BY <1>1, <1>2, ResztaRaz DEF Odleglosc
<1>3. CASE j < i
  BY <1>1, <1>3, ResztaMala DEF Odleglosc
<1>4. QED
  BY <1>2, <1>3

(* A distance and a displacement undo each other.                          *)
LEMMA TamIZPowrotem ==
  ASSUME NEW n \in Nat, n > 0, NEW i \in 0 .. n - 1
  PROVE  /\ \A k \in 0 .. n - 1 : Odleglosc(i, Przesun(i, k, n), n) = k
         /\ \A j \in 0 .. n - 1 : Przesun(i, Odleglosc(i, j, n), n) = j
<1>1. ASSUME NEW k \in 0 .. n - 1 PROVE Odleglosc(i, Przesun(i, k, n), n) = k
  <2>1. Przesun(i, k, n) = IF i + k < n THEN i + k ELSE i + k - n
    BY CoToPrzesun
  <2>2. Przesun(i, k, n) \in 0 .. n - 1
    BY CoToPrzesun
  <2>3. Odleglosc(i, Przesun(i, k, n), n)
          = IF i <= Przesun(i, k, n) THEN Przesun(i, k, n) - i ELSE Przesun(i, k, n) + n - i
    BY <2>2, CoToOdleglosc
  <2>4. QED
    BY <2>1, <2>2, <2>3
<1>2. ASSUME NEW j \in 0 .. n - 1 PROVE Przesun(i, Odleglosc(i, j, n), n) = j
  <2>1. Odleglosc(i, j, n) = IF i <= j THEN j - i ELSE j + n - i
    BY CoToOdleglosc
  <2>2. Odleglosc(i, j, n) \in 0 .. n - 1
    BY CoToOdleglosc
  <2>3. Przesun(i, Odleglosc(i, j, n), n)
          = IF i + Odleglosc(i, j, n) < n THEN i + Odleglosc(i, j, n)
            ELSE i + Odleglosc(i, j, n) - n
    BY <2>2, CoToPrzesun, Odleglosc(i, j, n) \in 0 .. n
  <2>4. QED
    BY <2>1, <2>2, <2>3
<1>3. QED
  BY <1>1, <1>2

(* Different slots are at different distances.                             *)
LEMMA RozneOdleglosci ==
  ASSUME NEW n \in Nat, n > 0, NEW i \in 0 .. n - 1, NEW j \in 0 .. n - 1,
         NEW k \in 0 .. n - 1, Odleglosc(i, j, n) = Odleglosc(i, k, n)
  PROVE  j = k
BY TamIZPowrotem

(* One step of the head, and of the tail, of a ring.                       *)
LEMMA KrokOdleglosci ==
  ASSUME NEW n \in Nat, n > 0, NEW i \in 0 .. n - 1, NEW j \in 0 .. n - 1
  PROVE  /\ Przesun(j, 1, n) \in 0 .. n - 1
         /\ Odleglosc(i, Przesun(j, 1, n), n)
              = IF Odleglosc(i, j, n) = n - 1 THEN 0 ELSE Odleglosc(i, j, n) + 1
         /\ Odleglosc(Przesun(i, 1, n), j, n)
              = IF Odleglosc(i, j, n) = 0 THEN n - 1 ELSE Odleglosc(i, j, n) - 1
         /\ Odleglosc(i, j, n) = 0 <=> i = j
         /\ Przesun(j, 1, n) = i <=> Odleglosc(i, j, n) = n - 1
<1>1. Odleglosc(i, j, n) = IF i <= j THEN j - i ELSE j + n - i
  BY CoToOdleglosc
<1>2. /\ Przesun(j, 1, n) = IF j + 1 < n THEN j + 1 ELSE j + 1 - n
      /\ Przesun(j, 1, n) \in 0 .. n - 1
      /\ Przesun(i, 1, n) = IF i + 1 < n THEN i + 1 ELSE i + 1 - n
      /\ Przesun(i, 1, n) \in 0 .. n - 1
  BY CoToPrzesun, 1 \in 0 .. n
<1> DEFINE p == Przesun(j, 1, n)
           q == Przesun(i, 1, n)
<1>3. Odleglosc(i, p, n) = IF i <= p THEN p - i ELSE p + n - i
  BY <1>2, CoToOdleglosc
<1>4. Odleglosc(q, j, n) = IF q <= j THEN j - q ELSE j + n - q
  BY <1>2, CoToOdleglosc
<1>5. Odleglosc(i, p, n) = IF Odleglosc(i, j, n) = n - 1 THEN 0 ELSE Odleglosc(i, j, n) + 1
  <2>1. CASE i <= j
    BY <1>1, <1>2, <1>3, <2>1
  <2>2. CASE j < i
    BY <1>1, <1>2, <1>3, <2>2
  <2>3. QED
    BY <2>1, <2>2
<1>6. Odleglosc(q, j, n) = IF Odleglosc(i, j, n) = 0 THEN n - 1 ELSE Odleglosc(i, j, n) - 1
  <2>1. CASE i <= j
    BY <1>1, <1>2, <1>4, <2>1
  <2>2. CASE j < i
    BY <1>1, <1>2, <1>4, <2>2
  <2>3. QED
    BY <2>1, <2>2
<1>7. (Odleglosc(i, j, n) = 0 <=> i = j) /\ (p = i <=> Odleglosc(i, j, n) = n - 1)
  BY <1>1, <1>2
<1>8. QED
  BY <1>2, <1>5, <1>6, <1>7

(* k + 1 steps are k steps from the next slot.                             *)
LEMMA OdNastepnego ==
  ASSUME NEW n \in Nat, n > 0, NEW i \in 0 .. n - 1, NEW k \in 0 .. n - 1
  PROVE  Przesun(Przesun(i, 1, n), k, n) = Przesun(i, k + 1, n)
<1>1. /\ Przesun(i, 1, n) = IF i + 1 < n THEN i + 1 ELSE i + 1 - n
      /\ Przesun(i, 1, n) \in 0 .. n - 1
  BY CoToPrzesun, 1 \in 0 .. n
<1>2. Przesun(i, k + 1, n) = IF i + (k + 1) < n THEN i + (k + 1) ELSE i + (k + 1) - n
  BY CoToPrzesun, k + 1 \in 0 .. n
<1> DEFINE q == Przesun(i, 1, n)
<1>3. Przesun(q, k, n) = IF q + k < n THEN q + k ELSE q + k - n
  BY <1>1, CoToPrzesun, k \in 0 .. n
<1>4. QED
  BY <1>1, <1>2, <1>3

(* k steps of the head, and distances from another slot.                   *)
LEMMA WieleKrokow ==
  ASSUME NEW n \in Nat, n > 0, NEW i \in 0 .. n - 1, NEW j \in 0 .. n - 1,
         NEW k \in 0 .. n - 1, Odleglosc(i, j, n) + k < n
  PROVE  /\ Przesun(j, k, n) \in 0 .. n - 1
         /\ Odleglosc(i, Przesun(j, k, n), n) = Odleglosc(i, j, n) + k
<1>1. Odleglosc(i, j, n) = IF i <= j THEN j - i ELSE j + n - i
  BY CoToOdleglosc
<1>2. /\ Przesun(j, k, n) = IF j + k < n THEN j + k ELSE j + k - n
      /\ Przesun(j, k, n) \in 0 .. n - 1
  BY CoToPrzesun, k \in 0 .. n
<1> DEFINE p == Przesun(j, k, n)
<1>3. Odleglosc(i, p, n) = IF i <= p THEN p - i ELSE p + n - i
  BY <1>2, CoToOdleglosc
<1>4. CASE i <= j
  BY <1>1, <1>2, <1>3, <1>4
<1>5. CASE j < i
  BY <1>1, <1>2, <1>3, <1>5
<1>6. QED
  BY <1>4, <1>5

LEMMA RoznicaOdleglosci ==
  ASSUME NEW n \in Nat, n > 0, NEW i \in 0 .. n - 1, NEW j \in 0 .. n - 1,
         NEW k \in 0 .. n - 1
  PROVE  Odleglosc(j, k, n) = IF Odleglosc(i, j, n) <= Odleglosc(i, k, n)
                              THEN Odleglosc(i, k, n) - Odleglosc(i, j, n)
                              ELSE Odleglosc(i, k, n) - Odleglosc(i, j, n) + n
<1>1. /\ Odleglosc(i, j, n) = IF i <= j THEN j - i ELSE j + n - i
      /\ Odleglosc(i, k, n) = IF i <= k THEN k - i ELSE k + n - i
      /\ Odleglosc(j, k, n) = IF j <= k THEN k - j ELSE k + n - j
  BY CoToOdleglosc
<1>2. QED
  BY <1>1

-----------------------------------------------------------------------------
(* What is put into the slot after the last one is the end of the queue.   *)
LEMMA Dopisanie ==
  ASSUME NEW n \in Nat, n > 0, NEW h \in 0 .. n - 1, NEW S, NEW s \in Seq(S),
         Len(s) < n, NEW T, NEW p \in [0 .. n - 1 -> T], NEW x \in S, Zawiera(p, h, n, s)
  PROVE  Zawiera([p EXCEPT ![Przesun(h, Len(s), n)] = x], h, n, Append(s, x))
<1> DEFINE m == Len(s)
           t == Przesun(h, m, n)
           q == [p EXCEPT ![t] = x]
           u == Append(s, x)
<1>1. m \in Nat /\ m < n /\ Len(u) = m + 1 /\ u[m + 1] = x
  OBVIOUS
<1>2. \A i \in 1 .. m : u[i] = s[i]
  OBVIOUS
<1>3. t \in 0 .. n - 1 /\ t = IF h + m < n THEN h + m ELSE h + m - n
  BY <1>1, CoToPrzesun, m \in 0 .. n
<1>4. ASSUME NEW i \in 1 .. m + 1 PROVE u[i] = q[Przesun(h, i - 1, n)]
  <2>1. CASE i = m + 1
    BY <1>1, <1>3, <2>1
  <2>2. CASE i # m + 1
    <3>1. i \in 1 .. m /\ i - 1 \in 0 .. n
      BY <1>1, <2>2
    <3>2. /\ Przesun(h, i - 1, n) \in 0 .. n - 1
          /\ Przesun(h, i - 1, n) = IF h + (i - 1) < n THEN h + (i - 1) ELSE h + (i - 1) - n
      BY <3>1, CoToPrzesun
    <3>3. Przesun(h, i - 1, n) # t
      BY <1>1, <1>3, <3>1, <3>2
    <3>4. q[Przesun(h, i - 1, n)] = p[Przesun(h, i - 1, n)]
      BY <1>3, <3>2, <3>3
    <3>5. QED
      BY <1>2, <3>1, <3>4 DEF Zawiera
  <2>3. QED
    BY <2>1, <2>2
<1>5. QED
  BY <1>1, <1>4 DEF Zawiera

(* Without its first element the queue starts one slot later, whatever the *)
(* slot is given then.                                                     *)
LEMMA Zdjecie ==
  ASSUME NEW n \in Nat, n > 0, NEW h \in 0 .. n - 1, NEW S, NEW s \in Seq(S),
         s # <<>>, Len(s) <= n, NEW T, NEW p \in [0 .. n - 1 -> T], NEW x,
         Zawiera(p, h, n, s)
  PROVE  /\ Zawiera(p, Przesun(h, 1, n), n, Tail(s))
         /\ Zawiera([p EXCEPT ![h] = x], Przesun(h, 1, n), n, Tail(s))
<1> DEFINE m == Len(s)
           g == Przesun(h, 1, n)
           u == Tail(s)
<1>1. m \in Nat /\ m > 0 /\ m <= n /\ Len(u) = m - 1
  OBVIOUS
<1>2. \A i \in 1 .. m - 1 : u[i] = s[i + 1]
  OBVIOUS
<1>3. ASSUME NEW i \in 1 .. m - 1
      PROVE  /\ Przesun(g, i - 1, n) = Przesun(h, (i + 1) - 1, n)
             /\ Przesun(g, i - 1, n) \in 0 .. n - 1
             /\ Przesun(g, i - 1, n) # h
  <2>1. i - 1 \in 0 .. n - 1 /\ (i - 1) + 1 = (i + 1) - 1 /\ i \in 0 .. n - 1
    BY <1>1
  <2>2. Przesun(g, i - 1, n) = Przesun(h, (i - 1) + 1, n)
    BY <2>1, OdNastepnego
  <2>3. /\ Przesun(h, i, n) = IF h + i < n THEN h + i ELSE h + i - n
        /\ Przesun(h, i, n) \in 0 .. n - 1
    BY <2>1, CoToPrzesun
  <2>4. (i - 1) + 1 = i /\ (i + 1) - 1 = i
    OBVIOUS
  <2>5. QED
    BY <2>1, <2>2, <2>3, <2>4
<1>4. \A i \in 1 .. m - 1 : u[i] = p[Przesun(g, i - 1, n)]
  BY <1>1, <1>2, <1>3 DEF Zawiera
<1>5. \A i \in 1 .. m - 1 : u[i] = [p EXCEPT ![h] = x][Przesun(g, i - 1, n)]
  BY <1>3, <1>4
<1>6. QED
  BY <1>1, <1>4, <1>5 DEF Zawiera

-----------------------------------------------------------------------------
(* The slots nearer than m are the first m ones.                           *)
LEMMA WZasiegu ==
  ASSUME NEW n \in Nat, n > 0, NEW h \in 0 .. n - 1, NEW m \in 0 .. n, NEW d \in 0 .. n - 1
  PROVE  Odleglosc(h, d, n) < m <=> \E i \in 1 .. m : (h + i - 1) % n = d
<1>1. \A i \in 1 .. m : (h + i - 1) % n = Przesun(h, i - 1, n) /\ i - 1 \in 0 .. n - 1
  <2> SUFFICES ASSUME NEW i \in 1 .. m
               PROVE  (h + i - 1) % n = Przesun(h, i - 1, n) /\ i - 1 \in 0 .. n - 1
    OBVIOUS
  <2>1. h + i - 1 = h + (i - 1)
    OBVIOUS
  <2>2. QED
    BY <2>1 DEF Przesun
<1>2. ASSUME Odleglosc(h, d, n) < m PROVE \E i \in 1 .. m : (h + i - 1) % n = d
  <2> DEFINE o == Odleglosc(h, d, n)
  <2>1. o \in 0 .. n - 1 /\ Przesun(h, o, n) = d
    BY CoToOdleglosc, TamIZPowrotem
  <2>2. o + 1 \in 1 .. m /\ (o + 1) - 1 = o
    BY <1>2, <2>1
  <2>3. (h + (o + 1) - 1) % n = d
    BY <1>1, <2>1, <2>2
  <2>4. QED
    BY <2>2, <2>3
<1>3. ASSUME NEW i \in 1 .. m, (h + i - 1) % n = d PROVE Odleglosc(h, d, n) < m
  <2>1. Odleglosc(h, d, n) = i - 1
    BY <1>1, <1>3, TamIZPowrotem
  <2>2. QED
    BY <2>1
<1>4. QED
  BY <1>2, <1>3

(* A ring that holds a sequence, as a function.                            *)
LEMMA ZawieraRowne ==
  ASSUME NEW n \in Nat, n > 0, NEW h \in 0 .. n - 1, NEW S, NEW s \in Seq(S), NEW p,
         Zawiera(p, h, n, s)
  PROVE  s = [i \in 1 .. Len(s) |-> p[(h + i - 1) % n]]
<1>1. ASSUME NEW i \in 1 .. Len(s) PROVE s[i] = p[(h + i - 1) % n]
  <2>1. h + i - 1 = h + (i - 1)
    OBVIOUS
  <2>2. QED
    BY <2>1 DEF Zawiera, Przesun
<1>2. QED
  BY <1>1
=============================================================================
