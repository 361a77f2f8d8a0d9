----------------------------- MODULE TcpDowody -----------------------------
(***************************************************************************)
(* Proofs about the TCP connection, for answers, segments and buffers of   *)
(* any size and any number of connections, over a network that loses,      *)
(* repeats and reorders.                                                   *)
(*                                                                         *)
(* The server's stream has places 0 (SYN), 1 .. DlugoscOdpowiedzi (bytes)  *)
(* and MiejsceFin.  The invariant says which place k the acknowledgement   *)
(* number names, and that exactly the bytes before it have been taken: to  *)
(* the caller, the socket's buffer or the buffer of the download.  Nothing *)
(* is assumed of when the server sends, only of what.                      *)
(***************************************************************************)
EXTENDS Tcp, Lematy

N == DlugoscOdpowiedzi
Bajty == Nat \X Nat

(* The sequence s holds bytes of connection p, from place od + 1 on.       *)
Kolejne(s, p, od) == s \in Seq(Bajty) /\ \A i \in 1 .. Len(s) : s[i] = <<p, od + i>>

(* A segment of the server, at place i of its stream.                      *)
SegmentNa(s, i) ==
  /\ s.seq = Plus(IsnSerwera, i)
  /\ i = 0 => s.dane = <<>> /\ "FIN" \notin s.flagi
  /\ i > 0 => /\ Kolejne(s.dane, s.port, i - 1) /\ i + Len(s.dane) <= MiejsceFin
              /\ "SYN" \notin s.flagi
              /\ "FIN" \in s.flagi => i + Len(s.dane) = MiejsceFin

SiecInw == \A s \in siec : "RST" \notin s.flagi => \E i \in 0 .. MiejsceFin : SegmentNa(s, i)

(* The bytes before place k: all of them when the FIN was taken.           *)
Bajtow(k) == IF k = MiejsceFin + 1 THEN N ELSE k - 1

(* What was taken of the stream and what was acknowledged, when the next   *)
(* place is k; b, o, z and u are the socket's buffer and its beginning,    *)
(* the buffer of the download and its flag of overflow.                    *)
WGniezdzie(b, o, k) ==
  /\ Kolejne(odczytane, tcp_nasz_port, 0)
  /\ b \in Seq(Bajty) /\ o \in 0 .. Len(b)
  /\ \A i \in 1 .. Len(b) - o : b[o + i] = <<tcp_nasz_port, Len(odczytane) + i>>
  /\ Len(odczytane) + Len(b) - o = Bajtow(k)

WPobranym(z, u, k) ==
  /\ z \in Seq(Bajty) /\ Len(z) <= tcp_max_bajtow /\ u \in BOOLEAN
  /\ ~u => Kolejne(z, tcp_nasz_port, 0) /\ Len(z) = Bajtow(k)

Pobrane(b, o, z, u, k) ==
  IF tcp_tryb_gniazda THEN WGniezdzie(b, o, k) ELSE WPobranym(z, u, k)

Polaczenie(k) ==
  /\ tcp_nasz_ack = Plus(IsnSerwera, k)
  /\ Pobrane(bufor, poczatek, zapisano, przepelnienie, k)
  /\ \A m \in doSerwera : m[1] # "SYN" => \E q \in 0 .. k : m[2] = Plus(IsnSerwera, q)
  /\ k = MiejsceFin + 1 => stan_tcp = "ZAMKNIETY"
  /\ stan_tcp = "ZAMKNIETY" => k = MiejsceFin + 1 \/ tcp_rst_odebrany

(* The handshake is over; an HTTP download has no socket.                  *)
Trwa == \/ faza \in {"otwarta", "zamykanie", "zadanie", "http"}
        \/ faza = "laczenie" /\ stan_tcp = "USTANOWIONY"

Rozpoczete ==
  faza = "laczenie" /\ stan_tcp = "SYN_WYSLANY" =>
    /\ odczytane = <<>> /\ bufor = <<>> /\ poczatek = 0 /\ zapisano = <<>>
    /\ ~przepelnienie /\ ~tcp_rst_odebrany
    /\ \A m \in doSerwera : m[1] = "SYN"

Fazy ==
  /\ tcp_nasz_port \in Nat /\ tcp_max_bajtow \in Nat
  /\ tcp_tryb_gniazda \in BOOLEAN /\ przepelnienie \in BOOLEAN
  /\ tcp_rst_odebrany \in BOOLEAN /\ eof \in BOOLEAN
  /\ faza = "laczenie" => stan_tcp # "FIN_WYSLANY"
  /\ faza = "otwarta" => tcp_tryb_gniazda
  /\ faza \in {"zadanie", "http"} => ~tcp_tryb_gniazda
  /\ faza \in {"otwarta", "zamykanie", "zadanie", "http"} => stan_tcp # "SYN_WYSLANY"

Inw ==
  /\ Fazy /\ SiecInw /\ Rozpoczete
  /\ Trwa => \E k \in 1 .. MiejsceFin + 1 : Polaczenie(k)
  /\ HttpSukcesToCalosc

-----------------------------------------------------------------------------
(* Sequence numbers, which go round.                                       *)

LEMMA CoToPlus ==
  ASSUME NEW a \in 0 .. ModSeq - 1, NEW k \in 0 .. ModSeq - 1
  PROVE  /\ Plus(a, k) = IF a + k < ModSeq THEN a + k ELSE a + k - ModSeq
         /\ Plus(a, k) \in 0 .. ModSeq - 1
<1>1. ModSeq \in Nat /\ ModSeq > 0 /\ a + k \in Nat /\ a + k < 2 * ModSeq
  BY TcpZalozenia
<1>2. CASE a + k < ModSeq
  BY <1>1, <1>2, ResztaMala DEF Plus
<1>3. CASE a + k >= ModSeq
  BY <1>1, <1>3, ResztaRaz DEF Plus
<1>4. QED
  BY <1>1, <1>2, <1>3

LEMMA Miejsca ==
  /\ N \in Nat /\ MiejsceFin = N + 1 /\ ModSeq \in Nat /\ N + 2 < ModSeq
  /\ 0 .. MiejsceFin + 1 \subseteq 0 .. ModSeq - 1
  /\ IsnSerwera \in 0 .. ModSeq - 1
BY TcpZalozenia DEF N, MiejsceFin

(* Different places of the stream have different numbers.                  *)
LEMMA RozneNumery ==
  ASSUME NEW i \in 0 .. MiejsceFin + 1, NEW j \in 0 .. MiejsceFin + 1,
         Plus(IsnSerwera, i) = Plus(IsnSerwera, j)
  PROVE  i = j
<1> DEFINE Nr(k) == IF IsnSerwera + k < ModSeq THEN IsnSerwera + k ELSE IsnSerwera + k - ModSeq
<1>1. /\ ModSeq \in Nat /\ IsnSerwera \in 0 .. ModSeq - 1
      /\ i \in 0 .. ModSeq - 1 /\ j \in 0 .. ModSeq - 1
  BY Miejsca
<1>2. Plus(IsnSerwera, i) = Nr(i) /\ Plus(IsnSerwera, j) = Nr(j)
  BY <1>1, CoToPlus
<1>3. Nr(i) = Nr(j)
  BY <1>2
<1>4. QED
  BY ONLY <1>1, <1>3

LEMMA DalszyNumer ==
  ASSUME NEW i \in 0 .. MiejsceFin + 1, NEW n \in Nat, i + n <= MiejsceFin + 1
  PROVE  Plus(Plus(IsnSerwera, i), n) = Plus(IsnSerwera, i + n)
<1> DEFINE a == Plus(IsnSerwera, i)
<1>1. /\ a = IF IsnSerwera + i < ModSeq THEN IsnSerwera + i ELSE IsnSerwera + i - ModSeq
      /\ a \in 0 .. ModSeq - 1
  BY CoToPlus, Miejsca
<1>2. n \in 0 .. ModSeq - 1 /\ i + n \in 0 .. ModSeq - 1
  BY Miejsca
<1>3. Plus(a, n) = IF a + n < ModSeq THEN a + n ELSE a + n - ModSeq
  <2> HIDE DEF a
  <2>1. QED
    BY <1>1, <1>2, CoToPlus
<1>4. Plus(IsnSerwera, i + n)
        = IF IsnSerwera + (i + n) < ModSeq THEN IsnSerwera + (i + n)
          ELSE IsnSerwera + (i + n) - ModSeq
  BY <1>2, CoToPlus, Miejsca
<1> HIDE DEF a
<1>5. Plus(a, n) = Plus(IsnSerwera, i + n)
  BY <1>1, <1>2, <1>3, <1>4, Miejsca
<1>6. QED
  BY <1>5 DEF a

LEMMA MiejsceNumeru ==
  ASSUME NEW i \in 0 .. MiejsceFin + 1
  PROVE  Miejsce(Plus(IsnSerwera, i)) = i
<1> DEFINE m == CHOOSE k \in 0 .. MiejsceFin + 1 : Plus(IsnSerwera, k) = Plus(IsnSerwera, i)
<1>1. m \in 0 .. MiejsceFin + 1 /\ Plus(IsnSerwera, m) = Plus(IsnSerwera, i)
  OBVIOUS
<1>2. m = i
  <2> HIDE DEF m
  <2>1. QED
    BY <1>1, RozneNumery
<1>3. QED
  BY <1>2 DEF Miejsce

-----------------------------------------------------------------------------
(* What the server sends.                                                  *)

LEMMA OdpowiedzKolejna ==
  ASSUME NEW p \in Nat
  PROVE  Kolejne(Odpowiedz(p), p, 0) /\ Len(Odpowiedz(p)) = N
<1>1. Odpowiedz(p) \in [1 .. N -> Bajty] /\ N \in Nat
  BY Miejsca DEF Odpowiedz, Bajty, N
<1>2. Odpowiedz(p) \in Seq(Bajty) /\ Len(Odpowiedz(p)) = N
  BY <1>1
<1>3. \A i \in 1 .. N : Odpowiedz(p)[i] = <<p, i>>
  BY DEF Odpowiedz, N
<1>4. QED
  BY <1>2, <1>3 DEF Kolejne

(* Consecutive bytes of the same length are the same sequence.             *)
LEMMA KolejneRowne ==
  ASSUME NEW p, NEW s, NEW t, NEW od, Kolejne(s, p, od), Kolejne(t, p, od),
         Len(s) = Len(t)
  PROVE  s = t
<1>1. s \in Seq(Bajty) /\ t \in Seq(Bajty) /\ \A i \in 1 .. Len(s) : s[i] = t[i]
  BY DEF Kolejne
<1>2. QED
  BY <1>1

LEMMA KawalekOdpowiedzi ==
  ASSUME NEW p \in Nat, NEW i \in 1 .. MiejsceFin, NEW j \in 0 .. N, i <= j + 1
  PROVE  /\ Kolejne(SubSeq(Odpowiedz(p), i, j), p, i - 1)
         /\ Len(SubSeq(Odpowiedz(p), i, j)) = j + 1 - i
<1> DEFINE o == Odpowiedz(p)
           s == SubSeq(o, i, j)
<1>1. o \in Seq(Bajty) /\ Len(o) = N /\ N \in Nat
  BY OdpowiedzKolejna, Miejsca DEF Kolejne
<1>2. \A q \in 1 .. N : o[q] = <<p, 0 + q>>
  BY <1>1, OdpowiedzKolejna DEF Kolejne
<1> HIDE DEF o
<1>3. i \in Int /\ j \in Int
  OBVIOUS
<1>4. s \in Seq(Bajty) /\ Len(s) = j + 1 - i /\ \A q \in 1 .. Len(s) : s[q] = o[i + q - 1]
  BY <1>1, <1>3
<1> HIDE DEF s
<1>5. ASSUME NEW q \in 1 .. Len(s) PROVE s[q] = <<p, (i - 1) + q>>
  <2>1. i + q - 1 \in 1 .. N /\ 0 + (i + q - 1) = (i - 1) + q
    BY <1>1, <1>3, <1>4
  <2>2. QED
    BY <1>2, <1>4, <2>1
<1>6. QED
  BY <1>4, <1>5 DEF Kolejne, s, o

(* A new segment of the network.                                           *)
LEMMA SiecDane ==
  ASSUME SiecInw, tcp_nasz_port \in Nat, NEW i \in 1 .. MiejsceFin, NEW j \in 0 .. N,
         NEW fin \in BOOLEAN, SerwerDane(i, j, fin)
  PROVE  SiecInw'
<1> DEFINE d == SubSeq(Odpowiedz(tcp_nasz_port), i, j)
           f == {"ACK"} \cup (IF fin THEN {"FIN"} ELSE {})
           s == [port |-> tcp_nasz_port, seq |-> Plus(IsnSerwera, i), ack |-> 0,
                 flagi |-> f, dane |-> d]
<1>1. siec' = siec \cup {s} /\ (fin => j = N) /\ (fin \/ i <= j)
  BY DEF SerwerDane, Nadaj, Segment, N
<1>2. i <= j + 1
  BY <1>1, Miejsca
<1>3. Kolejne(d, tcp_nasz_port, i - 1) /\ Len(d) = j + 1 - i
  BY <1>2, KawalekOdpowiedzi
<1>4. /\ s.seq = Plus(IsnSerwera, i) /\ s.dane = d /\ s.port = tcp_nasz_port
      /\ s.flagi = f /\ "SYN" \notin f /\ ("FIN" \in f => fin)
  OBVIOUS
<1> HIDE DEF d, f, s
<1>5. i + Len(d) <= MiejsceFin /\ (fin => i + Len(d) = MiejsceFin) /\ i # 0
  BY <1>1, <1>3, Miejsca
<1>6. SegmentNa(s, i)
  BY <1>3, <1>4, <1>5 DEF SegmentNa
<1>7. i \in 0 .. MiejsceFin
  OBVIOUS
<1>8. QED
  BY <1>1, <1>6, <1>7 DEF SiecInw, SegmentNa

LEMMA SiecInne ==
  ASSUME SiecInw, SerwerSynAck \/ SerwerRst \/ (\E s \in siec : Zgub(s)) \/ UNCHANGED siec
  PROVE  SiecInw'
<1>1. CASE SerwerSynAck
  <2> DEFINE s == Segment(IsnSerwera, Plus(IsnKlienta, tcp_nasz_port), {"SYN", "ACK"}, <<>>)
  <2>1. siec' = siec \cup {s}
    BY <1>1 DEF SerwerSynAck, Nadaj
  <2>2. s.seq = IsnSerwera /\ s.dane = <<>> /\ s.flagi = {"SYN", "ACK"}
    BY DEF Segment
  <2>3. Plus(IsnSerwera, 0) = IsnSerwera
    BY CoToPlus, Miejsca
  <2> HIDE DEF s
  <2>4. SegmentNa(s, 0) /\ 0 \in 0 .. MiejsceFin
    BY <2>2, <2>3, Miejsca DEF SegmentNa
  <2>5. QED
    BY <2>1, <2>4 DEF SiecInw, SegmentNa
<1>2. CASE SerwerRst
  <2>1. siec' = siec \cup {Segment(0, 0, {"RST"}, <<>>)} /\ Segment(0, 0, {"RST"}, <<>>).flagi = {"RST"}
    BY <1>2 DEF SerwerRst, Nadaj, Segment
  <2>2. QED
    BY <2>1 DEF SiecInw, SegmentNa
<1>3. CASE (\E s \in siec : Zgub(s)) \/ UNCHANGED siec
  BY <1>3 DEF Zgub, SiecInw, SegmentNa
<1>4. QED
  BY <1>1, <1>2, <1>3

-----------------------------------------------------------------------------
(* A connection that goes on.                                              *)

LEMMA CoWysyla ==
  ASSUME NEW typ, NEW ack, Wyslij(typ, ack) \/ WyslijZBledem(typ, ack)
  PROVE  \A m \in doSerwera' : m \in doSerwera \/ m[2] = ack
BY DEF Wyslij, WyslijZBledem

(* Nothing is taken; what is sent carries the current number.              *)
LEMMA PolaczenieZostaje ==
  ASSUME NEW k \in 1 .. MiejsceFin + 1, Polaczenie(k),
         UNCHANGED <<odbior, odczytane, tcp_nasz_port, tcp_tryb_gniazda, tcp_max_bajtow>>,
         stan_tcp' = "ZAMKNIETY" => stan_tcp = "ZAMKNIETY" \/ tcp_rst_odebrany',
         stan_tcp = "ZAMKNIETY" => stan_tcp' = "ZAMKNIETY",
         tcp_rst_odebrany => tcp_rst_odebrany',
         \A m \in doSerwera' : m \in doSerwera \/ m[2] = tcp_nasz_ack
  PROVE  Polaczenie(k)'
<1>1. tcp_nasz_ack' = Plus(IsnSerwera, k)
  BY DEF Polaczenie, odbior
<1>2. Pobrane(bufor, poczatek, zapisano, przepelnienie, k)'
  BY DEF Polaczenie, Pobrane, odbior, WGniezdzie, WPobranym, Kolejne
<1>3. \A m \in doSerwera' : m[1] # "SYN" => \E q \in 0 .. k : m[2] = Plus(IsnSerwera, q)
  <2>1. k \in 0 .. k
    OBVIOUS
  <2>2. QED
    BY <2>1 DEF Polaczenie
<1>4. QED
  BY <1>1, <1>2, <1>3 DEF Polaczenie

(* The states in which no connection was made yet or none is left.         *)
LEMMA PozaPolaczeniem ==
  ASSUME Fazy', SiecInw', ~Trwa', ~(faza' = "laczenie" /\ stan_tcp' = "SYN_WYSLANY"),
         HttpSukcesToCalosc'
  PROVE  Inw'
BY DEF Inw, Rozpoczete

LEMMA InwPoczatek == Init => Inw
<1> SUFFICES ASSUME Init PROVE Inw
  OBVIOUS
<1>1. Fazy /\ SiecInw /\ ~Trwa /\ Rozpoczete /\ HttpSukcesToCalosc
  BY DEF Init, Fazy, SiecInw, Trwa, Rozpoczete, HttpSukcesToCalosc
<1>2. QED
  BY <1>1 DEF Inw

(* The end of a call that gives the connection up.                         *)
LEMMA PoZakonczeniu ==
  ASSUME Inw, NEW odp, Zakoncz(odp), UNCHANGED siec,
         odp = "sukces" => zapisano = Odpowiedz(tcp_nasz_port)
  PROVE  Inw'
<1>1. Fazy' /\ ~Trwa' /\ faza' = "wolna"
  BY DEF Inw, Fazy, Trwa, Zakoncz, tcp_resetuj_sesje, historia
<1>2. SiecInw'
  BY SiecInne DEF Inw
<1>3. HttpSukcesToCalosc'
  BY DEF Zakoncz, tcp_resetuj_sesje, HttpSukcesToCalosc
<1>4. QED
  BY <1>1, <1>2, <1>3, PozaPolaczeniem

(* A step of a connection that goes on.                                    *)
LEMMA PoKroku ==
  ASSUME Fazy', SiecInw', faza' # "wolna", stan_tcp' # "SYN_WYSLANY",
         NEW k \in 1 .. MiejsceFin + 1, Polaczenie(k)'
  PROVE  Inw'
BY DEF Inw, Rozpoczete, HttpSukcesToCalosc

-----------------------------------------------------------------------------
(* The payload of a segment.                                               *)

(* The buffer of a socket after tcp_gniazdo_kompaktuj.                     *)
LEMMA PoPrzesunieciu ==
  ASSUME NEW b, NEW o, NEW k, WGniezdzie(b, o, k)
  PROVE  WGniezdzie(SubSeq(b, o + 1, Len(b)), 0, k)
<1> DEFINE c == SubSeq(b, o + 1, Len(b))
<1>1. b \in Seq(Bajty) /\ o \in 0 .. Len(b) /\ Len(b) \in Nat /\ o \in Int
  BY DEF WGniezdzie
<1>2. c \in Seq(Bajty) /\ Len(c) = Len(b) - o /\ \A i \in 1 .. Len(c) : c[i] = b[o + i]
  BY <1>1
<1> HIDE DEF c
<1>3. \A i \in 1 .. Len(c) - 0 : c[0 + i] = <<tcp_nasz_port, Len(odczytane) + i>>
  BY <1>1, <1>2 DEF WGniezdzie
<1>4. Len(odczytane) + Len(c) - 0 = Bajtow(k)
  BY <1>1, <1>2 DEF WGniezdzie, Kolejne
<1>5. 0 \in 0 .. Len(c)
  BY <1>2
<1>6. WGniezdzie(c, 0, k)
  BY <1>2, <1>3, <1>4, <1>5 DEF WGniezdzie
<1>7. QED
  BY <1>6 DEF c

(* The next bytes are put behind the ones in the buffer.                   *)
LEMMA PoDopisaniu ==
  ASSUME tcp_nasz_port \in Nat, NEW k \in 1 .. MiejsceFin, NEW b, NEW o, WGniezdzie(b, o, k),
         NEW d, Kolejne(d, tcp_nasz_port, k - 1), k + Len(d) <= MiejsceFin
  PROVE  WGniezdzie(b \o d, o, k + Len(d))
<1>1. /\ b \in Seq(Bajty) /\ o \in 0 .. Len(b) /\ Len(b) \in Nat /\ o \in Int
      /\ d \in Seq(Bajty) /\ Len(d) \in Nat /\ Len(odczytane) \in Nat
  BY DEF WGniezdzie, Kolejne
<1>2. /\ b \o d \in Seq(Bajty) /\ Len(b \o d) = Len(b) + Len(d)
      /\ \A i \in 1 .. Len(b) : (b \o d)[i] = b[i]
      /\ \A i \in 1 .. Len(d) : (b \o d)[Len(b) + i] = d[i]
  BY <1>1
<1>3. Len(odczytane) + Len(b) - o = k - 1 /\ Bajtow(k + Len(d)) = k + Len(d) - 1
  <2>1. k # MiejsceFin + 1 /\ k + Len(d) # MiejsceFin + 1
    BY <1>1, Miejsca
  <2>2. Bajtow(k) = k - 1 /\ Bajtow(k + Len(d)) = k + Len(d) - 1
    BY <2>1 DEF Bajtow
  <2>3. Len(odczytane) + Len(b) - o = Bajtow(k)
    BY DEF WGniezdzie
  <2>4. QED
    BY <2>2, <2>3
<1>4. ASSUME NEW i \in 1 .. Len(b \o d) - o
      PROVE  (b \o d)[o + i] = <<tcp_nasz_port, Len(odczytane) + i>>
  <2>1. CASE o + i <= Len(b)
    <3>1. o + i \in 1 .. Len(b) /\ i \in 1 .. Len(b) - o
      BY <1>1, <1>2, <2>1
    <3>2. QED
      BY <1>2, <3>1 DEF WGniezdzie
  <2>2. CASE o + i > Len(b)
    <3> DEFINE j == o + i - Len(b)
    <3>1. j \in 1 .. Len(d) /\ Len(b) + j = o + i /\ (k - 1) + j = Len(odczytane) + i
      BY <1>1, <1>2, <1>3, <2>2
    <3>2. (b \o d)[Len(b) + j] = d[j] /\ d[j] = <<tcp_nasz_port, (k - 1) + j>>
      BY <1>2, <3>1 DEF Kolejne
    <3>3. QED
      BY <3>1, <3>2
  <2>3. QED
    BY <1>1, <2>1, <2>2
<1>5. o \in 0 .. Len(b \o d) /\ Len(odczytane) + Len(b \o d) - o = Bajtow(k + Len(d))
  BY <1>1, <1>2, <1>3
<1>6. QED
  BY <1>2, <1>4, <1>5 DEF WGniezdzie

LEMMA PoPobraniu ==
  ASSUME tcp_nasz_port \in Nat, tcp_max_bajtow \in Nat, NEW k \in 1 .. MiejsceFin, NEW z, NEW u,
         WPobranym(z, u, k), NEW d, Kolejne(d, tcp_nasz_port, k - 1),
         k + Len(d) <= MiejsceFin,
         NEW m, m = Min2(Len(d), tcp_max_bajtow - Len(z))
  PROVE  WPobranym(z \o SubSeq(d, 1, m), u \/ m # Len(d), k + Len(d))
<1> DEFINE e == SubSeq(d, 1, m)
<1>1. /\ z \in Seq(Bajty) /\ Len(z) \in Nat /\ Len(z) <= tcp_max_bajtow /\ u \in BOOLEAN
      /\ d \in Seq(Bajty) /\ Len(d) \in Nat
  BY DEF WPobranym, Kolejne
<1>2. m \in 0 .. Len(d) /\ Len(z) + m <= tcp_max_bajtow
  BY <1>1 DEF Min2
<1>3. /\ e \in Seq(Bajty) /\ Len(e) = m
  BY <1>1, <1>2
<1>4. z \o e \in Seq(Bajty) /\ Len(z \o e) <= tcp_max_bajtow
  <2> HIDE DEF e
  <2>1. QED
    BY <1>1, <1>2, <1>3
<1>5. ASSUME ~u, m = Len(d)
      PROVE  Kolejne(z \o e, tcp_nasz_port, 0) /\ Len(z \o e) = Bajtow(k + Len(d))
  <2>1. e = d
    BY <1>1, <1>5
  <2>2. /\ Len(z) = k - 1 /\ Bajtow(k + Len(d)) = k + Len(d) - 1
        /\ Kolejne(z, tcp_nasz_port, 0)
    BY <1>1, <1>5, Miejsca DEF WPobranym, Bajtow
  <2>3. /\ z \o d \in Seq(Bajty) /\ Len(z \o d) = Len(z) + Len(d)
        /\ \A i \in 1 .. Len(z \o d) : (z \o d)[i] = IF i <= Len(z) THEN z[i] ELSE d[i - Len(z)]
    BY <1>1
  <2>4. ASSUME NEW i \in 1 .. Len(z \o d)
        PROVE  (z \o d)[i] = <<tcp_nasz_port, 0 + i>>
    <3>1. CASE i <= Len(z)
      BY <1>1, <2>2, <2>3, <3>1 DEF Kolejne
    <3>2. CASE i > Len(z)
      <4>1. i - Len(z) \in 1 .. Len(d) /\ (k - 1) + (i - Len(z)) = 0 + i
        BY <1>1, <2>2, <2>3, <3>2
      <4>2. (z \o d)[i] = d[i - Len(z)]
        <5>1. ~ (i <= Len(z))
          BY <1>1, <2>3, <3>2
        <5>2. QED
          BY <2>3, <5>1
      <4>3. PICK j \in 1 .. Len(d) : j = i - Len(z)
        BY <4>1
      <4>4. d[j] = <<tcp_nasz_port, (k - 1) + j>>
        BY DEF Kolejne
      <4>5. QED
        BY <4>1, <4>2, <4>3, <4>4
    <3>3. QED
      BY <1>1, <3>1, <3>2
  <2>5. Kolejne(z \o d, tcp_nasz_port, 0)
    BY <2>3, <2>4 DEF Kolejne
  <2>6. Len(z \o d) = Bajtow(k + Len(d))
    BY <1>1, <2>2, <2>3
  <2> HIDE DEF e
  <2>7. QED
    BY <2>1, <2>5, <2>6
<1>6. QED
  BY <1>1, <1>4, <1>5 DEF WPobranym

(* tcp_przyjmij_payload: the place moves on by what was taken, and only a  *)
(* segment at the current place is taken.                                  *)
LEMMA PoPayloadzie ==
  ASSUME Fazy, NEW k \in 1 .. MiejsceFin, Polaczenie(k), NEW s, NEW i \in 0 .. MiejsceFin,
         SegmentNa(s, i), s.port = tcp_nasz_port
  PROVE  LET o == tcp_przyjmij_payload(s)
         IN  \E q \in k .. MiejsceFin :
               /\ o.ack = Plus(IsnSerwera, q)
               /\ Pobrane(o.bufor, o.poczatek, o.zapisano, o.przepelnienie, q)
               /\ o.potw \subseteq {Plus(IsnSerwera, q)}
<1> DEFINE o == tcp_przyjmij_payload(s)
           d == s.dane
           Dobry(q) == /\ o.ack = Plus(IsnSerwera, q)
                       /\ Pobrane(o.bufor, o.poczatek, o.zapisano, o.przepelnienie, q)
                       /\ o.potw \subseteq {Plus(IsnSerwera, q)}
<1>1. tcp_nasz_ack = Plus(IsnSerwera, k) /\ k \in k .. MiejsceFin
  BY DEF Polaczenie
<1>2. CASE d = <<>> \/ s.seq # tcp_nasz_ack
  <2>1. /\ o.ack = tcp_nasz_ack /\ o.bufor = bufor /\ o.poczatek = poczatek
        /\ o.zapisano = zapisano /\ o.przepelnienie = przepelnienie
        /\ o.potw \subseteq {tcp_nasz_ack}
    BY <1>2 DEF tcp_przyjmij_payload, Odbior
  <2>2. Dobry(k)
    BY <1>1, <2>1 DEF Polaczenie
  <2>3. QED
    BY <1>1, <2>2
<1>3. CASE d # <<>> /\ s.seq = tcp_nasz_ack
  <2>1. i = k
    <3>1. i \in 0 .. MiejsceFin + 1 /\ k \in 0 .. MiejsceFin + 1
      BY Miejsca
    <3>2. Plus(IsnSerwera, i) = Plus(IsnSerwera, k)
      BY <1>1, <1>3 DEF SegmentNa
    <3>3. QED
      BY <3>1, <3>2, RozneNumery
  <2>2. /\ Kolejne(d, tcp_nasz_port, k - 1) /\ k + Len(d) <= MiejsceFin
        /\ Len(d) \in Nat /\ k + Len(d) \in k .. MiejsceFin
    <3>1. Kolejne(d, tcp_nasz_port, k - 1) /\ k + Len(d) <= MiejsceFin
      BY <2>1, Miejsca DEF SegmentNa
    <3>2. Len(d) \in Nat
      BY <3>1 DEF Kolejne
    <3>3. QED
      BY <3>1, <3>2, Miejsca
  <2>3. Plus(tcp_nasz_ack, Len(d)) = Plus(IsnSerwera, k + Len(d))
    <3>1. k \in 0 .. MiejsceFin + 1 /\ k + Len(d) <= MiejsceFin + 1
      BY <2>2, Miejsca
    <3>2. QED
      BY <1>1, <2>2, <3>1, DalszyNumer
  <2>4. CASE tcp_tryb_gniazda
    <3> DEFINE m == tcp_gniazdo_ma_miejsce(Len(d))
    <3>1. WGniezdzie(bufor, poczatek, k)
      BY <2>4 DEF Polaczenie, Pobrane
    <3>2. /\ WGniezdzie(m.bufor, m.poczatek, k) /\ m.potw = {} /\ m.ack = tcp_nasz_ack
          /\ m = [ack |-> m.ack, bufor |-> m.bufor, poczatek |-> m.poczatek,
                  zapisano |-> m.zapisano, przepelnienie |-> m.przepelnienie, potw |-> m.potw]
      BY <3>1, PoPrzesunieciu DEF tcp_gniazdo_ma_miejsce, Odbior
    <3> HIDE DEF m
    <3>3. CASE Len(m.bufor) + Len(d) <= TCP_BUFOR_GNIAZDA
      <4>1. o = [m EXCEPT !.bufor = @ \o d, !.ack = Plus(tcp_nasz_ack, Len(d)),
                          !.potw = {Plus(tcp_nasz_ack, Len(d))}]
        BY <1>3, <2>4, <3>3 DEF tcp_przyjmij_payload, DoGniazda, m
      <4>2. /\ o.ack = Plus(IsnSerwera, k + Len(d)) /\ o.potw = {Plus(IsnSerwera, k + Len(d))}
            /\ o.bufor = m.bufor \o d /\ o.poczatek = m.poczatek
        <5> HIDE DEF o
        <5>1. QED
          BY <2>3, <3>2, <4>1
      <4>3. WGniezdzie(m.bufor \o d, m.poczatek, k + Len(d))
        BY <2>2, <3>2, PoDopisaniu DEF Fazy
      <4> HIDE DEF o
      <4>4. Dobry(k + Len(d))
        BY <2>4, <4>2, <4>3 DEF Pobrane
      <4>5. QED
        BY <2>2, <4>4 DEF o
    <3>4. CASE ~(Len(m.bufor) + Len(d) <= TCP_BUFOR_GNIAZDA)
      <4>1. o = [m EXCEPT !.potw = {tcp_nasz_ack}]
        BY <1>3, <2>4, <3>4 DEF tcp_przyjmij_payload, DoGniazda, m
      <4>2. /\ o.ack = tcp_nasz_ack /\ o.potw = {tcp_nasz_ack}
            /\ o.bufor = m.bufor /\ o.poczatek = m.poczatek
        <5> HIDE DEF o
        <5>1. QED
          BY <3>2, <4>1
      <4> HIDE DEF o
      <4>3. Dobry(k)
        BY <1>1, <2>4, <3>2, <4>2 DEF Pobrane
      <4>4. QED
        BY <1>1, <4>3 DEF o
    <3>5. QED
      BY <3>3, <3>4
  <2>5. CASE ~tcp_tryb_gniazda
    <3> DEFINE m == Min2(Len(d), tcp_max_bajtow - Len(zapisano))
    <3>1. WPobranym(zapisano, przepelnienie, k)
      BY <2>5 DEF Polaczenie, Pobrane
    <3>2. /\ o.ack = Plus(IsnSerwera, k + Len(d)) /\ o.potw = {Plus(IsnSerwera, k + Len(d))}
          /\ o.zapisano = zapisano \o SubSeq(d, 1, m)
          /\ o.przepelnienie = (przepelnienie \/ m # Len(d))
      BY <1>3, <2>3, <2>5 DEF tcp_przyjmij_payload, DoHttp, Odbior
    <3>3. WPobranym(zapisano \o SubSeq(d, 1, m), przepelnienie \/ m # Len(d), k + Len(d))
      BY <2>2, <3>1, PoPobraniu DEF Fazy
    <3> HIDE DEF m, o
    <3>4. Dobry(k + Len(d))
      BY <2>5, <3>2, <3>3 DEF Pobrane
    <3>5. QED
      BY <2>2, <3>4 DEF o
  <2>6. QED
    BY <2>4, <2>5
<1>4. QED
  BY <1>2, <1>3

-----------------------------------------------------------------------------
(* One step of each action.                                                *)

(* What obsluz_tcp leaves alone.                                           *)
Otoczenie == <<tcp_nasz_port, tcp_sesja_zajeta, tcp_tryb_gniazda, tcp_max_bajtow,
               faza, wynik, historia, serwer, siec>>

LEMMA PoDanych ==
  ASSUME Inw, NEW s \in siec, DoNas(s), "RST" \notin s.flagi, faza # "wolna",
         stan_tcp \in {"USTANOWIONY", "FIN_WYSLANY"}, Trwa,
         OdbierzDane(s), UNCHANGED Otoczenie
  PROVE  Inw'
<1> DEFINE o == tcp_przyjmij_payload(s)
           fin == FinPrzyjety(s, o.ack)
<1>1. PICK i \in 0 .. MiejsceFin : SegmentNa(s, i)
  BY DEF Inw, SiecInw
<1>2. PICK k \in 1 .. MiejsceFin + 1 : Polaczenie(k)
  BY DEF Inw
<1>3. k \in 1 .. MiejsceFin
  BY <1>2, Miejsca DEF Polaczenie
<1>4. PICK q \in k .. MiejsceFin :
        /\ o.ack = Plus(IsnSerwera, q)
        /\ Pobrane(o.bufor, o.poczatek, o.zapisano, o.przepelnienie, q)
        /\ o.potw \subseteq {Plus(IsnSerwera, q)}
  BY <1>1, <1>2, <1>3, PoPayloadzie DEF Inw, DoNas
<1>5. /\ tcp_nasz_ack' = (IF fin THEN Plus(o.ack, 1) ELSE o.ack)
      /\ bufor' = o.bufor /\ poczatek' = o.poczatek
      /\ zapisano' = o.zapisano /\ przepelnienie' = o.przepelnienie
      /\ stan_tcp' = (IF fin THEN "ZAMKNIETY" ELSE stan_tcp)
      /\ UNCHANGED <<tcp_nasz_seq, tcp_rst_odebrany>>
      /\ LET potw == IF fin THEN {Plus(o.ack, 1)} ELSE o.potw
         IN  IF potw = {} THEN UNCHANGED doSerwera ELSE \E n \in potw : Wyslij("ACK", n)
  BY DEF OdbierzDane
<1>6. fin => q = MiejsceFin
  <2> SUFFICES ASSUME fin PROVE q = MiejsceFin
    OBVIOUS
  <2>1. "FIN" \in s.flagi /\ Plus(s.seq, Len(s.dane)) = Plus(IsnSerwera, q)
    BY <1>4 DEF FinPrzyjety
  <2>2. i > 0 /\ i + Len(s.dane) = MiejsceFin /\ s.seq = Plus(IsnSerwera, i)
    BY <1>1, <2>1, Miejsca DEF SegmentNa
  <2>3. Len(s.dane) \in Nat
    BY <1>1, <2>2 DEF SegmentNa, Kolejne
  <2>4. Plus(s.seq, Len(s.dane)) = Plus(IsnSerwera, MiejsceFin)
    <3>1. i \in 0 .. MiejsceFin + 1 /\ i + Len(s.dane) <= MiejsceFin + 1
      BY <2>2, <2>3, Miejsca
    <3>2. QED
      BY <2>2, <2>3, <3>1, DalszyNumer
  <2>5. q \in 0 .. MiejsceFin + 1 /\ MiejsceFin \in 0 .. MiejsceFin + 1
    BY <1>3, Miejsca
  <2>6. QED
    BY <2>1, <2>4, <2>5, RozneNumery
<1> HIDE DEF fin, o
<1>7. PICK r \in 1 .. MiejsceFin + 1 : r = IF fin THEN MiejsceFin + 1 ELSE q
  BY <1>3, Miejsca
<1>8. Bajtow(r) = Bajtow(q) /\ k <= r /\ (r = MiejsceFin + 1 <=> fin)
  BY <1>3, <1>6, <1>7, Miejsca DEF Bajtow
<1>9. /\ tcp_nasz_ack' = Plus(IsnSerwera, r)
      /\ fin => Plus(o.ack, 1) = Plus(IsnSerwera, r)
      /\ ~fin => o.potw \subseteq {Plus(IsnSerwera, r)}
  <2>1. CASE fin
    <3>1. q \in 0 .. MiejsceFin + 1 /\ q + 1 <= MiejsceFin + 1 /\ q + 1 = r
      BY <1>6, <1>7, <2>1, Miejsca
    <3>2. Plus(Plus(IsnSerwera, q), 1) = Plus(IsnSerwera, q + 1)
      BY <3>1, DalszyNumer
    <3>3. QED
      BY <1>4, <1>5, <2>1, <3>1, <3>2
  <2>2. CASE ~fin
    BY <1>4, <1>5, <1>7, <2>2
  <2>3. QED
    BY <2>1, <2>2
<1>10. UNCHANGED <<tcp_nasz_port, odczytane, tcp_tryb_gniazda, tcp_max_bajtow>>
  BY DEF Otoczenie, historia
<1>11. Pobrane(bufor, poczatek, zapisano, przepelnienie, r)'
  <2>1. Pobrane(o.bufor, o.poczatek, o.zapisano, o.przepelnienie, r)
    BY <1>4, <1>8 DEF Pobrane, WGniezdzie, WPobranym
  <2>2. QED
    BY <1>5, <1>10, <2>1 DEF Pobrane, WGniezdzie, WPobranym, Kolejne
<1>12. \A m \in doSerwera' : m[1] # "SYN" => \E p \in 0 .. r : m[2] = Plus(IsnSerwera, p)
  <2>1. \A m \in doSerwera' : m \in doSerwera \/ m[2] = Plus(IsnSerwera, r)
    BY <1>5, <1>9, CoWysyla
  <2>2. r \in 0 .. r /\ 0 .. k \subseteq 0 .. r
    BY <1>3, <1>8, Miejsca
  <2>3. QED
    BY <1>2, <2>1, <2>2 DEF Polaczenie
<1>13. Polaczenie(r)'
  BY <1>5, <1>8, <1>9, <1>11, <1>12 DEF Polaczenie
<1>14. Fazy' /\ faza' # "wolna" /\ stan_tcp' # "SYN_WYSLANY"
  <2>1. przepelnienie' \in BOOLEAN
    BY <1>5 DEF o, Inw, Fazy, tcp_przyjmij_payload, Odbior, DoGniazda, DoHttp, tcp_gniazdo_ma_miejsce
  <2>2. QED
    BY <1>5, <2>1 DEF Inw, Fazy, Otoczenie, historia
<1>15. SiecInw'
  BY SiecInne DEF Inw, Otoczenie
<1>16. QED
  BY <1>13, <1>14, <1>15, PoKroku

LEMMA PoSynAck ==
  ASSUME Inw, NEW s \in siec, "RST" \notin s.flagi, stan_tcp = "SYN_WYSLANY", faza = "laczenie",
         OdbierzSynAck(s), UNCHANGED Otoczenie
  PROVE  Inw'
<1>1. PICK i \in 0 .. MiejsceFin : SegmentNa(s, i)
  BY DEF Inw, SiecInw
<1>2. i = 0 /\ s.seq = Plus(IsnSerwera, 0)
  BY <1>1, Miejsca DEF SegmentNa, OdbierzSynAck
<1>3. Plus(s.seq, 1) = Plus(IsnSerwera, 1)
  BY <1>2, DalszyNumer, Miejsca, 0 \in 0 .. MiejsceFin + 1
<1>4. /\ odczytane = <<>> /\ bufor = <<>> /\ poczatek = 0 /\ zapisano = <<>>
      /\ ~przepelnienie /\ ~tcp_rst_odebrany /\ \A m \in doSerwera : m[1] = "SYN"
  BY DEF Inw, Rozpoczete
<1>5. Polaczenie(1)'
  <2>1. \A m \in doSerwera' : m[1] = "SYN" \/ m[2] = Plus(IsnSerwera, 1)
    BY <1>3, <1>4, CoWysyla DEF OdbierzSynAck
  <2>2. Bajtow(1) = 0 /\ 1 # MiejsceFin + 1 /\ 1 \in 0 .. 1
    BY TcpZalozenia DEF Bajtow, MiejsceFin
  <2>3. <<>> \in Seq(Bajty) /\ Len(<<>>) = 0 /\ Kolejne(<<>>, tcp_nasz_port, 0)
    BY DEF Kolejne
  <2>4. Pobrane(bufor, poczatek, zapisano, przepelnienie, 1)'
    BY <1>4, <2>2, <2>3
    DEF Pobrane, WGniezdzie, WPobranym, OdbierzSynAck, Otoczenie, historia, Inw, Fazy
  <2>5. QED
    BY <1>3, <2>1, <2>2, <2>4 DEF Polaczenie, OdbierzSynAck
<1>6. Fazy' /\ faza' # "wolna" /\ stan_tcp' # "SYN_WYSLANY"
  BY DEF Inw, Fazy, OdbierzSynAck, Otoczenie, historia
<1>7. SiecInw' /\ 1 \in 1 .. MiejsceFin + 1
  BY SiecInne, Miejsca DEF Inw, Otoczenie
<1>8. QED
  BY <1>5, <1>6, <1>7, PoKroku

LEMMA PoRst ==
  ASSUME Inw, NEW s, OdbierzRst(s), faza # "wolna", UNCHANGED Otoczenie
  PROVE  Inw'
<1>1. Fazy' /\ faza' # "wolna" /\ stan_tcp' = "ZAMKNIETY"
  BY DEF Inw, Fazy, OdbierzRst, Otoczenie, historia, odbior
<1>2. SiecInw'
  BY SiecInne DEF Inw, Otoczenie
<1>3. CASE Trwa
  <2>1. PICK k \in 1 .. MiejsceFin + 1 : Polaczenie(k)
    BY <1>3 DEF Inw
  <2>2. Polaczenie(k)'
    BY <1>1, <2>1, PolaczenieZostaje DEF OdbierzRst, Otoczenie, historia
  <2>3. QED
    BY <1>1, <1>2, <2>2, PoKroku
<1>4. CASE ~Trwa
  <2>1. ~Trwa' /\ HttpSukcesToCalosc'
    BY <1>1, <1>4 DEF Trwa, Otoczenie, HttpSukcesToCalosc
  <2>2. QED
    BY <1>1, <1>2, <2>1, PozaPolaczeniem
<1>5. QED
  BY <1>3, <1>4

LEMMA PoSegmencie ==
  ASSUME Inw, NEW s \in siec, obsluz_tcp(s)
  PROVE  Inw'
<1>1. UNCHANGED Otoczenie /\ faza # "wolna" /\ DoNas(s)
  BY DEF obsluz_tcp, Otoczenie
<1>2. CASE "RST" \in s.flagi
  BY <1>1, <1>2, PoRst DEF obsluz_tcp
<1>3. CASE "RST" \notin s.flagi /\ stan_tcp = "SYN_WYSLANY" /\ OdbierzSynAck(s)
  <2>1. faza = "laczenie"
    BY <1>3 DEF obsluz_tcp, Inw, Fazy
  <2>2. QED
    BY <1>1, <1>3, <2>1, PoSynAck
<1>4. CASE /\ "RST" \notin s.flagi /\ stan_tcp \in {"USTANOWIONY", "FIN_WYSLANY"}
           /\ OdbierzDane(s)
  <2>1. CASE Trwa
    BY <1>1, <1>4, <2>1, PoDanych
  <2>2. CASE ~Trwa
    <3>1. faza = "laczenie" /\ stan_tcp = "FIN_WYSLANY"
      BY <1>4, <2>2 DEF Trwa, obsluz_tcp
    <3>2. QED
      BY <3>1 DEF Inw, Fazy
  <2>3. QED
    BY <2>1, <2>2
<1>5. QED
  BY <1>2, <1>3, <1>4 DEF obsluz_tcp

LEMMA PoOtwarciu ==
  ASSUME Inw, tcp_przygotuj_polaczenie
  PROVE  Inw'
<1>1. CASE Zakoncz("niepowodzenie")
  BY <1>1, PoZakonczeniu DEF tcp_przygotuj_polaczenie
<1>2. CASE ~Zakoncz("niepowodzenie")
  <2>1. SiecInw'
    BY SiecInne DEF Inw, tcp_przygotuj_polaczenie
  <2>2. Fazy' /\ ~Trwa' /\ HttpSukcesToCalosc' /\ Rozpoczete'
    <3>1. /\ tcp_nasz_port' \in Nat
          /\ przepelnienie' = FALSE /\ tcp_rst_odebrany' = FALSE /\ eof' = FALSE
      BY <1>2 DEF tcp_przygotuj_polaczenie, Inw, Fazy
    <3>4. PICK gniazdo \in Tryby :
            /\ tcp_tryb_gniazda' = gniazdo
            /\ tcp_max_bajtow' \in (IF gniazdo THEN {0} ELSE RozmiaryHttp)
      BY <1>2 DEF tcp_przygotuj_polaczenie
    <3>5. tcp_max_bajtow' \in Nat /\ tcp_tryb_gniazda' \in BOOLEAN
      BY <3>4, TcpZalozenia
    <3>2. /\ faza' = "laczenie" /\ stan_tcp' = "SYN_WYSLANY" /\ odczytane' = <<>> /\ bufor' = <<>>
          /\ poczatek' = 0 /\ zapisano' = <<>> /\ doSerwera' = {<<"SYN", 0>>}
      BY <1>2 DEF tcp_przygotuj_polaczenie
    <3>3. Fazy' /\ ~Trwa'
      BY <3>1, <3>2, <3>5 DEF Fazy, Trwa
    <3>6. HttpSukcesToCalosc' /\ Rozpoczete'
      BY <3>1, <3>2 DEF HttpSukcesToCalosc, Rozpoczete
    <3>7. QED
      BY <3>3, <3>6
  <2>3. QED
    BY <2>1, <2>2 DEF Inw
<1>3. QED
  BY <1>1, <1>2

(* A step that takes nothing of the stream.                                *)
LEMMA PoInnym ==
  ASSUME Inw, Trwa,
         UNCHANGED <<odbior, odczytane, eof, tcp_nasz_port, tcp_tryb_gniazda, tcp_max_bajtow,
                     tcp_rst_odebrany, siec>>,
         stan_tcp' = stan_tcp \/ (stan_tcp = "USTANOWIONY" /\ stan_tcp' = "FIN_WYSLANY"),
         Fazy', faza' # "wolna",
         \A m \in doSerwera' : m \in doSerwera \/ m[2] = tcp_nasz_ack
  PROVE  Inw'
<1>1. PICK k \in 1 .. MiejsceFin + 1 : Polaczenie(k)
  BY DEF Inw
<1>2. Polaczenie(k)'
  BY <1>1, PolaczenieZostaje
<1>3. SiecInw' /\ stan_tcp' # "SYN_WYSLANY"
  BY SiecInne DEF Inw, Fazy, Trwa
<1>4. QED
  BY <1>2, <1>3, PoKroku

LEMMA PoGotowosci ==
  ASSUME Inw, PolaczenieGotowe
  PROVE  Inw'
<1>1. Trwa /\ Fazy' /\ faza' # "wolna" /\ stan_tcp' = stan_tcp /\ doSerwera' = doSerwera
  BY DEF PolaczenieGotowe, Trwa, Inw, Fazy, sesja, odbior, historia
<1>2. UNCHANGED <<odbior, odczytane, eof, tcp_nasz_port, tcp_tryb_gniazda, tcp_max_bajtow,
                  tcp_rst_odebrany, siec>>
  BY DEF PolaczenieGotowe, sesja, historia
<1>3. QED
  BY <1>1, <1>2, PoInnym

LEMMA PoWyslaniu ==
  ASSUME Inw, tcp_gniazdo_wyslij
  PROVE  Inw'
<1>1. Trwa /\ Fazy' /\ faza' # "wolna" /\ stan_tcp' = stan_tcp
  BY DEF tcp_gniazdo_wyslij, Trwa, Inw, Fazy, odbior, historia
<1>2. \A m \in doSerwera' : m \in doSerwera \/ m[2] = tcp_nasz_ack
  BY CoWysyla DEF tcp_gniazdo_wyslij
<1>3. UNCHANGED <<odbior, odczytane, eof, tcp_nasz_port, tcp_tryb_gniazda, tcp_max_bajtow,
                  tcp_rst_odebrany, siec>>
  BY DEF tcp_gniazdo_wyslij, historia
<1>4. QED
  BY <1>1, <1>2, <1>3, PoInnym

LEMMA PoZamknieciu ==
  ASSUME Inw, tcp_gniazdo_zamknij
  PROVE  Inw'
<1>1. /\ stan_tcp' = stan_tcp \/ (stan_tcp = "USTANOWIONY" /\ stan_tcp' = "FIN_WYSLANY")
      /\ \A m \in doSerwera' : m \in doSerwera \/ m[2] = tcp_nasz_ack
  <2>1. CASE stan_tcp = "USTANOWIONY" /\ Wyslij("FIN", tcp_nasz_ack) /\ stan_tcp' = "FIN_WYSLANY"
    BY <2>1, CoWysyla
  <2>2. CASE WyslijZBledem("FIN", tcp_nasz_ack) /\ stan_tcp' = stan_tcp
    BY <2>2, CoWysyla
  <2>3. CASE UNCHANGED <<stan_tcp, doSerwera>>
    BY <2>3
  <2>4. QED
    BY <2>1, <2>2, <2>3 DEF tcp_gniazdo_zamknij, tcp_zamknij_grzecznie
<1>2. Trwa /\ Fazy' /\ faza' # "wolna"
  BY <1>1 DEF tcp_gniazdo_zamknij, Trwa, Inw, Fazy, odbior, historia
<1>3. UNCHANGED <<odbior, odczytane, eof, tcp_nasz_port, tcp_tryb_gniazda, tcp_max_bajtow,
                  tcp_rst_odebrany, siec>>
  BY DEF tcp_gniazdo_zamknij, historia
<1>4. QED
  BY <1>1, <1>2, <1>3, PoInnym

LEMMA PoZadaniu ==
  ASSUME Inw, HttpZadanie
  PROVE  Inw'
<1>1. CASE Zakoncz("niepowodzenie")
  BY <1>1, PoZakonczeniu DEF HttpZadanie
<1>2. CASE ~Zakoncz("niepowodzenie")
  <2>1. Trwa /\ Fazy' /\ faza' # "wolna" /\ stan_tcp' = stan_tcp
    BY <1>2 DEF HttpZadanie, Trwa, Inw, Fazy, odbior, historia
  <2>2. \A m \in doSerwera' : m \in doSerwera \/ m[2] = tcp_nasz_ack
    BY <1>2, CoWysyla DEF HttpZadanie
  <2>3. UNCHANGED <<odbior, odczytane, eof, tcp_nasz_port, tcp_tryb_gniazda, tcp_max_bajtow,
                  tcp_rst_odebrany, siec>>
    BY <1>2 DEF HttpZadanie, historia
  <2>4. QED
    BY <2>1, <2>2, <2>3, PoInnym
<1>3. QED
  BY <1>1, <1>2

(* A download that was not cut, reset or stopped by time is complete.      *)
LEMMA PoPobieraniu ==
  ASSUME Inw, NEW czas \in BOOLEAN, HttpKoniec(czas)
  PROVE  Inw'
<1> DEFINE odp == IF ~HttpSukces THEN "niepowodzenie"
                  ELSE IF czas THEN "sukces po czasie" ELSE "sukces"
<1>1. ASSUME odp = "sukces" PROVE zapisano = Odpowiedz(tcp_nasz_port)
  <2>1. faza = "http" /\ HttpSukces /\ ~czas /\ stan_tcp = "ZAMKNIETY"
    BY <1>1 DEF HttpKoniec
  <2>2. PICK k \in 1 .. MiejsceFin + 1 : Polaczenie(k)
    BY <2>1 DEF Inw, Trwa
  <2>3. k = MiejsceFin + 1 /\ Bajtow(k) = N
    BY <2>1, <2>2 DEF Polaczenie, HttpSukces, Bajtow
  <2>4. Kolejne(zapisano, tcp_nasz_port, 0) /\ Len(zapisano) = N
    BY <2>1, <2>2, <2>3 DEF Inw, Fazy, Polaczenie, Pobrane, WPobranym, HttpSukces
  <2>5. QED
    BY <2>4, OdpowiedzKolejna, KolejneRowne DEF Inw, Fazy
<1>2. QED
  BY <1>1, PoZakonczeniu DEF HttpKoniec

(* tcp_gniazdo_odbierz moves bytes from the buffer to the caller.          *)
LEMMA PoOdczycie ==
  ASSUME NEW k, WGniezdzie(bufor, poczatek, k), NEW ile \in 1 .. Len(bufor) - poczatek,
         tcp_nasz_port' = tcp_nasz_port,
         odczytane' = odczytane \o SubSeq(bufor, poczatek + 1, poczatek + ile),
         \/ ile = Len(bufor) - poczatek /\ bufor' = <<>> /\ poczatek' = 0
         \/ bufor' = bufor /\ poczatek' = poczatek + ile
  PROVE  /\ WGniezdzie(bufor, poczatek, k)'
         /\ Len(odczytane') = Len(odczytane) + ile
         /\ Len(odczytane') <= Bajtow(k)
<1> DEFINE e == SubSeq(bufor, poczatek + 1, poczatek + ile)
<1>1. /\ bufor \in Seq(Bajty) /\ poczatek \in 0 .. Len(bufor)
      /\ Len(odczytane) + Len(bufor) - poczatek = Bajtow(k)
      /\ \A i \in 1 .. Len(bufor) - poczatek :
           bufor[poczatek + i] = <<tcp_nasz_port, Len(odczytane) + i>>
  BY DEF WGniezdzie
<1>2. /\ odczytane \in Seq(Bajty)
      /\ \A i \in 1 .. Len(odczytane) : odczytane[i] = <<tcp_nasz_port, 0 + i>>
  BY DEF WGniezdzie, Kolejne
<1>3. Len(bufor) \in Nat /\ poczatek \in Int /\ Len(odczytane) \in Nat /\ ile \in Int
  BY <1>1, <1>2
<1>4. e \in Seq(Bajty) /\ Len(e) = ile /\ \A i \in 1 .. ile : e[i] = bufor[poczatek + i]
  BY <1>1, <1>3
<1>5. /\ odczytane' \in Seq(Bajty) /\ Len(odczytane') = Len(odczytane) + ile
      /\ \A i \in 1 .. Len(odczytane') :
           odczytane'[i] = IF i <= Len(odczytane) THEN odczytane[i] ELSE e[i - Len(odczytane)]
  <2> HIDE DEF e
  <2>1. odczytane' = odczytane \o e
    BY DEF e
  <2>2. /\ odczytane \o e \in Seq(Bajty) /\ Len(odczytane \o e) = Len(odczytane) + Len(e)
        /\ \A i \in 1 .. Len(odczytane) + Len(e) :
             (odczytane \o e)[i] = IF i <= Len(odczytane) THEN odczytane[i]
                                   ELSE e[i - Len(odczytane)]
    <3>1. odczytane \in Seq(Bajty) /\ e \in Seq(Bajty)
      BY <1>2, <1>4
    <3>2. QED
      BY ONLY <3>1
  <2>3. QED
    BY <1>4, <2>1, <2>2
<1> HIDE DEF e
<1>6. ASSUME NEW i \in 1 .. Len(odczytane') PROVE odczytane'[i] = <<tcp_nasz_port, 0 + i>>
  <2>1. i \in Int /\ 0 + i = i
    BY <1>3, <1>5
  <2>2. CASE i <= Len(odczytane)
    BY <1>2, <1>3, <1>5, <2>1, <2>2
  <2>3. CASE i > Len(odczytane)
    <3>1. i - Len(odczytane) \in Int
      BY <1>3, <2>1
    <3> DEFINE j == i - Len(odczytane)
    <3>2. /\ j \in 1 .. ile /\ j \in 1 .. Len(bufor) - poczatek /\ Len(odczytane) + j = 0 + i
      BY ONLY <1>3, <1>5, <2>1, <2>3, <3>1, ile \in 1 .. Len(bufor) - poczatek,
              i \in 1 .. Len(odczytane')
    <3>3. odczytane'[i] = e[j]
      BY <1>3, <1>5, <2>1, <2>3, <3>1
    <3> HIDE DEF j
    <3>4. QED
      BY <1>1, <1>4, <3>2, <3>3
  <2>4. QED
    BY <1>3, <2>1, <2>2, <2>3
<1>7. Kolejne(odczytane, tcp_nasz_port, 0)'
  BY <1>5, <1>6 DEF Kolejne
<1>8. Len(odczytane') <= Bajtow(k)
  BY <1>1, <1>3, <1>5
<1>9. CASE ile = Len(bufor) - poczatek /\ bufor' = <<>> /\ poczatek' = 0
  <2>1. <<>> \in Seq(Bajty) /\ Len(<<>>) = 0
    OBVIOUS
  <2>2. /\ bufor' \in Seq(Bajty) /\ poczatek' \in 0 .. Len(bufor')
        /\ 1 .. Len(bufor') - poczatek' = {}
    BY <1>9, <2>1
  <2>3. Len(odczytane') + Len(bufor') - poczatek' = Bajtow(k)
    BY <1>1, <1>3, <1>5, <1>9, <2>1
  <2>4. WGniezdzie(bufor, poczatek, k)'
    BY <1>7, <2>2, <2>3 DEF WGniezdzie, Bajtow, MiejsceFin, N
  <2>5. QED
    BY <1>5, <1>8, <2>4
<1>10. CASE bufor' = bufor /\ poczatek' = poczatek + ile
  <2>1. ASSUME NEW i \in 1 .. Len(bufor') - poczatek'
        PROVE  bufor'[poczatek' + i] = <<tcp_nasz_port, Len(odczytane') + i>>
    <3>1. i \in Int /\ i >= 1 /\ i <= Len(bufor) - (poczatek + ile)
      BY <1>3, <1>10
    <3>2. /\ ile + i \in 1 .. Len(bufor) - poczatek /\ poczatek' + i = poczatek + (ile + i)
          /\ Len(odczytane') + i = Len(odczytane) + (ile + i)
      BY <1>3, <1>5, <1>10, <3>1
    <3>3. QED
      BY <1>1, <1>10, <3>2
  <2>2. /\ poczatek' \in 0 .. Len(bufor')
        /\ Len(odczytane') + Len(bufor') - poczatek' = Bajtow(k)
    BY <1>1, <1>3, <1>5, <1>10
  <2>3. WGniezdzie(bufor, poczatek, k)'
    BY <1>1, <1>7, <1>10, <2>1, <2>2 DEF WGniezdzie, Bajtow, MiejsceFin, N
  <2>4. QED
    BY <1>5, <1>8, <2>3
<1>11. QED
  BY <1>9, <1>10

LEMMA PoOdbiorze ==
  ASSUME Inw, NEW n \in 1 .. TCP_BUFOR_GNIAZDA, tcp_gniazdo_odbierz(n)
  PROVE  Inw'
<1>1. /\ faza = "otwarta" /\ Trwa /\ tcp_tryb_gniazda
      /\ UNCHANGED <<stan_tcp, sesja, tcp_nasz_ack, zapisano, przepelnienie,
                     tcp_rst_odebrany, faza, wynik, serwer, siec, doSerwera>>
  BY DEF tcp_gniazdo_odbierz, Trwa, Inw, Fazy
<1>2. UNCHANGED <<tcp_nasz_port, tcp_tryb_gniazda, tcp_max_bajtow>>
  BY <1>1 DEF sesja
<1>3. PICK k \in 1 .. MiejsceFin + 1 : Polaczenie(k)
  BY <1>1 DEF Inw
<1>4. WGniezdzie(bufor, poczatek, k)
  BY <1>1, <1>3 DEF Polaczenie, Pobrane
<1>5. Fazy' /\ SiecInw' /\ faza' # "wolna" /\ stan_tcp' # "SYN_WYSLANY"
  <2>1. eof' \in BOOLEAN
    BY DEF tcp_gniazdo_odbierz, Inw, Fazy
  <2>2. SiecInw'
    BY <1>1, SiecInne DEF Inw
  <2>3. QED
    BY <1>1, <1>2, <2>1, <2>2 DEF Inw, Fazy
<1>6. WGniezdzie(bufor, poczatek, k)'
  <2>1. CASE UNCHANGED <<odczytane, bufor, poczatek>>
    BY <1>2, <1>4, <2>1 DEF WGniezdzie, Kolejne
  <2>2. CASE ~UNCHANGED <<odczytane, bufor, poczatek>>
    <3> DEFINE ile == Min2(Len(bufor) - poczatek, n)
    <3>1. ile \in 1 .. Len(bufor) - poczatek
      BY <1>4, <2>2 DEF WGniezdzie, tcp_gniazdo_odbierz, Min2
    <3>2. /\ odczytane' = odczytane \o SubSeq(bufor, poczatek + 1, poczatek + ile)
          /\ \/ ile = Len(bufor) - poczatek /\ bufor' = <<>> /\ poczatek' = 0
             \/ bufor' = bufor /\ poczatek' = poczatek + ile
      BY <2>2 DEF tcp_gniazdo_odbierz
    <3> HIDE DEF ile
    <3>3. QED
      BY <1>2, <1>4, <3>1, <3>2, PoOdczycie
  <2>3. QED
    BY <2>1, <2>2
<1>7. Polaczenie(k)'
  <2>1. Pobrane(bufor, poczatek, zapisano, przepelnienie, k)'
    BY <1>1, <1>2, <1>6 DEF Pobrane
  <2>2. QED
    BY <1>1, <1>3, <2>1 DEF Polaczenie
<1>8. QED
  BY <1>5, <1>7, PoKroku

(* The server and the network only change what is on its way.              *)
LEMMA PoSerwerze ==
  ASSUME Inw, UNCHANGED klient, SiecInw', doSerwera' \subseteq doSerwera
  PROVE  Inw'
<1>1. /\ UNCHANGED <<stan_tcp, odbior, tcp_nasz_port, tcp_tryb_gniazda, tcp_max_bajtow,
                     tcp_rst_odebrany, faza, wynik, odczytane, eof>>
      /\ UNCHANGED <<bufor, poczatek, zapisano, przepelnienie>>
  BY DEF klient, sesja, historia, odbior
<1>2. Fazy'
  BY <1>1 DEF Inw, Fazy
<1>3. Rozpoczete' /\ HttpSukcesToCalosc'
  BY <1>1 DEF Inw, Rozpoczete, HttpSukcesToCalosc
<1>4. ASSUME Trwa' PROVE \E k \in 1 .. MiejsceFin + 1 : Polaczenie(k)'
  <2>1. PICK k \in 1 .. MiejsceFin + 1 : Polaczenie(k)
    BY <1>1, <1>4 DEF Inw, Trwa
  <2>2. Polaczenie(k)'
    BY <1>1, <2>1, PolaczenieZostaje
  <2>3. QED
    BY <2>2
<1>5. QED
  BY <1>2, <1>3, <1>4 DEF Inw, MiejsceFin

LEMMA PoSieci ==
  ASSUME Inw, Serwer
  PROVE  Inw'
<1>1. CASE \E m \in doSerwera : SerwerOdbiera(m) \/ ZgubAck(m)
  <2>1. UNCHANGED <<klient, siec>> /\ doSerwera' \subseteq doSerwera
    BY <1>1 DEF SerwerOdbiera, ZgubAck
  <2>2. SiecInw'
    BY <2>1, SiecInne DEF Inw
  <2>3. QED
    BY <2>1, <2>2, PoSerwerze
<1>2. CASE SerwerSynAck \/ SerwerRst \/ (\E s \in siec : Zgub(s))
  <2>1. UNCHANGED <<klient, doSerwera>>
    BY <1>2 DEF SerwerSynAck, SerwerRst, Nadaj, Zgub
  <2>2. SiecInw'
    BY <1>2, SiecInne DEF Inw
  <2>3. QED
    BY <2>1, <2>2, PoSerwerze
<1>3. CASE \E i \in 1 .. MiejsceFin, j \in 0 .. DlugoscOdpowiedzi, fin \in BOOLEAN :
             SerwerDane(i, j, fin)
  <2>1. UNCHANGED <<klient, doSerwera>>
    BY <1>3 DEF SerwerDane, Nadaj
  <2>2. SiecInw'
    BY <1>3, SiecDane DEF Inw, Fazy, N
  <2>3. QED
    BY <2>1, <2>2, PoSerwerze
<1>4. QED
  BY <1>1, <1>2, <1>3 DEF Serwer

LEMMA InwKrok == Inw /\ [Next]_vars => Inw'
<1> SUFFICES ASSUME Inw, [Next]_vars PROVE Inw'
  OBVIOUS
<1>1. CASE tcp_przygotuj_polaczenie
  BY <1>1, PoOtwarciu
<1>2. CASE PolaczenieGotowe
  BY <1>2, PoGotowosci
<1>3. CASE PolaczenieNieudane
  BY <1>3, PoZakonczeniu DEF PolaczenieNieudane
<1>4. CASE tcp_gniazdo_wyslij
  BY <1>4, PoWyslaniu
<1>5. CASE \E n \in 1 .. TCP_BUFOR_GNIAZDA : tcp_gniazdo_odbierz(n)
  BY <1>5, PoOdbiorze
<1>6. CASE tcp_gniazdo_zamknij
  BY <1>6, PoZamknieciu
<1>7. CASE KoniecZamykania
  BY <1>7, PoZakonczeniu DEF KoniecZamykania
<1>8. CASE HttpZadanie
  BY <1>8, PoZadaniu
<1>9. CASE \E czas \in BOOLEAN : HttpKoniec(czas)
  BY <1>9, PoPobieraniu
<1>10. CASE \E s \in siec : obsluz_tcp(s)
  BY <1>10, PoSegmencie
<1>11. CASE Serwer
  BY <1>11, PoSieci
<1>12. CASE UNCHANGED vars
  <2>1. UNCHANGED <<klient, siec, doSerwera>>
    BY <1>12 DEF vars
  <2>2. SiecInw'
    BY <2>1, SiecInne DEF Inw
  <2>3. QED
    BY <2>1, <2>2, PoSerwerze
<1>13. QED
  BY <1>1, <1>2, <1>3, <1>4, <1>5, <1>6, <1>7, <1>8, <1>9, <1>10, <1>11, <1>12
  DEF Next, Wywolania

LEMMA InwZawsze == Spec => []Inw
BY InwPoczatek, InwKrok, PTL DEF Spec

-----------------------------------------------------------------------------
(* What was acknowledged to the server was given to the socket's caller or *)
(* waits in the buffer, also when the buffer was full or its data was      *)
(* moved (tcp_przyjmij_payload, tcp_gniazdo_kompaktuj).                    *)
LEMMA InwNicNiePrzepada == Inw => NicNiePrzepada
<1> SUFFICES ASSUME Inw, faza = "otwarta", NEW m \in doSerwera, m[1] # "SYN"
             PROVE  LET u == odczytane \o SubSeq(bufor, poczatek + 1, Len(bufor))
                    IN  \/ Miejsce(m[2]) - 1 <= Len(u)
                        \/ Miejsce(m[2]) - 1 = MiejsceFin /\ u = Odpowiedz(tcp_nasz_port)
  BY DEF NicNiePrzepada
<1> DEFINE b == SubSeq(bufor, poczatek + 1, Len(bufor))
           u == odczytane \o b
<1>1. tcp_tryb_gniazda /\ Trwa /\ tcp_nasz_port \in Nat
  BY DEF Inw, Fazy, Trwa
<1>2. PICK k \in 1 .. MiejsceFin + 1 : Polaczenie(k)
  BY <1>1 DEF Inw
<1>3. WGniezdzie(b, 0, k)
  BY <1>1, <1>2, PoPrzesunieciu DEF Polaczenie, Pobrane
<1> HIDE DEF b
<1>4. /\ b \in Seq(Bajty) /\ odczytane \in Seq(Bajty)
      /\ Len(b) \in Nat /\ Len(odczytane) \in Nat
  BY <1>3 DEF WGniezdzie, Kolejne
<1>5. /\ \A i \in 1 .. Len(odczytane) : odczytane[i] = <<tcp_nasz_port, 0 + i>>
      /\ \A i \in 1 .. Len(b) - 0 : b[0 + i] = <<tcp_nasz_port, Len(odczytane) + i>>
      /\ Len(odczytane) + Len(b) - 0 = Bajtow(k)
  BY <1>3 DEF WGniezdzie, Kolejne
<1>6. /\ u \in Seq(Bajty) /\ Len(u) = Len(odczytane) + Len(b)
      /\ \A i \in 1 .. Len(odczytane) + Len(b) :
           u[i] = IF i <= Len(odczytane) THEN odczytane[i] ELSE b[i - Len(odczytane)]
  <2>1. b \in Seq(Bajty) /\ odczytane \in Seq(Bajty)
    BY <1>4
  <2>2. QED
    BY ONLY <2>1
<1> HIDE DEF u
<1>7. Len(u) = Bajtow(k)
  BY <1>4, <1>5, <1>6
<1>8. Kolejne(u, tcp_nasz_port, 0)
  <2>1. ASSUME NEW i \in 1 .. Len(u) PROVE u[i] = <<tcp_nasz_port, 0 + i>>
    <3>1. CASE i <= Len(odczytane)
      BY <1>4, <1>5, <1>6, <3>1
    <3>2. CASE i > Len(odczytane)
      <4> DEFINE j == i - Len(odczytane)
      <4>1. j \in 1 .. Len(b) - 0 /\ 0 + j = j /\ Len(odczytane) + j = 0 + i
        BY <1>4, <1>6, <3>2
      <4>2. u[i] = b[j]
        BY <1>4, <1>6, <3>2
      <4> HIDE DEF j
      <4>3. QED
        BY <1>5, <4>1, <4>2
    <3>3. QED
      BY <1>4, <3>1, <3>2
  <2>2. QED
    BY <1>6, <2>1 DEF Kolejne
<1>9. PICK q \in 0 .. k : m[2] = Plus(IsnSerwera, q)
  BY <1>2 DEF Polaczenie
<1>10. Miejsce(m[2]) = q
  <2>1. q \in 0 .. MiejsceFin + 1
    BY Miejsca
  <2>2. QED
    BY <1>9, <2>1, MiejsceNumeru
<1>11. CASE q <= MiejsceFin
  <2>1. q - 1 <= Bajtow(k)
    BY <1>11, Miejsca DEF Bajtow
  <2>2. QED
    BY <1>7, <1>10, <2>1 DEF u, b
<1>12. CASE q > MiejsceFin
  <2>1. q = MiejsceFin + 1 /\ k = MiejsceFin + 1 /\ q - 1 = MiejsceFin
    BY <1>12, Miejsca
  <2>2. Len(u) = N
    BY <1>7, <2>1 DEF Bajtow
  <2>3. u = Odpowiedz(tcp_nasz_port)
    BY <1>1, <1>8, <2>2, OdpowiedzKolejna, KolejneRowne
  <2>4. QED
    BY <1>10, <2>1, <2>3 DEF u, b
<1>13. q <= MiejsceFin \/ q > MiejsceFin
  BY Miejsca
<1>14. QED
  BY <1>11, <1>12, <1>13

(* What the client has acknowledged is with the caller or in the socket's  *)
(* buffer, byte by byte and in order, or, in a download that did not       *)
(* overflow, in its buffer (obsluz_tcp, tcp_gniazdo_odbierz).              *)
THEOREM NicNiePrzepadaZawsze == Spec => []NicNiePrzepada
BY InwZawsze, InwNicNiePrzepada, PTL

(* A download reported as a success before its time is the whole answer:   *)
(* a FIN that overtook data, an RST or a buffer that is too small are not  *)
(* taken for it (kernel_siec_pobierz_http).                                *)
THEOREM HttpCalosc == Spec => []HttpSukcesToCalosc
<1>1. Inw => HttpSukcesToCalosc
  BY DEF Inw
<1>2. QED
  BY <1>1, InwZawsze, PTL

-----------------------------------------------------------------------------
(* What the caller reads is the server's stream.                           *)

(* Once the caller was told of the end, nothing more arrives.              *)
PoKoncu ==
  /\ faza = "laczenie" => ~eof
  /\ faza = "otwarta" /\ eof => stan_tcp = "ZAMKNIETY" /\ Len(bufor) - poczatek = 0

LEMMA PoKoncuPoczatek == Init => PoKoncu
BY DEF Init, PoKoncu

LEMMA PoKoncuKrok == PoKoncu /\ [Next]_vars => PoKoncu'
<1> SUFFICES ASSUME PoKoncu, [Next]_vars PROVE PoKoncu'
  OBVIOUS
<1>1. CASE \E odp : Zakoncz(odp)
  BY <1>1 DEF Zakoncz, PoKoncu
<1>2. CASE tcp_przygotuj_polaczenie /\ ~Zakoncz("niepowodzenie")
  BY <1>2 DEF tcp_przygotuj_polaczenie, PoKoncu
<1>3. CASE PolaczenieGotowe
  BY <1>3 DEF PolaczenieGotowe, PoKoncu, historia
<1>4. CASE tcp_gniazdo_wyslij
  BY <1>4 DEF tcp_gniazdo_wyslij, PoKoncu, historia, odbior
<1>5. CASE \E n \in 1 .. TCP_BUFOR_GNIAZDA : tcp_gniazdo_odbierz(n)
  BY <1>5 DEF tcp_gniazdo_odbierz, PoKoncu
<1>6. CASE tcp_gniazdo_zamknij
  BY <1>6 DEF tcp_gniazdo_zamknij, PoKoncu
<1>7. CASE HttpZadanie /\ ~Zakoncz("niepowodzenie")
  BY <1>7 DEF HttpZadanie, PoKoncu
<1>8. ASSUME NEW s \in siec, obsluz_tcp(s) PROVE PoKoncu'
  <2>1. UNCHANGED <<faza, eof>>
    BY <1>8 DEF obsluz_tcp, historia
  <2>2. CASE OdbierzRst(s)
    BY <2>1, <2>2 DEF OdbierzRst, PoKoncu, odbior
  <2>3. CASE stan_tcp # "ZAMKNIETY"
    BY <2>1, <2>3 DEF PoKoncu
  <2>4. QED
    BY <1>8, <2>2, <2>3 DEF obsluz_tcp
<1>9. CASE UNCHANGED klient
  BY <1>9 DEF klient, odbior, historia, PoKoncu
<1>10. CASE Serwer \/ UNCHANGED vars
  BY <1>9, <1>10
  DEF Serwer, SerwerOdbiera, ZgubAck, SerwerSynAck, SerwerDane, SerwerRst, Zgub, Nadaj, vars
<1>11. QED
  BY <1>1, <1>2, <1>3, <1>4, <1>5, <1>6, <1>7, <1>8, <1>10
  DEF Next, Wywolania, PolaczenieNieudane, KoniecZamykania, HttpKoniec, tcp_przygotuj_polaczenie,
      HttpZadanie

LEMMA InwIKoniec == Spec => [](Inw /\ PoKoncu)
<1>1. Spec => []PoKoncu
  BY PoKoncuPoczatek, PoKoncuKrok, PTL DEF Spec
<1>2. QED
  BY <1>1, InwZawsze, PTL

(* The state of the abstract stream.                                       *)
WidokStrumienia == <<tcp_nasz_port, odczytane, eof, tcp_rst_odebrany>>

LEMMA ZakonczZamyka ==
  ASSUME NEW odp, Zakoncz(odp)
  PROVE  Strumien!Zamknij
BY DEF Zakoncz, tcp_resetuj_sesje, historia, Strumien!Zamknij

LEMMA OdbierzCzyta ==
  ASSUME Inw, PoKoncu, NEW n \in 1 .. TCP_BUFOR_GNIAZDA, tcp_gniazdo_odbierz(n)
  PROVE  Strumien!Czytaj \/ Strumien!ZglosKoniec
<1>1. /\ faza = "otwarta" /\ Trwa /\ tcp_tryb_gniazda /\ tcp_nasz_port \in Nat
      /\ UNCHANGED <<tcp_nasz_port, tcp_rst_odebrany>>
  BY DEF tcp_gniazdo_odbierz, Trwa, Inw, Fazy, sesja
<1>2. PICK k \in 1 .. MiejsceFin + 1 : Polaczenie(k)
  BY <1>1 DEF Inw
<1>3. WGniezdzie(bufor, poczatek, k)
  BY <1>1, <1>2 DEF Polaczenie, Pobrane
<1>4. Bajtow(k) \in 0 .. N /\ N \in Nat
  BY Miejsca DEF Bajtow
<1>5. /\ Odpowiedz(tcp_nasz_port) \in Seq(Bajty) /\ Len(Odpowiedz(tcp_nasz_port)) = N
      /\ Kolejne(Odpowiedz(tcp_nasz_port), tcp_nasz_port, 0)
  BY <1>1, OdpowiedzKolejna DEF Kolejne
<1>6. CASE /\ Len(bufor) - poczatek = 0 /\ stan_tcp = "ZAMKNIETY" /\ eof' = TRUE
           /\ UNCHANGED <<odczytane, bufor, poczatek>>
  <2>1. tcp_rst_odebrany \/ odczytane = Odpowiedz(tcp_nasz_port)
    <3>1. CASE k = MiejsceFin + 1
      <4>1. Kolejne(odczytane, tcp_nasz_port, 0) /\ Len(odczytane) = N
        BY <1>3, <1>6, <3>1 DEF WGniezdzie, Kolejne, Bajtow
      <4>2. QED
        BY <1>5, <4>1, KolejneRowne
    <3>2. QED
      BY <1>2, <1>6, <3>1 DEF Polaczenie
  <2>2. QED
    BY <1>1, <1>6, <2>1 DEF Strumien!ZglosKoniec
<1>7. CASE ~(/\ Len(bufor) - poczatek = 0 /\ stan_tcp = "ZAMKNIETY" /\ eof' = TRUE
             /\ UNCHANGED <<odczytane, bufor, poczatek>>)
  <2> DEFINE ile == Min2(Len(bufor) - poczatek, n)
  <2>1. /\ Len(bufor) - poczatek > 0 /\ eof' = eof
        /\ odczytane' = odczytane \o SubSeq(bufor, poczatek + 1, poczatek + ile)
        /\ \/ ile = Len(bufor) - poczatek /\ bufor' = <<>> /\ poczatek' = 0
           \/ bufor' = bufor /\ poczatek' = poczatek + ile
    BY <1>7 DEF tcp_gniazdo_odbierz
  <2>2. ile \in 1 .. Len(bufor) - poczatek
    BY <1>3, <2>1 DEF WGniezdzie, Min2
  <2> HIDE DEF ile
  <2>3. /\ WGniezdzie(bufor, poczatek, k)'
        /\ Len(odczytane') = Len(odczytane) + ile /\ Len(odczytane') <= Bajtow(k)
    BY <1>1, <1>3, <2>1, <2>2, PoOdczycie
  <2>4. ~eof
    BY <1>1, <2>1 DEF PoKoncu, Inw, Fazy
  <2>5. Kolejne(odczytane', tcp_nasz_port, 0) /\ odczytane' \in Seq(Bajty)
    BY <1>1, <2>3 DEF WGniezdzie, Kolejne
  <2>6. Len(odczytane) \in Nat
    BY <1>3 DEF WGniezdzie, Kolejne
  <2>7. Len(odczytane') \in Len(odczytane) + 1 .. N
    BY <1>4, <2>2, <2>3, <2>6
  <2>8. odczytane' = SubSeq(Odpowiedz(tcp_nasz_port), 1, Len(odczytane'))
    <3> DEFINE o == Odpowiedz(tcp_nasz_port)
               r == Len(odczytane')
    <3>1. o \in Seq(Bajty) /\ r \in 0 .. Len(o) /\ Len(o) = N
      BY <1>4, <1>5, <2>6, <2>7
    <3>2. \A i \in 1 .. Len(o) : o[i] = <<tcp_nasz_port, 0 + i>>
      BY <1>5 DEF Kolejne
    <3> HIDE DEF o
    <3>3. SubSeq(o, 1, r) \in Seq(Bajty) /\ Len(SubSeq(o, 1, r)) = r
      BY <3>1
    <3>4. \A i \in 1 .. r : SubSeq(o, 1, r)[i] = o[i] /\ i \in 1 .. Len(o)
      BY <3>1
    <3>5. Kolejne(SubSeq(o, 1, r), tcp_nasz_port, 0)
      BY <3>2, <3>3, <3>4 DEF Kolejne
    <3>6. QED
      BY <2>5, <3>3, <3>5, KolejneRowne DEF o
  <2>9. QED
    BY <1>1, <1>5, <2>1, <2>4, <2>7, <2>8 DEF Strumien!Czytaj
<1>8. QED
  BY <1>6, <1>7

(* Every step of the stack is a step of the abstract stream or none: what  *)
(* the caller of a socket gets is, without gap, repetition or byte of an   *)
(* earlier connection, the beginning of the server's answer, and 0 means   *)
(* its end, unless the connection was reset (tcp_gniazdo_odbierz).         *)
THEOREM StrumienZaimplementowany == Spec => ImplementujeStrumien
<1>1. Init => Strumien!Init
  BY DEF Init, Strumien!Init
<1>2. ASSUME Inw, PoKoncu, [Next]_vars
      PROVE  [Strumien!Next]_WidokStrumienia
  <2>1. CASE \E odp : Zakoncz(odp)
    BY <2>1, ZakonczZamyka DEF Strumien!Next
  <2>2. CASE tcp_przygotuj_polaczenie /\ ~Zakoncz("niepowodzenie")
    BY <2>2 DEF tcp_przygotuj_polaczenie, Strumien!Next, Strumien!Otworz
  <2>3. CASE PolaczenieGotowe \/ tcp_gniazdo_wyslij \/ tcp_gniazdo_zamknij
    BY <2>3 DEF PolaczenieGotowe, tcp_gniazdo_wyslij, tcp_gniazdo_zamknij, sesja, historia,
                WidokStrumienia
  <2>4. CASE \E n \in 1 .. TCP_BUFOR_GNIAZDA : tcp_gniazdo_odbierz(n)
    BY <1>2, <2>4, OdbierzCzyta DEF Strumien!Next
  <2>5. CASE HttpZadanie /\ ~Zakoncz("niepowodzenie")
    BY <2>5 DEF HttpZadanie, historia, WidokStrumienia
  <2>6. ASSUME NEW s \in siec, obsluz_tcp(s) PROVE [Strumien!Next]_WidokStrumienia
    <3>1. UNCHANGED <<tcp_nasz_port, odczytane, eof>>
      BY <2>6 DEF obsluz_tcp, historia
    <3>2. CASE OdbierzRst(s)
      BY <3>1, <3>2 DEF OdbierzRst, Strumien!Next, Strumien!Zerwij
    <3>3. CASE OdbierzSynAck(s) \/ OdbierzDane(s)
      BY <3>1, <3>3 DEF OdbierzSynAck, OdbierzDane, WidokStrumienia
    <3>4. QED
      BY <2>6, <3>2, <3>3 DEF obsluz_tcp
  <2>7. CASE UNCHANGED klient
    BY <2>7 DEF klient, sesja, historia, WidokStrumienia
  <2>8. CASE Serwer \/ UNCHANGED vars
    BY <2>7, <2>8
    DEF Serwer, SerwerOdbiera, ZgubAck, SerwerSynAck, SerwerDane, SerwerRst, Zgub, Nadaj, vars
  <2>9. QED
    BY <1>2, <2>1, <2>2, <2>3, <2>4, <2>5, <2>6, <2>8
    DEF Next, Wywolania, PolaczenieNieudane, KoniecZamykania, HttpKoniec,
        tcp_przygotuj_polaczenie, HttpZadanie
<1>3. Inw /\ PoKoncu /\ [Next]_vars => [Strumien!Next]_(Strumien!vars)
  BY <1>2 DEF WidokStrumienia, Strumien!vars
<1>4. QED
  BY <1>1, <1>3, InwIKoniec, PTL DEF Spec, ImplementujeStrumien, Strumien!Spec
=============================================================================
