-------------------------------- MODULE Tcp --------------------------------
(***************************************************************************)
(* The one TCP connection of siec.cpp: connecting, the receive path, the   *)
(* socket calls used by tls.cpp and the HTTP/1.0 download.  All of it runs *)
(* inside one system call at a time, which polls the card; the server and  *)
(* a network that loses, repeats and reorders are the environment.         *)
(*                                                                         *)
(* Sequence numbers are counted modulo ModSeq (2^32 in the code).  A byte  *)
(* is the pair of its connection and its place in the server's answer.     *)
(* `faza' is where the caller is: "wolna" (no call), "laczenie" (3562),    *)
(* "otwarta" (between two socket calls), "zamykanie" (4006), "zadanie"     *)
(* (HTTP, before the request is sent), "http" (4276).                      *)
(***************************************************************************)
EXTENDS Integers, Sequences, FiniteSets

CONSTANTS ModSeq,            \* modulus of sequence numbers
          IsnKlienta,        \* first value of tcp_poczatkowy_seq()
          IsnSerwera,        \* initial number of the server
          DlugoscOdpowiedzi, \* bytes the server answers on each connection
          Mss,               \* largest segment of the server
          TCP_BUFOR_GNIAZDA, \* size of tcp_bufor_gniazda
          RozmiaryHttp,      \* sizes of the buffer of an HTTP download
          MaksPolaczen,      \* bound: connections opened
          MaksWSieci,        \* bound: segments of one connection to us in the network
          Tryby              \* tryb_gniazda: {TRUE} sockets, {FALSE} HTTP

ASSUME TcpZalozenia ==
  /\ ModSeq \in Nat /\ DlugoscOdpowiedzi \in Nat \ {0}
  /\ ModSeq > DlugoscOdpowiedzi + 2
  /\ IsnKlienta \in 0 .. ModSeq - 1 /\ IsnSerwera \in 0 .. ModSeq - 1
  /\ Mss \in Nat \ {0}
  /\ TCP_BUFOR_GNIAZDA \in Nat /\ TCP_BUFOR_GNIAZDA >= Mss
  /\ RozmiaryHttp \subseteq Nat \ {0}
  /\ MaksPolaczen \in Nat /\ MaksWSieci \in Nat \ {0}
  /\ Tryby \subseteq BOOLEAN

VARIABLES stan_tcp, tcp_nasz_seq, tcp_nasz_ack,
          tcp_nasz_port,     \* also counts the connections
          tcp_sesja_zajeta, tcp_tryb_gniazda, tcp_rst_odebrany,
          bufor,             \* tcp_bufor_gniazda[0 .. tcp_gniazdo_koniec - 1]
          poczatek,          \* tcp_gniazdo_poczatek
          tcp_max_bajtow,    \* size of the HTTP buffer
          zapisano,          \* its first tcp_zapisano_bajtow bytes
          przepelnienie,     \* tcp_przepelnienie_odbioru
          faza,
          wynik,             \* answer of the last call that ended
          odczytane, eof,    \* history: what the socket's caller was given
          serwer,            \* the other end of the newest connection
          siec,              \* segments on their way to us
          doSerwera          \* segments on their way to the server

sesja == <<tcp_nasz_seq, tcp_nasz_port, tcp_sesja_zajeta, tcp_tryb_gniazda,
           tcp_max_bajtow>>
odbior == <<tcp_nasz_ack, bufor, poczatek, zapisano, przepelnienie>>
historia == <<odczytane, eof>>
klient == <<stan_tcp, sesja, odbior, tcp_rst_odebrany, faza, wynik, historia>>
vars == <<klient, serwer, siec, doSerwera>>

Stany == {"ZAMKNIETY", "SYN_WYSLANY", "USTANOWIONY", "FIN_WYSLANY"}

Plus(n, k) == (n + k) % ModSeq
Min2(a, b) == IF a < b THEN a ELSE b
Odpowiedz(p) == [k \in 1 .. DlugoscOdpowiedzi |-> <<p, k>>]

Segment(seq, ack, flagi, dane) ==
  [port |-> tcp_nasz_port, seq |-> seq, ack |-> ack, flagi |-> flagi, dane |-> dane]

(* una: places of the server's stream acknowledged so far.  Place 0 is its *)
(* SYN, then come the bytes, then its FIN.                                 *)
NowySerwer == [syn |-> FALSE, zadanie |-> FALSE, una |-> 0]
MiejsceFin == DlugoscOdpowiedzi + 1

Init ==
  /\ stan_tcp = "ZAMKNIETY" /\ tcp_nasz_seq = 0 /\ tcp_nasz_ack = 0
  /\ tcp_nasz_port = 0
  /\ tcp_sesja_zajeta = FALSE /\ tcp_tryb_gniazda = FALSE
  /\ tcp_rst_odebrany = FALSE
  /\ bufor = <<>> /\ poczatek = 0
  /\ tcp_max_bajtow = 0 /\ zapisano = <<>> /\ przepelnienie = FALSE
  /\ faza = "wolna" /\ wynik = "brak"
  /\ odczytane = <<>> /\ eof = FALSE
  /\ serwer = NowySerwer
  /\ siec = {} /\ doSerwera = {}

-----------------------------------------------------------------------------
(* tcp_resetuj_sesje(true); tcp_zapisano_bajtow keeps its value.           *)
tcp_resetuj_sesje ==
  /\ stan_tcp' = "ZAMKNIETY" /\ tcp_nasz_ack' = 0
  /\ tcp_tryb_gniazda' = FALSE /\ tcp_max_bajtow' = 0 /\ przepelnienie' = FALSE
  /\ tcp_rst_odebrany' = FALSE /\ bufor' = <<>> /\ poczatek' = 0
  /\ tcp_sesja_zajeta' = FALSE
  /\ UNCHANGED <<tcp_nasz_seq, tcp_nasz_port, zapisano>>

(* The end of a call that gives the connection up.                         *)
Zakoncz(odp) ==
  /\ tcp_resetuj_sesje
  /\ faza' = "wolna" /\ wynik' = odp
  /\ UNCHANGED historia

(* tcp_wyslij_internal.  The network may lose the segment later; where the *)
(* code looks at the result the card may also report an error, after which *)
(* the segment may have left all the same (E1000).  A newer ACK takes the  *)
(* place of an older one: the server only looks at the highest.            *)
Wyslij(typ, ack) ==
  doSerwera' = {m \in doSerwera : m[1] # typ} \cup {<<typ, ack>>}
WyslijZBledem(typ, ack) == UNCHANGED doSerwera \/ Wyslij(typ, ack)

(* tcp_przygotuj_polaczenie: the reservation, the route (ARP may fail),    *)
(* the new connection and its SYN (the card may fail).  A socket has no    *)
(* HTTP buffer, and tcp_zapisano_bajtow is not read while it is open.      *)
tcp_przygotuj_polaczenie ==
  /\ faza = "wolna" /\ tcp_nasz_port < MaksPolaczen
  /\ ~tcp_sesja_zajeta /\ stan_tcp = "ZAMKNIETY"
  /\ \/ /\ \E gniazdo \in Tryby :
             /\ tcp_tryb_gniazda' = gniazdo
             /\ tcp_max_bajtow' \in (IF gniazdo THEN {0} ELSE RozmiaryHttp)
        /\ zapisano' = <<>>
        /\ stan_tcp' = "SYN_WYSLANY" /\ faza' = "laczenie" /\ wynik' = "trwa"
        /\ tcp_sesja_zajeta' = TRUE
        /\ tcp_nasz_port' = tcp_nasz_port + 1
        /\ tcp_nasz_seq' = Plus(IsnKlienta, tcp_nasz_port)
        /\ tcp_nasz_ack' = 0 /\ bufor' = <<>> /\ poczatek' = 0
        /\ przepelnienie' = FALSE /\ tcp_rst_odebrany' = FALSE
        /\ odczytane' = <<>> /\ eof' = FALSE
        /\ serwer' = NowySerwer /\ doSerwera' = {<<"SYN", 0>>}
     \/ Zakoncz("niepowodzenie") /\ UNCHANGED <<serwer, doSerwera>>
  /\ UNCHANGED siec

(* tcp_czekaj_na_polaczenie: true once established; false when closed,     *)
(* reset, or the time is over.                                             *)
PolaczenieGotowe ==
  /\ faza = "laczenie" /\ stan_tcp = "USTANOWIONY"
  /\ faza' = IF tcp_tryb_gniazda THEN "otwarta" ELSE "zadanie"
  /\ wynik' = IF tcp_tryb_gniazda THEN "sukces" ELSE "trwa"
  /\ UNCHANGED <<stan_tcp, sesja, odbior, tcp_rst_odebrany, historia,
                 serwer, siec, doSerwera>>

PolaczenieNieudane ==
  /\ faza = "laczenie" /\ stan_tcp # "USTANOWIONY"
  /\ Zakoncz("niepowodzenie")
  /\ UNCHANGED <<serwer, siec, doSerwera>>

-----------------------------------------------------------------------------
(* The receive path.  PrzyjmijPayload says what a segment's data does to   *)
(* the receive buffers and which acknowledgement it causes.                *)

Odbior == [ack |-> tcp_nasz_ack, bufor |-> bufor, poczatek |-> poczatek,
           zapisano |-> zapisano, przepelnienie |-> przepelnienie, potw |-> {}]

(* tcp_gniazdo_ma_miejsce with tcp_gniazdo_kompaktuj: when the segment     *)
(* does not fit behind the data, the data is moved to the front, even if   *)
(* that does not help.                                                     *)
tcp_gniazdo_ma_miejsce(n) ==
  IF n > TCP_BUFOR_GNIAZDA \/ Len(bufor) + n <= TCP_BUFOR_GNIAZDA
    THEN Odbior
    ELSE [Odbior EXCEPT !.bufor = SubSeq(bufor, poczatek + 1, Len(bufor)),
                        !.poczatek = 0]

(* Mutated form: the segment is acknowledged although it had no room.      *)
BladPotwierdzOdrzucony(s) ==
  LET n == Len(s.dane)
      o == tcp_gniazdo_ma_miejsce(n)
      nowy == Plus(tcp_nasz_ack, n)
  IN IF Len(o.bufor) + n <= TCP_BUFOR_GNIAZDA
       THEN [o EXCEPT !.bufor = @ \o s.dane, !.ack = nowy, !.potw = {nowy}]
       ELSE [o EXCEPT !.ack = nowy, !.potw = {nowy}]

(* Socket mode: all or nothing.                                            *)
DoGniazda(s) ==
  LET n == Len(s.dane)
      o == tcp_gniazdo_ma_miejsce(n)
      nowy == Plus(tcp_nasz_ack, n)
  IN IF Len(o.bufor) + n <= TCP_BUFOR_GNIAZDA
       THEN [o EXCEPT !.bufor = @ \o s.dane, !.ack = nowy, !.potw = {nowy}]
       ELSE [o EXCEPT !.potw = {tcp_nasz_ack}]

(* HTTP: what fits is stored, all of it is acknowledged, and a download    *)
(* that was cut is marked.                                                 *)

DoHttp(s) ==
  LET m == Min2(Len(s.dane), tcp_max_bajtow - Len(zapisano))
      nowy == Plus(tcp_nasz_ack, Len(s.dane))
  IN [Odbior EXCEPT !.zapisano = @ \o SubSeq(s.dane, 1, m),
                    !.przepelnienie = @ \/ m # Len(s.dane),
                    !.ack = nowy, !.potw = {nowy}]

(* Mutated form: a segment out of order is not answered.                   *)
BladDziuraBezOdpowiedzi(s) ==
  CASE s.dane = <<>> \/ s.seq # tcp_nasz_ack -> Odbior
    [] s.dane # <<>> /\ s.seq = tcp_nasz_ack /\ tcp_tryb_gniazda  -> DoGniazda(s)
    [] s.dane # <<>> /\ s.seq = tcp_nasz_ack /\ ~tcp_tryb_gniazda -> DoHttp(s)


(* tcp_przyjmij_payload: only the expected segment is taken; any other is  *)
(* answered with the current ACK.                                          *)
tcp_przyjmij_payload(s) ==
  IF s.dane = <<>> THEN Odbior
  ELSE IF s.seq # tcp_nasz_ack THEN [Odbior EXCEPT !.potw = {tcp_nasz_ack}]
  ELSE IF tcp_tryb_gniazda THEN DoGniazda(s) ELSE DoHttp(s)

(* Mutated form: a FIN that overtakes data is obeyed.                      *)
BladKazdyFin(s, ack) == "FIN" \in s.flagi

(* A FIN counts only at the expected number, after its own payload.        *)
FinPrzyjety(s, ack) == "FIN" \in s.flagi /\ Plus(s.seq, Len(s.dane)) = ack

OdbierzDane(s) ==
  LET o == tcp_przyjmij_payload(s)
      fin == FinPrzyjety(s, o.ack)
      potw == IF fin THEN {Plus(o.ack, 1)} ELSE o.potw
  IN /\ tcp_nasz_ack' = (IF fin THEN Plus(o.ack, 1) ELSE o.ack)
     /\ bufor' = o.bufor /\ poczatek' = o.poczatek
     /\ zapisano' = o.zapisano /\ przepelnienie' = o.przepelnienie
     /\ stan_tcp' = (IF fin THEN "ZAMKNIETY" ELSE stan_tcp)
     /\ IF potw = {} THEN UNCHANGED doSerwera ELSE \E n \in potw : Wyslij("ACK", n)
     /\ UNCHANGED <<tcp_nasz_seq, tcp_rst_odebrany>>

OdbierzSynAck(s) ==
  /\ {"SYN", "ACK"} \subseteq s.flagi /\ s.ack = Plus(tcp_nasz_seq, 1)
  /\ tcp_nasz_ack' = Plus(s.seq, 1)
  /\ tcp_nasz_seq' = Plus(tcp_nasz_seq, 1)
  /\ stan_tcp' = "USTANOWIONY"
  /\ Wyslij("ACK", Plus(s.seq, 1))
  /\ UNCHANGED <<bufor, poczatek, zapisano, przepelnienie, tcp_rst_odebrany>>

OdbierzRst(s) ==
  /\ tcp_rst_odebrany' = TRUE /\ stan_tcp' = "ZAMKNIETY"
  /\ UNCHANGED <<tcp_nasz_seq, odbior, doSerwera>>

(* Mutated form: segments of an earlier connection are not told apart.     *)
BladKazdyPort(s) == TRUE

DoNas(s) == s.port = tcp_nasz_port

(* obsluz_tcp, from a call that polls the card.  The segment stays in the  *)
(* network, which may deliver it again.                                    *)
obsluz_tcp(s) ==
  /\ faza \in {"laczenie", "otwarta", "zamykanie", "http"}
  /\ tcp_sesja_zajeta /\ DoNas(s)
  /\ IF "RST" \in s.flagi THEN OdbierzRst(s)
     ELSE \/ stan_tcp = "SYN_WYSLANY" /\ OdbierzSynAck(s)
          \/ stan_tcp \in {"USTANOWIONY", "FIN_WYSLANY"} /\ OdbierzDane(s)
  /\ UNCHANGED <<tcp_nasz_port, tcp_sesja_zajeta, tcp_tryb_gniazda, tcp_max_bajtow,
                 faza, wynik, historia, serwer, siec>>

-----------------------------------------------------------------------------
(* The socket calls of tls.cpp.                                            *)

(* tcp_gniazdo_wyslij: the request (one segment here).  When the card      *)
(* fails the caller gets -1 and the number is not advanced.                *)
tcp_gniazdo_wyslij ==
  /\ faza = "otwarta" /\ stan_tcp = "USTANOWIONY"
  /\ wynik = "sukces"
  /\ \/ /\ Wyslij("ZADANIE", tcp_nasz_ack)
        /\ tcp_nasz_seq' = Plus(tcp_nasz_seq, 1)
        /\ wynik' = "wyslano"
     \/ /\ WyslijZBledem("ZADANIE", tcp_nasz_ack)
        /\ wynik' = "blad" /\ UNCHANGED tcp_nasz_seq
  /\ UNCHANGED <<stan_tcp, tcp_nasz_port, tcp_sesja_zajeta, tcp_tryb_gniazda,
                 tcp_max_bajtow, odbior, tcp_rst_odebrany, faza, historia,
                 serwer, siec>>

(* tcp_gniazdo_odbierz with room for n bytes, after its poll: bytes, the   *)
(* end of the stream (0), or nothing yet (-2, no change).                  *)
tcp_gniazdo_odbierz(n) ==
  LET dostepne == Len(bufor) - poczatek
      ile == Min2(dostepne, n)
  IN /\ faza = "otwarta"
     /\ \/ /\ dostepne = 0 /\ stan_tcp = "ZAMKNIETY"
           /\ eof' = TRUE
           /\ UNCHANGED <<odczytane, bufor, poczatek>>
        \/ /\ dostepne > 0
           /\ odczytane' = odczytane \o SubSeq(bufor, poczatek + 1, poczatek + ile)
           /\ IF ile = dostepne
                THEN bufor' = <<>> /\ poczatek' = 0
                ELSE bufor' = bufor /\ poczatek' = poczatek + ile
           /\ UNCHANGED eof
     /\ UNCHANGED <<stan_tcp, sesja, tcp_nasz_ack, zapisano, przepelnienie,
                    tcp_rst_odebrany, faza, wynik, serwer, siec, doSerwera>>

(* tcp_zamknij_grzecznie: a FIN on an established connection.              *)
tcp_zamknij_grzecznie ==
  IF stan_tcp = "USTANOWIONY"
    THEN \/ /\ Wyslij("FIN", tcp_nasz_ack)
            /\ tcp_nasz_seq' = Plus(tcp_nasz_seq, 1)
            /\ stan_tcp' = "FIN_WYSLANY"
         \/ WyslijZBledem("FIN", tcp_nasz_ack) /\ UNCHANGED <<tcp_nasz_seq, stan_tcp>>
    ELSE UNCHANGED <<tcp_nasz_seq, stan_tcp, doSerwera>>

(* tcp_gniazdo_zamknij: the FIN, then a bounded number of polls, then the  *)
(* reset whatever came.  An HTTP request that cannot be built ends here    *)
(* too (4222).                                                             *)
tcp_gniazdo_zamknij ==
  /\ faza \in {"otwarta", "zadanie"}
  /\ tcp_zamknij_grzecznie
  /\ faza' = "zamykanie"
  /\ UNCHANGED <<tcp_nasz_port, tcp_sesja_zajeta, tcp_tryb_gniazda, tcp_max_bajtow,
                 odbior, tcp_rst_odebrany, wynik, historia, serwer, siec>>

KoniecZamykania ==
  /\ faza = "zamykanie"
  /\ Zakoncz("niepowodzenie")
  /\ UNCHANGED <<serwer, siec, doSerwera>>

-----------------------------------------------------------------------------
(* kernel_siec_pobierz_http after the handshake.                           *)

HttpZadanie ==
  /\ faza = "zadanie"
  /\ \/ /\ Wyslij("ZADANIE", tcp_nasz_ack)
        /\ tcp_nasz_seq' = Plus(tcp_nasz_seq, 1)
        /\ faza' = "http"
        /\ UNCHANGED <<stan_tcp, tcp_nasz_port, tcp_sesja_zajeta, tcp_tryb_gniazda,
                       tcp_max_bajtow, odbior, tcp_rst_odebrany, wynik, historia>>
     \/ WyslijZBledem("ZADANIE", tcp_nasz_ack) /\ Zakoncz("niepowodzenie")
  /\ UNCHANGED <<serwer, siec>>

HttpSukces == zapisano # <<>> /\ ~przepelnienie /\ ~tcp_rst_odebrany

(* The end of the download: the connection is closed or reset, or the time *)
(* is over; in the last case a FIN is sent.  `czas' tells them apart.      *)
HttpKoniec(czas) ==
  /\ faza = "http"
  /\ czas = (stan_tcp # "ZAMKNIETY")
  /\ IF czas THEN WyslijZBledem("FIN", tcp_nasz_ack) ELSE UNCHANGED doSerwera
  /\ Zakoncz(IF ~HttpSukces THEN "niepowodzenie"
             ELSE IF czas THEN "sukces po czasie" ELSE "sukces")
  /\ UNCHANGED <<serwer, siec>>

-----------------------------------------------------------------------------
(* The server and the network (external).                                  *)

(* The place of the server's stream that an acknowledgement names.         *)
Miejsce(ack) == CHOOSE k \in 0 .. MiejsceFin + 1 : Plus(IsnSerwera, k) = ack

SerwerOdbiera(m) ==
  /\ m \in doSerwera
  /\ \/ m[1] = "SYN" /\ ~serwer.syn /\ serwer' = [serwer EXCEPT !.syn = TRUE]
     \/ /\ m[1] # "SYN" /\ serwer.syn
        /\ serwer' = [serwer EXCEPT
             !.una = IF Miejsce(m[2]) > @ THEN Miejsce(m[2]) ELSE @,
             !.zadanie = @ \/ m[1] = "ZADANIE"]
        /\ serwer' # serwer
  /\ UNCHANGED <<klient, siec, doSerwera>>

ZgubAck(m) ==
  /\ m \in doSerwera /\ m[1] = "ACK"
  /\ doSerwera' = doSerwera \ {m}
  /\ UNCHANGED <<klient, serwer, siec>>

(* The segments of the newest connection.                                  *)
Biezace == {s \in siec : s.port = tcp_nasz_port}

Nadaj(s) ==
  /\ Cardinality(Biezace) < MaksWSieci /\ s \notin siec
  /\ siec' = siec \cup {s}
  /\ UNCHANGED <<klient, serwer, doSerwera>>

SerwerSynAck ==
  /\ serwer.syn /\ serwer.una = 0
  /\ Nadaj(Segment(IsnSerwera, Plus(IsnKlienta, tcp_nasz_port), {"SYN", "ACK"}, <<>>))

(* Bytes i .. j of the answer, with the FIN after the last byte or alone.  *)
SerwerDane(i, j, fin) ==
  /\ serwer.una > 0 /\ serwer.zadanie /\ i >= serwer.una
  /\ fin => j = DlugoscOdpowiedzi
  /\ fin \/ i <= j
  /\ j < i + Mss
  /\ Nadaj(Segment(Plus(IsnSerwera, i), 0, {"ACK"} \cup (IF fin THEN {"FIN"} ELSE {}),
                   SubSeq(Odpowiedz(tcp_nasz_port), i, j)))

SerwerRst == serwer.syn /\ Nadaj(Segment(0, 0, {"RST"}, <<>>))

Zgub(s) ==
  /\ s \in siec
  /\ siec' = siec \ {s}
  /\ UNCHANGED <<klient, serwer, doSerwera>>

Serwer ==
  \/ \E m \in doSerwera : SerwerOdbiera(m) \/ ZgubAck(m)
  \/ SerwerSynAck
  \/ \E i \in 1 .. MiejsceFin, j \in 0 .. DlugoscOdpowiedzi, fin \in BOOLEAN :
       SerwerDane(i, j, fin)
  \/ SerwerRst
  \/ \E s \in siec : Zgub(s)

Wywolania ==
  \/ tcp_przygotuj_polaczenie \/ PolaczenieGotowe \/ PolaczenieNieudane
  \/ tcp_gniazdo_wyslij
  \/ \E n \in 1 .. TCP_BUFOR_GNIAZDA : tcp_gniazdo_odbierz(n)
  \/ tcp_gniazdo_zamknij \/ KoniecZamykania
  \/ HttpZadanie
  \/ \E czas \in BOOLEAN : HttpKoniec(czas)

Next ==
  \/ Wywolania
  \/ \E s \in siec : obsluz_tcp(s)
  \/ Serwer

Spec == Init /\ [][Next]_vars

-----------------------------------------------------------------------------
(* Fairness for the liveness property.  The card is polled, so a segment   *)
(* that keeps arriving is taken (SF); the server keeps repeating what is   *)
(* not acknowledged, and the network does not lose everything for ever.    *)
(* Nothing of ours but the ACKs may be lost: the stack never repeats a SYN *)
(* or a request (siec.h 677 says so).  The caller keeps reading.           *)
OdbierzOczekiwany ==
  \E s \in siec : (s.seq = tcp_nasz_ack \/ stan_tcp = "SYN_WYSLANY") /\ obsluz_tcp(s)
PowtorzStare == \E s \in siec : s.seq # tcp_nasz_ack /\ obsluz_tcp(s)
NadajOdUna == \E j \in 0 .. DlugoscOdpowiedzi, fin \in BOOLEAN :
                 (serwer.una <= j \/ fin) /\ SerwerDane(serwer.una, j, fin)
ZwolnijSiec == Cardinality(Biezace) = MaksWSieci /\ \E s \in Biezace : Zgub(s)

Uczciwosc ==
  /\ SF_vars(OdbierzOczekiwany) /\ SF_vars(PowtorzStare)
  /\ SF_vars(NadajOdUna) /\ SF_vars(ZwolnijSiec)
  /\ SF_vars(\E m \in doSerwera : SerwerOdbiera(m))
  /\ WF_vars(\E n \in 1 .. TCP_BUFOR_GNIAZDA : tcp_gniazdo_odbierz(n))

FairSpec == Spec /\ Uczciwosc

-----------------------------------------------------------------------------
(* What the socket's caller is given is the server's stream of this        *)
(* connection, whatever the network repeats, reorders or keeps from an     *)
(* earlier connection, and 0 is answered only at its end or after an RST   *)
(* (tcp_gniazdo_odbierz, obsluz_tcp).                                      *)
Strumien == INSTANCE StrumienTcp WITH nr <- tcp_nasz_port, zerwane <- tcp_rst_odebrany
ImplementujeStrumien == Strumien!Spec

(* "Dla TLS nie wolno utracic ani jednego bajtu" (3707): whatever was      *)
(* acknowledged to the server was given to the caller or waits in the      *)
(* buffer, also when the buffer was full or its data was moved.            *)
NicNiePrzepada ==
  faza = "otwarta" =>
    LET u == odczytane \o SubSeq(bufor, poczatek + 1, Len(bufor)) IN
    \A m \in doSerwera :
      m[1] # "SYN" =>
        \/ Miejsce(m[2]) - 1 <= Len(u)
        \/ Miejsce(m[2]) - 1 = MiejsceFin /\ u = Odpowiedz(tcp_nasz_port)

(* A download that ended before its time and is reported as a success is   *)
(* the whole answer: a FIN that overtook data, an RST or a buffer that was *)
(* too small are not taken for it (4298-4301).                             *)
HttpSukcesToCalosc ==
  faza = "wolna" /\ wynik = "sukces" => zapisano = Odpowiedz(tcp_nasz_port)

(* With a server that repeats what is not acknowledged, a caller that      *)
(* keeps reading gets to the end of the answer although segments and ACKs  *)
(* are lost and the buffer is too small for the answer: every segment that *)
(* is not taken is answered with the current ACK (3690-3700, 3711-3720).   *)
OdpowiedzDociera ==
  (faza = "otwarta" /\ serwer.zadanie) ~> (eof \/ faza # "otwarta")
=============================================================================
