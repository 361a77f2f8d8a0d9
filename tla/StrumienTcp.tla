---------------------------- MODULE StrumienTcp ----------------------------
(***************************************************************************)
(* What tls.cpp relies on when it reads from a socket (sockets.h 60-72):   *)
(* the bytes of one connection arrive once, in order and without gaps, and *)
(* the answer 0 means that the other side closed and nothing is left.  A   *)
(* connection that was broken off (RST) may end early.                     *)
(***************************************************************************)
EXTENDS Naturals, Sequences

CONSTANT Odpowiedz(_)   \* the bytes the server sends on a connection

VARIABLES nr,           \* number of the connection
          odczytane,    \* bytes handed to the caller
          eof,          \* the caller was told that the stream has ended
          zerwane       \* the connection was broken off

vars == <<nr, odczytane, eof, zerwane>>

Init == nr = 0 /\ odczytane = <<>> /\ eof = FALSE /\ zerwane = FALSE

Otworz ==
  /\ nr' = nr + 1 /\ odczytane' = <<>> /\ eof' = FALSE /\ zerwane' = FALSE

Czytaj ==
  /\ ~eof
  /\ \E k \in Len(odczytane) + 1 .. Len(Odpowiedz(nr)) :
       odczytane' = SubSeq(Odpowiedz(nr), 1, k)
  /\ UNCHANGED <<nr, eof, zerwane>>

ZglosKoniec ==
  /\ zerwane \/ odczytane = Odpowiedz(nr)
  /\ eof' = TRUE
  /\ UNCHANGED <<nr, odczytane, zerwane>>

Zerwij == zerwane' = TRUE /\ UNCHANGED <<nr, odczytane, eof>>

Zamknij == zerwane' = FALSE /\ UNCHANGED <<nr, odczytane, eof>>

Next == Otworz \/ Czytaj \/ ZglosKoniec \/ Zerwij \/ Zamknij

Spec == Init /\ [][Next]_vars
=============================================================================
