---------------------------- MODULE DrzewoPlikow ----------------------------
(***************************************************************************)
(* What the Bursztyn file system promises: a tree of names whose every     *)
(* operation happens at once or not at all.  The tree is a function from   *)
(* the paths that exist to KATALOG or to the contents of a file; the root  *)
(* is the empty path.  A start brings some tree, a loss of power takes it  *)
(* away.                                                                   *)
(***************************************************************************)
EXTENDS Sequences, Naturals, TLC
LOCAL INSTANCE SequencesExt

CONSTANTS Nazwy,       \* names of files and directories
          KATALOG,     \* what a directory is mapped to
          PUSTY,       \* the contents of a new file
          Tresci       \* the contents a file may be given

VARIABLES drzewo, wlaczony

vars == <<drzewo, wlaczony>>

Pod(p, q) == IsPrefix(p, q)
Rodzic(p) == Front(p)
Reszta(p, q) == SubSeq(q, Len(p) + 1, Len(q))

(* Every path that exists lies in directories that exist.                  *)
Drzewiasty(d) ==
    /\ <<>> \in DOMAIN d
    /\ \A p \in DOMAIN d \ {<<>>} :
          Rodzic(p) \in DOMAIN d /\ d[Rodzic(p)] = KATALOG

Init == ~wlaczony /\ drzewo = <<>>

Start   == ~wlaczony /\ wlaczony' /\ Drzewiasty(drzewo')
Wylacz  == wlaczony /\ ~wlaczony' /\ drzewo' = <<>>

Wolna(p) == /\ p # <<>> /\ p \notin DOMAIN drzewo
            /\ Rodzic(p) \in DOMAIN drzewo /\ drzewo[Rodzic(p)] = KATALOG

Utworz == \E p \in DOMAIN drzewo', t \in {KATALOG, PUSTY} :
              Wolna(p) /\ drzewo' = drzewo @@ (p :> t)

Zapisz == \E p \in DOMAIN drzewo, t \in Tresci :
              drzewo[p] # KATALOG /\ drzewo' = [drzewo EXCEPT ![p] = t]

Usun == \E p \in DOMAIN drzewo \ {<<>>} :
            /\ \A q \in DOMAIN drzewo : Pod(p, q) => q = p
            /\ drzewo' = [q \in DOMAIN drzewo \ {p} |-> drzewo[q]]

(* The subtree of p appears at r; it leaves p, or it stays there too.      *)
Pojawia(p, r, zostaje) ==
    LET stare == {q \in DOMAIN drzewo : Pod(p, q)}
        nowe  == {r \o Reszta(p, q) : q \in stare}
    IN  [q \in (DOMAIN drzewo \ (IF zostaje THEN {} ELSE stare)) \cup nowe |->
           IF q \in nowe THEN drzewo[p \o Reszta(r, q)] ELSE drzewo[q]]

PrzeniesLubKopiuj ==
    \E p \in DOMAIN drzewo \ {<<>>}, r \in DOMAIN drzewo' :
        /\ Wolna(r) /\ ~Pod(p, r)
        /\ \E zostaje \in BOOLEAN : drzewo' = Pojawia(p, r, zostaje)

Next == \/ Start \/ Wylacz
        \/ /\ wlaczony /\ wlaczony'
           /\ Utworz \/ Zapisz \/ Usun \/ PrzeniesLubKopiuj

Spec == Init /\ [][Next]_vars
=============================================================================
