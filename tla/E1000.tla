------------------------------- MODULE E1000 -------------------------------
(***************************************************************************)
(* The two descriptor rings of the network card (e1000.cpp), polled, each  *)
(* under its own lock.  A sender takes the descriptor at tx_aktualny if it *)
(* is done, fills it, moves the tail and waits until it is done or gives   *)
(* up; the frame stays with the card.  The receiver goes over the          *)
(* descriptors that are done, hands good frames to the stack and gives     *)
(* each descriptor back by moving the tail to it.                          *)
(*                                                                         *)
(* The card is external: between any two steps of the driver it sends the  *)
(* frame at its head while the link is up, or stores a frame that arrives; *)
(* a ring whose head has reached its tail is empty for it.  doNadania and  *)
(* odebrane are not in the code: the frames the card was given and has not *)
(* sent, and those it has stored and the driver has not passed.            *)
(***************************************************************************)
EXTENDS Naturals, Sequences

CONSTANTS E1000_NUM_TX_DESC, E1000_NUM_RX_DESC,   \* 8 and 32
          RamkiSieci,                              \* frames
          Zle                                      \* those with an error or a bad length

(* A ring has a descriptor: assumed of the constants where a proof needs   *)
(* it.                                                                     *)
KartaZalozenia ==
    /\ E1000_NUM_TX_DESC \in Nat /\ E1000_NUM_TX_DESC > 0
    /\ E1000_NUM_RX_DESC \in Nat /\ E1000_NUM_RX_DESC > 0

VARIABLES tx_aktualny, tx_dd, tx_ramka, tdh, tdt, nadawca, lacze, doNadania,
          rx_aktualny, rx_dd, rx_ramka, rdh, rdt, odbiorca, przetworzone, odebrane

nadawanie == <<tx_aktualny, tx_dd, tx_ramka, tdh, tdt, nadawca, lacze, doNadania>>
odbior    == <<rx_aktualny, rx_dd, rx_ramka, rdh, rdt, odbiorca, przetworzone, odebrane>>
karta     == <<nadawanie, odbior>>

TX == 0 .. E1000_NUM_TX_DESC - 1
RX == 0 .. E1000_NUM_RX_DESC - 1
BRAK == "brak"
NIKT == E1000_NUM_TX_DESC

(* zaalokuj_tx, skonfiguruj_tx, zaalokuj_rx, skonfiguruj_rx.               *)
E1000Init ==
    /\ tx_aktualny = 0 /\ tx_dd = [i \in TX |-> TRUE] /\ tx_ramka = [i \in TX |-> BRAK]
    /\ tdh = 0 /\ tdt = 0 /\ nadawca = NIKT /\ lacze \in BOOLEAN /\ doNadania = <<>>
    /\ rx_aktualny = 0 /\ rx_dd = [i \in RX |-> FALSE] /\ rx_ramka = [i \in RX |-> BRAK]
    /\ rdh = 0 /\ rdt = E1000_NUM_RX_DESC - 1
    /\ odbiorca = "wolny" /\ przetworzone = 0 /\ odebrane = <<>>

-----------------------------------------------------------------------------
(* Sending.  nadawca is the descriptor that e1000_wyslij_pakiet waits for. *)

(* Mutated form: the descriptor is taken whether it is done or not.        *)
BladNieCzeka(i) == TRUE

Wolny(i) == tx_dd[i]

(* If the descriptor does not become free the call fails and changes       *)
(* nothing.                                                                *)
e1000_wyslij_pakiet(f) ==
    LET nastepny == (tx_aktualny + 1) % E1000_NUM_TX_DESC
    IN  /\ nadawca = NIKT /\ Wolny(tx_aktualny)
        /\ tx_ramka' = [tx_ramka EXCEPT ![tx_aktualny] = f]
        /\ tx_dd' = [tx_dd EXCEPT ![tx_aktualny] = FALSE]
        /\ tx_aktualny' = nastepny /\ tdt' = nastepny
        /\ nadawca' = tx_aktualny
        /\ doNadania' = Append(doNadania, f)
        /\ UNCHANGED <<tdh, lacze, odbior>>

(* The descriptor is done (the call returns true), or the sender gives up. *)
KoniecCzekania ==
    /\ nadawca # NIKT /\ nadawca' = NIKT
    /\ UNCHANGED <<tx_aktualny, tx_dd, tx_ramka, tdh, tdt, lacze, doNadania, odbior>>

KartaNadaje ==
    /\ lacze /\ tdh # tdt
    /\ tx_dd' = [tx_dd EXCEPT ![tdh] = TRUE]
    /\ tx_ramka' = [tx_ramka EXCEPT ![tdh] = BRAK]   \* what is left there does not matter
    /\ tdh' = (tdh + 1) % E1000_NUM_TX_DESC
    /\ doNadania' = IF doNadania = <<>> THEN <<>> ELSE Tail(doNadania)
    /\ UNCHANGED <<tx_aktualny, tdt, nadawca, lacze, odbior>>

ZmianaLacza ==
    /\ lacze' = ~ lacze
    /\ UNCHANGED <<tx_aktualny, tx_dd, tx_ramka, tdh, tdt, nadawca, doNadania, odbior>>

-----------------------------------------------------------------------------
(* Receiving: one pass of e1000_obsluz_odbior, at most once around.        *)

ZacznijOdbior ==
    /\ odbiorca = "wolny" /\ odbiorca' = "petla" /\ przetworzone' = 0
    /\ UNCHANGED <<rx_aktualny, rx_dd, rx_ramka, rdh, rdt, odebrane, nadawanie>>

(* A good frame is handed to the stack, which reads it in the buffer of    *)
(* the descriptor.                                                         *)
Przekaz ==
    /\ odbiorca = "petla" /\ przetworzone < E1000_NUM_RX_DESC /\ rx_dd[rx_aktualny]
    /\ odbiorca' = IF rx_ramka[rx_aktualny] \in Zle THEN "oddaj" ELSE "stos"
    /\ UNCHANGED <<rx_aktualny, rx_dd, rx_ramka, rdh, rdt, przetworzone, odebrane, nadawanie>>

obsluz_pakiet_sieciowy ==
    /\ odbiorca = "stos" /\ odbiorca' = "oddaj"
    /\ UNCHANGED <<rx_aktualny, rx_dd, rx_ramka, rdh, rdt, przetworzone, odebrane, nadawanie>>

(* Mutated form: the descriptor is given back with its DD bit set.         *)
BladZostawiaDD ==
    /\ odbiorca = "oddaj" /\ odbiorca' = "petla"
    /\ rdt' = rx_aktualny /\ rx_aktualny' = (rx_aktualny + 1) % E1000_NUM_RX_DESC
    /\ przetworzone' = przetworzone + 1 /\ odebrane' = Tail(odebrane)
    /\ UNCHANGED <<rx_dd, rx_ramka, rdh, nadawanie>>

Oddaj ==
    /\ odbiorca = "oddaj" /\ odbiorca' = "petla"
    /\ rx_dd' = [rx_dd EXCEPT ![rx_aktualny] = FALSE]
    /\ rx_ramka' = [rx_ramka EXCEPT ![rx_aktualny] = BRAK]
    /\ rdt' = rx_aktualny /\ rx_aktualny' = (rx_aktualny + 1) % E1000_NUM_RX_DESC
    /\ przetworzone' = przetworzone + 1 /\ odebrane' = Tail(odebrane)
    /\ UNCHANGED <<rdh, nadawanie>>

KoniecOdbioru ==
    /\ odbiorca = "petla" /\ (przetworzone = E1000_NUM_RX_DESC \/ ~ rx_dd[rx_aktualny])
    /\ odbiorca' = "wolny" /\ przetworzone' = 0
    /\ UNCHANGED <<rx_aktualny, rx_dd, rx_ramka, rdh, rdt, odebrane, nadawanie>>

(* A frame that finds no descriptor is lost.                               *)
KartaOdbiera(f) ==
    /\ lacze /\ rdh # rdt
    /\ rx_dd' = [rx_dd EXCEPT ![rdh] = TRUE] /\ rx_ramka' = [rx_ramka EXCEPT ![rdh] = f]
    /\ rdh' = (rdh + 1) % E1000_NUM_RX_DESC
    /\ odebrane' = Append(odebrane, f)
    /\ UNCHANGED <<rx_aktualny, rdt, odbiorca, przetworzone, nadawanie>>

E1000Next ==
    \/ \E f \in RamkiSieci \ Zle : e1000_wyslij_pakiet(f)
    \/ KoniecCzekania \/ KartaNadaje \/ ZmianaLacza
    \/ ZacznijOdbior \/ Przekaz \/ obsluz_pakiet_sieciowy \/ Oddaj \/ KoniecOdbioru
    \/ \E f \in RamkiSieci : KartaOdbiera(f)

E1000Spec == E1000Init /\ [][E1000Next]_karta

-----------------------------------------------------------------------------
(* Properties.                                                             *)

(* The n descriptors of a ring of r from i on.                             *)
Od(i, n, r) == [k \in 1 .. n |-> (i + k - 1) % r]

(* Whatever senders give up and whenever the link comes and goes, the card *)
(* will send the frames it was given, each once and in order, and the      *)
(* descriptors not done are theirs (e1000.cpp 2386-2527). Only when every  *)
(* descriptor was filled while none was sent does the tail meet the head:  *)
(* the ring is empty for the card and full for the driver from then on.    *)
NadawczyJestKolejka ==
    LET k == Od(tdh, (tdt + E1000_NUM_TX_DESC - tdh) % E1000_NUM_TX_DESC, E1000_NUM_TX_DESC)
    IN  \/ Len(doNadania) = E1000_NUM_TX_DESC
        \/ /\ doNadania = [i \in DOMAIN k |-> tx_ramka[k[i]]]
           /\ \A d \in TX : tx_dd[d] <=> ~ \E i \in DOMAIN k : k[i] = d

(* The driver meets the frames the card stored, each once and in order,    *)
(* and the card never writes to a descriptor the driver has not given      *)
(* back, although it works on while the stack reads a frame (2570-2676).   *)
OdbiorczyJestKolejka ==
    LET k == Od(rx_aktualny, Len(odebrane), E1000_NUM_RX_DESC)
    IN  /\ Len(odebrane) < E1000_NUM_RX_DESC
        /\ odebrane = [i \in DOMAIN k |-> rx_ramka[k[i]]]
        /\ \A d \in RX : rx_dd[d] <=> \E i \in DOMAIN k : k[i] = d

(* Both rings of the card are queues (e1000.cpp 2386-2527 and 2570-2676).  *)
RingiToKolejki == NadawczyJestKolejka /\ OdbiorczyJestKolejka
=============================================================================
