------------------------------- MODULE MCTcp -------------------------------
(* Sockets and downloads one after the other.  The answer has three bytes, *)
(* the buffer of a socket two, so that it fills up and its data is moved;  *)
(* a download has room for two bytes or for three.  All numbers wrap       *)
(* within a connection.  One segment of each connection is under way to us *)
(* at a time: the server sends its segments in any order and again, so     *)
(* that any order of arrival occurs, and a segment of the first connection *)
(* may arrive between those of the second.                                 *)
EXTENDS Tcp
=============================================================================
