----------------------------- MODULE MCPresence -----------------------------
(***************************************************************************)
(* Presence for TLC.  Sockets are interchangeable, and so are tickets.     *)
(***************************************************************************)
EXTENDS Presence, TLC

Interchangeable == Permutations(Socket) \cup Permutations(Ticket)
=============================================================================
