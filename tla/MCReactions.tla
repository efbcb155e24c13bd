---------------------------- MODULE MCReactions -----------------------------
(***************************************************************************)
(* Reactions for TLC.  Requests, users and emojis are interchangeable.     *)
(***************************************************************************)
EXTENDS Reactions, TLC

Interchangeable == Permutations(Request) \cup Permutations(User) \cup Permutations(Emoji)
=============================================================================
