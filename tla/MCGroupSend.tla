----------------------------- MODULE MCGroupSend -----------------------------
(***************************************************************************)
(* Instances of GroupSend for TLC.                                         *)
(***************************************************************************)
EXTENDS GroupSend, TLC

CONSTANTS ana, bek, cem, a1, a2, b1, c1, k1, k2, pic, g1, g2, r1, r2

AllOwners == a1 :> ana @@ a2 :> ana @@ b1 :> bek @@ c1 :> cem

MCOwner      == [d \in Device |-> AllOwners[d]]
MCMediaOwner == [x \in Media |-> ana]
MCMembers    == [g \in Group |-> IF g = g1 THEN {ana, bek} ELSE {ana}]

Body(from, device, group, key) ==
  [sender |-> from, device |-> device, group |-> group, key |-> key,
   media |-> {}, replyTo |-> None]

First == Body(ana, a1, g1, k1)

\* One attachment offered to two groups, a reply under another key, and another
\* member's reply to it.
RaceDto == {[First EXCEPT !.media = {pic}],
            [First EXCEPT !.key = k2, !.replyTo = r1],
            [Body(bek, b1, g1, k1) EXCEPT !.replyTo = r2],
            [Body(ana, a1, g2, k2) EXCEPT !.media = {pic}]}

\* One message, its retries, and one of a user who joins and leaves.
FanoutDto == {First, Body(bek, b1, g1, k1)}
==============================================================================
