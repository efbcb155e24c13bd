---------------------------- MODULE MCDirectSend ----------------------------
(***************************************************************************)
(* Instances of DirectSend for TLC.                                        *)
(***************************************************************************)
EXTENDS DirectSend, TLC

CONSTANTS ana, bek, cem, a1, b1, b2, c1, k1, k2, pic, r1, r2

AllOwners == a1 :> ana @@ b1 :> bek @@ b2 :> bek @@ c1 :> cem

MCOwner      == [d \in Device |-> AllOwners[d]]
MCMediaOwner == [x \in Media |-> ana]

Body(from, device, to, key, envelopes) ==
  [sender |-> from, device |-> device, recipient |-> to, key |-> key,
   envelopes |-> envelopes, media |-> {}, replyTo |-> None]

\* Two messages to one recipient, and the first key reused for another thread.
RaceDto == {Body(ana, a1, bek, k1, {b1}),
            Body(ana, a1, bek, k2, {b1}),
            Body(ana, a1, cem, k1, {c1})}

\* One attachment offered to two threads under two keys.
MediaDto == {[Body(ana, a1, bek, k1, {b1}) EXCEPT !.media = {pic}],
             [Body(ana, a1, cem, k2, {c1}) EXCEPT !.media = {pic}]}

\* Both directions of one thread, one attachment for two threads, a reply, a reply
\* to it, and envelopes that miss or exceed the active devices.
BodiesDto ==
  LET first == Body(ana, a1, bek, k1, {b1})
      back  == Body(bek, b1, ana, k1, {a1})
  IN  MediaDto \cup {[first EXCEPT !.envelopes = {b1, b2}],
                     [back EXCEPT !.replyTo = r1],
                     [back EXCEPT !.key = k2, !.replyTo = r2]}
=============================================================================
