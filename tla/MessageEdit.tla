---------------------------- MODULE MessageEdit ----------------------------
(***************************************************************************)
(* Editing a direct message (MessagesService.edit) while it may be deleted *)
(* for everyone (MessagesService.delete).  editGroupMessage updates the    *)
(* Message row with the same statement and leaves the envelopes to a job.  *)
(*                                                                         *)
(* The point is the condition of the update.  In SQL a comparison with     *)
(* NULL is not true, so lastEditIdempotencyKey <> key does not select a    *)
(* row whose key is NULL: Differs below.                                   *)
(***************************************************************************)
EXTENDS Naturals

CONSTANTS
  Edit,      \* the edit requests of the sender, retries included (a bound)
  Key,       \* idempotency keys
  KeyOf,     \* the key each request carries
  Device,    \* the devices that have an envelope of the message
  NULL       \* an empty column

VARIABLES
  lastEditIdempotencyKey,
  edited,      \* editedAt is set
  deleted,     \* deletedAt is set
  ciphertext,  \* ciphertext[d]: the edit whose text the envelope holds, or NULL
  pc,          \* the step of each edit
  todo,        \* the envelopes an edit has yet to update
  emitted      \* edits that emitted message.edited

row  == <<lastEditIdempotencyKey, edited, deleted>>
vars == <<row, ciphertext, pc, todo, emitted>>

TypeOK ==
  /\ lastEditIdempotencyKey \in Key \cup {NULL}
  /\ edited \in BOOLEAN /\ deleted \in BOOLEAN
  /\ ciphertext \in [Device -> Edit \cup {NULL}]
  /\ pc \in [Edit -> {"idle", "update", "envelopes", "emit", "ok", "error"}]
  /\ todo \in [Edit -> SUBSET Device]
  /\ emitted \subseteq Edit

Init ==
  /\ lastEditIdempotencyKey = NULL
  /\ edited = FALSE /\ deleted = FALSE
  /\ ciphertext = [d \in Device |-> NULL]
  /\ pc = [e \in Edit |-> "idle"]
  /\ todo = [e \in Edit |-> {}]
  /\ emitted = {}

Goto(e, step) == pc' = [pc EXCEPT ![e] = step]

\* delete, scope FOR_EVERYONE: the tombstone.
Delete ==
  /\ ~deleted
  /\ deleted' = TRUE
  /\ UNCHANGED <<lastEditIdempotencyKey, edited, ciphertext, pc, todo, emitted>>

\* The caller is the sender, its device is active and the message is recent
\* enough; what may change meanwhile is deletedAt.
CheckAccess(e) ==
  /\ pc[e] = "idle"
  /\ Goto(e, IF deleted THEN "error" ELSE "update")
  /\ UNCHANGED <<row, ciphertext, todo, emitted>>

\* lastEditIdempotencyKey: { not: key } as the database evaluates it.
Differs(column, key) == column # NULL /\ column # key

\* updateMany; with count 0 the row as it is is the answer.
Update(e) ==
  /\ pc[e] = "update"
  /\ \/ /\ Differs(lastEditIdempotencyKey, KeyOf[e])
        /\ lastEditIdempotencyKey' = KeyOf[e]
        /\ edited' = TRUE
        /\ todo' = [todo EXCEPT ![e] = Device]
        /\ Goto(e, "envelopes")
        /\ UNCHANGED deleted
     \/ /\ ~Differs(lastEditIdempotencyKey, KeyOf[e])
        /\ Goto(e, "ok")
        /\ UNCHANGED <<row, todo>>
  /\ UNCHANGED <<ciphertext, emitted>>

\* One envelope after the other, each its own statement.
UpdateEnvelope(e) ==
  /\ pc[e] = "envelopes"
  /\ \/ \E d \in todo[e] :
          /\ ciphertext' = [ciphertext EXCEPT ![d] = e]
          /\ todo' = [todo EXCEPT ![e] = @ \ {d}]
          /\ UNCHANGED pc
     \/ /\ todo[e] = {}
        /\ Goto(e, "emit")
        /\ UNCHANGED <<ciphertext, todo>>
  /\ UNCHANGED <<row, emitted>>

Emit(e) ==
  /\ pc[e] = "emit"
  /\ emitted' = emitted \cup {e}
  /\ Goto(e, "ok")
  /\ UNCHANGED <<row, ciphertext, todo>>

Next ==
  \/ Delete
  \/ \E e \in Edit : CheckAccess(e) \/ Update(e) \/ UpdateEnvelope(e) \/ Emit(e)

Spec == Init /\ [][Next]_vars

-----------------------------------------------------------------------------
(* What a comment of the code says and the code does not keep.             *)

\* src/messages/messages.service.ts, above the update: "only update if the key is
\* different or null".  So an edit that is answered with success has been applied,
\* or another one of its key, or a later edit, has.
AcceptedEditIsApplied == \A e \in Edit : pc[e] = "ok" => edited
=============================================================================
