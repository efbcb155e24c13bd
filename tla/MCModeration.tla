---------------------------- MODULE MCModeration ----------------------------
(***************************************************************************)
(* Suspension and Reports for TLC.  suspendUser has its own copy of the    *)
(* statement that closes reports, so either the account or the reports     *)
(* move in a behaviour.  At most one report is older than the day; which   *)
(* one makes no difference.                                                *)
(***************************************************************************)
EXTENDS Suspension, Reports

VARIABLE part

ModerationInit ==
  /\ Init /\ ReportInit
  /\ earlier \subseteq {CHOOSE p \in Report : TRUE}
  /\ part \in {"account", "reports"}
  /\ part = "account" => earlier = {}

ModerationNext ==
  \/ part = "account" /\ Next /\ UNCHANGED <<part, reportVars>>
  \/ part = "reports" /\ ReportNext /\ UNCHANGED <<part, vars>>

ModerationSpec ==
  /\ ModerationInit /\ [][ModerationNext]_<<part, vars, reportVars>>
  /\ Fairness
=============================================================================
