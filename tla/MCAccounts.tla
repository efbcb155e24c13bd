----------------------------- MODULE MCAccounts -----------------------------
(***************************************************************************)
(* Accounts and Backups for TLC.  They share no row, so either the devices *)
(* and profiles or the backup moves in a behaviour.                        *)
(*                                                                         *)
(* There are two names that differ in case only.  Requests, and the key    *)
(* numbers and users they name, are interchangeable.                       *)
(***************************************************************************)
EXTENDS Accounts, Backups, TLC

CONSTANTS Upper, Lower

MCName == {Upper, Lower}
MCFold == [n \in MCName |-> Lower]

VARIABLE part

UserDataInit ==
  /\ Init /\ BackupInit
  /\ part \in {"account", "backup"}
  /\ part = "backup" => known = {}

UserDataNext ==
  \/ part = "account" /\ Next /\ UNCHANGED <<part, backupVars>>
  \/ part = "backup" /\ BackupNext /\ UNCHANGED <<part, vars>>

UserDataSpec == UserDataInit /\ [][UserDataNext]_<<part, vars, backupVars>>

Interchangeable ==
  Permutations(Request) \cup Permutations(Device) \cup Permutations(KeyId) \cup Permutations(User)
    \cup Permutations(PushToken)
=============================================================================
