----------------------------- MODULE MCSessions -----------------------------
(***************************************************************************)
(* Sessions and Otp for TLC: the two halves of the authentication service. *)
(* They meet in verifyOtp, whose last step in Otp is the account that the  *)
(* first step of a login in Sessions is about, and share no row.  So that  *)
(* the number of states is the sum and not the product of theirs, either   *)
(* the codes or the sessions move in a behaviour.                          *)
(*                                                                         *)
(* Refreshes are interchangeable, and so are logins: no action or property *)
(* tells two of them apart but by what they did.                           *)
(***************************************************************************)
EXTENDS Sessions, Otp, TLC

VARIABLE part

AuthInit ==
  /\ Init /\ OtpInit
  /\ part \in {"codes", "sessions"}
  /\ part = "sessions" => shaUser = NoUser

AuthNext ==
  \/ part = "sessions" /\ Next /\ UNCHANGED <<part, otpVars>>
  \/ part = "codes" /\ OtpNext /\ UNCHANGED <<part, vars>>

AuthSpec == AuthInit /\ [][AuthNext]_<<part, vars, otpVars>>

Interchangeable == Permutations(Login) \cup Permutations(Refresh)
=============================================================================
