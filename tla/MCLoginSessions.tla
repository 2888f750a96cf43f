-------------------------- MODULE MCLoginSessions ---------------------------
(* Instances of LoginSessions for TLC. *)
EXTENDS LoginSessions, TLC

CONSTANT d1

LoginSymmetry == Permutations(Logins)

ThreeOld == <<NoDevice, d1, NoDevice>>
=============================================================================
