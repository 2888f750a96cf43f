------------------------------ MODULE MCSignIn ------------------------------
(* Instances of SignIn for TLC. *)
EXTENDS SignIn, TLC

CallSymmetry == Permutations(Calls)

Settled == [mustChange |-> FALSE, aged |-> FALSE, email |-> TRUE, phone |-> "verified",
            mfa |-> TRUE, exempt |-> FALSE, inGrace |-> FALSE, codes |-> Codes]

Strict == [method |-> "email", mfa |-> TRUE, enforcement |-> "REQUIRED", grace |-> FALSE,
           skipForSignup |-> FALSE, mfaForSocial |-> FALSE,
           remember |-> "user_opt_in", bypass |-> TRUE]

Adaptive == [method |-> "both", mfa |-> TRUE, enforcement |-> "ADAPTIVE", grace |-> TRUE,
             skipForSignup |-> TRUE, mfaForSocial |-> TRUE,
             remember |-> "never", bypass |-> FALSE]

Social == [social |-> TRUE, signup |-> FALSE]
SignUp == [social |-> FALSE, signup |-> TRUE]
SomeOrigins == {Password, Social, SignUp}

\* A user with all set up; one with an expired password who has to set MFA up; and a
\* newcomer who verifies address and phone while the grace period runs.
SomeScenarios ==
    {[cfg |-> Strict, user |-> Settled],
     [cfg |-> [Strict EXCEPT !.remember = "never"],
      user |-> [Settled EXCEPT !.aged = TRUE, !.mfa = FALSE]],
     [cfg |-> Adaptive, user |-> [Settled EXCEPT !.email = FALSE, !.phone = "none",
                                                 !.mfa = FALSE, !.inGrace = TRUE]]}
=============================================================================
