------------------------------ MODULE AuthFlow ------------------------------
(* The decision taken at the end of every successful sign-in step: which      *)
(* challenge is still owed, or that tokens are issued                         *)
(* (core/src/services/auth-flow-context-builder.service.ts computes the facts *)
(* of a sign-in, auth-flow-state-definitions.ts orders the rules on them, and *)
(* the first rule that matches decides).                                      *)
(*                                                                            *)
(* A user u is a record of columns, a configuration f one of settings, and a  *)
(* context x says how this sign-in goes: by a social provider, with a trusted *)
(* device, with MFA verification already done, at sign-up, with the risk the  *)
(* adaptive engine finds, and with the user already blocked by it.            *)
EXTENDS Naturals

(***************************************************************************)
(* Verification of email address and phone.  "method" is                   *)
(* config.signup.verificationMethod.                                       *)
(***************************************************************************)
EmailVerificationRequired(u, f, x) ==
    f.method \in {"email", "both"} /\ ~x.social /\ ~u.email

PhoneVerificationRequired(u, f) ==
    f.method \in {"phone", "both"} /\ u.phone = "unverified"

PhoneCollectionNeeded(u, f) ==
    f.method \in {"phone", "both"} /\ u.phone = "none"

(***************************************************************************)
(* Multi-factor authentication.  "grace" is whether config.mfa.gracePeriod *)
(* is not zero; a user is in grace while it has not ended for them.        *)
(***************************************************************************)
GracePeriodActive(u, f) == f.grace /\ u.inGrace

\* Social sign-ins are exempt when config.mfa.requireForSocialLogin is false.
SocialExempt(f, x) == x.social /\ ~f.mfaForSocial

MFASetupRequired(u, f, x) ==
    /\ f.mfa
    /\ ~u.exempt
    /\ ~u.mfa
    /\ ~SocialExempt(f, x)
    /\ f.enforcement # "OPTIONAL"
    /\ ~(x.signup /\ f.skipForSignup)
    /\ ~GracePeriodActive(u, f)

\* A device token counts only when devices are remembered at all.
DeviceTrusted(f, x) == x.trusted /\ f.remember # "never"

\* What checkMFAVerification reaches before it looks at the enforcement.
MFAApplies(u, f, x) ==
    /\ ~x.skipMFA
    /\ ~u.exempt
    /\ f.mfa
    /\ u.mfa
    /\ ~SocialExempt(f, x)

\* Only the adaptive engine can block, and it is asked only here; an engine that
\* is missing or fails leaves MFA required.
BlockedByRisk(u, f, x) ==
    /\ ~x.blocked
    /\ MFAApplies(u, f, x)
    /\ f.enforcement = "ADAPTIVE"
    /\ x.risk = "block_signin"

\* Blocked before, or by this evaluation.
Blocked(u, f, x) == x.blocked \/ BlockedByRisk(u, f, x)

MFAVerificationRequired(u, f, x) ==
    /\ ~x.blocked
    /\ MFAApplies(u, f, x)
    /\ IF f.enforcement = "ADAPTIVE"
       THEN \/ x.risk = "error"
            \/ /\ x.risk # "block_signin"
               /\ ~DeviceTrusted(f, x) \/ x.risk = "require_mfa"
       ELSE ~(DeviceTrusted(f, x) /\ f.bypass)

(***************************************************************************)
(* The states with their conditions, and their priorities: the first state *)
(* whose condition holds is the state of the sign-in.                      *)
(***************************************************************************)
Matches(state, u, f, x) ==
    CASE state = "PENDING_PASSWORD_CHANGE"    -> u.mustChange
      [] state = "PENDING_EMAIL_VERIFICATION" -> EmailVerificationRequired(u, f, x)
      [] state = "PENDING_PHONE_COLLECTION"   -> PhoneCollectionNeeded(u, f)
      [] state = "PENDING_PHONE_VERIFICATION" -> PhoneVerificationRequired(u, f)
      [] state = "PENDING_MFA_SETUP"          -> MFASetupRequired(u, f, x)
      [] state = "PENDING_MFA_VERIFICATION"   -> MFAVerificationRequired(u, f, x)
      [] state = "GRACE_PERIOD_ACTIVE"        -> /\ f.enforcement = "ADAPTIVE"
                                                 /\ GracePeriodActive(u, f)
                                                 /\ ~u.mfa
                                                 /\ ~Blocked(u, f, x)
      [] state = "BLOCKED"                    -> Blocked(u, f, x)
      [] state = "AUTHENTICATED"              -> TRUE

Priorities == << "PENDING_PASSWORD_CHANGE", "PENDING_EMAIL_VERIFICATION",
                 "PENDING_PHONE_COLLECTION", "PENDING_PHONE_VERIFICATION",
                 "PENDING_MFA_SETUP", "PENDING_MFA_VERIFICATION",
                 "GRACE_PERIOD_ACTIVE", "BLOCKED", "AUTHENTICATED" >>

EvaluateState(u, f, x) ==
    LET first == CHOOSE i \in 1 .. 9 :
                     /\ Matches(Priorities[i], u, f, x)
                     /\ \A j \in 1 .. i - 1 : ~Matches(Priorities[j], u, f, x)
    IN  Priorities[first]

Challenges == {"FORCE_CHANGE_PASSWORD", "VERIFY_EMAIL", "VERIFY_PHONE",
               "MFA_SETUP_REQUIRED", "MFA_REQUIRED"}

\* The challenge of each state; the other states end the sign-in.
ChallengeOf(state) ==
    CASE state = "PENDING_PASSWORD_CHANGE"    -> "FORCE_CHANGE_PASSWORD"
      [] state = "PENDING_EMAIL_VERIFICATION" -> "VERIFY_EMAIL"
      [] state \in {"PENDING_PHONE_COLLECTION",
                    "PENDING_PHONE_VERIFICATION"} -> "VERIFY_PHONE"
      [] state = "PENDING_MFA_SETUP"          -> "MFA_SETUP_REQUIRED"
      [] state = "PENDING_MFA_VERIFICATION"   -> "MFA_REQUIRED"
      [] OTHER                                -> "none"

\* Blocked users get an error, the others who owe nothing get tokens.
Outcome(state) ==
    CASE state = "BLOCKED" -> "rejected"
      [] state \in {"GRACE_PERIOD_ACTIVE", "AUTHENTICATED"} -> "tokens"
      [] OTHER -> "challenge"
=============================================================================
