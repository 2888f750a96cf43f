---------------------------- MODULE MCRecovery ------------------------------
(* Instances of Recovery for TLC: what clients send and what they find. *)
EXTENDS Recovery, TLC

CallSymmetry == Permutations(Calls)

Plain == [adapter |-> "memory", sends |-> {}, lock |-> "none", code |-> FALSE,
          admin |-> FALSE, starts |-> 4]

SomeScenarios ==
    { \* Guessing the password, under each adapter.
      [Plain EXCEPT !.sends = {"login"}, !.starts = 6],
      [Plain EXCEPT !.sends = {"login"}, !.starts = 6, !.adapter = "redis"],
      [Plain EXCEPT !.sends = {"login"}, !.starts = 6, !.adapter = "database"],
      \* Guessing a code that has been sent.
      [Plain EXCEPT !.sends = {"confirm"}, !.starts = 7, !.code = TRUE],
      \* Asking for codes and using them.
      [Plain EXCEPT !.sends = {"request", "confirm"}, !.code = TRUE],
      [Plain EXCEPT !.sends = {"request", "confirm"}, !.code = TRUE, !.admin = TRUE],
      \* Signing in while the password is reset, with and without an old lock.
      [Plain EXCEPT !.sends = {"login", "confirm"}, !.code = TRUE],
      [Plain EXCEPT !.sends = {"login", "confirm"}, !.code = TRUE, !.lock = "temporary"] }
=============================================================================
