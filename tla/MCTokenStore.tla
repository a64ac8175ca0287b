----------------------------- MODULE MCTokenStore -----------------------------
(* Model-checking instance of TokenStore: one clock unit stands for 10 s of   *)
(* the margin and for more of the lifetimes, which are shortened so that a    *)
(* token enters its margin, expires and is refreshed within MaxTime.          *)
EXTENDS TokenStore, TLC

\* A gateway that may fail in every way, and one whose logins always work while
\* its refreshes may be refused or answered without a token.
MCFaultPatterns ==
    { [login |-> FaultKinds, refresh |-> FaultKinds],
      [login |-> {},         refresh |-> {"rejected", "empty"}] }
=============================================================================
