----------------------------- MODULE MC_ErrorBus -----------------------------
(* Model values for the error bus: two identities, one of a known type.   *)
EXTENDS ErrorBus, TLC

CONSTANTS e1, e2

=============================================================================
