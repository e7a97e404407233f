----------------------------- MODULE MCTraceStore -----------------------------
(* An instance of TraceStore for TLC.                                        *)
EXTENDS TraceStore, TLC

\* Identifiers are only compared for equality.
TraceSymmetry == Permutations(EventIds) \cup Permutations(Traces) \cup Permutations(CallIds)
=============================================================================
