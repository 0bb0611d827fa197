------------------------------- MODULE Quorums -------------------------------
(***************************************************************************)
(* How many accepting votes finalize a block (core/finalization.go).        *)
(***************************************************************************)
EXTENDS Integers, FiniteSets

CONSTANT FinalizationThreshold \* FinalizationThreshold, the static minimum

ASSUME FinalizationAssumption == FinalizationThreshold \in Nat

\* Mutant: the static minimum is left out.
ThresholdWithoutMinimum(active) ==
  IF active = 0 THEN -1 ELSE (2 * active + 2) \div 3

\* ceil(2n/3) of the active validators, at least the static minimum; -1
\* disables finalization.
ThresholdFor(active) ==
  LET dynamic == (2 * active + 2) \div 3
  IN  IF active = 0 THEN -1
      ELSE IF FinalizationThreshold > dynamic THEN FinalizationThreshold
      ELSE dynamic
=============================================================================
