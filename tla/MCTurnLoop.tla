----------------------------- MODULE MCTurnLoop -----------------------------
(* TurnLoop for TLC.  One key of events is enough: equal keys are the case   *)
(* in which draining by value and draining by count differ.  The callbacks   *)
(* served side by side are interchangeable.                                  *)
EXTENDS TurnLoop, TLC

HandlerSymmetry == Permutations(Handlers)

=============================================================================
