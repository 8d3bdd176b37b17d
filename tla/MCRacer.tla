--------------------------------- MODULE MCRacer ---------------------------------
(***************************************************************************)
(* The instances of TracIk on which every candidate has to be an answer:   *)
(* they meet the conditions PromiseProofs asks for.                        *)
(***************************************************************************)
EXTENDS MCTracIk, Answerable

\* A revolution of each joint, and of what follows it, is within these.
TurningPositions == -4..4

ASSUME ConditionsMet ==
  PoseKept(TurningPositions) /\ AskedExactly /\ TurnedInRange
=============================================================================
