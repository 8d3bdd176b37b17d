------------------------------- MODULE MCAngles -------------------------------
(***************************************************************************)
(* TLC tries the normalisation of one joint on every value, target and     *)
(* pair of limits of a small range, for several revolutions.               *)
(***************************************************************************)
EXTENDS Angles

CONSTANTS Revolutions, Positions, LimitEnds

\* Positions are counted in ticks, and a revolution has some.
ASSUME InputsAssumption == /\ Revolutions \subseteq Nat \ {0}
                           /\ Positions \subseteq Int
                           /\ LimitEnds \subseteq Int

VARIABLES
  val,                 \* the joint's value
  found,               \* the value an inner solver left there
  target, min, max, rev,
  normalized

vars == <<val, found, target, min, max, rev, normalized>>

Init ==
  /\ rev \in Revolutions
  /\ min \in LimitEnds /\ max \in LimitEnds /\ min <= max
  /\ found \in Positions /\ target \in Positions
  /\ val = found
  /\ normalized = FALSE

Normalize ==
  /\ ~normalized
  /\ val' = NormalizeInto(val, target, min, max, rev)
  /\ normalized' = TRUE
  /\ UNCHANGED <<found, target, min, max, rev>>

Next == Normalize
Spec == Init /\ [][Next]_vars

Within(x) == min <= x /\ x <= max

\* Normalising turns the joint, it never moves it: the value changes by whole
\* revolutions, so the pose the solver found is still reached.
TurnsByRevolutions == (val - found) % rev = 0

\* The joint ends inside its limits when they span a revolution, and also, for
\* any limits, when both the value found and the target were inside them.
EndsWithinLimits ==
  normalized /\ (max - min >= rev \/ (Within(found) /\ Within(target))) => Within(val)

\* The same for the value half of it alone: normalize_seed's comment promises
\* "within 1 revolution of seed; then ensure joint limits are met".
LimitsMet == normalized /\ Within(found) => Within(val)

\* Inside limits that span a revolution a second normalisation changes nothing.
Settles ==
  normalized /\ max - min >= rev /\ Within(target) =>
    NormalizeInto(val, target, min, max, rev) = val
-----------------------------------------------------------------------------
MCRevolutions == {4, 6}
MCPositions   == -9..9
MCLimitEnds   == -5..5
=============================================================================
