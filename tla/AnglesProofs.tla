------------------------------ MODULE AnglesProofs ------------------------------
(***************************************************************************)
(* The properties MCAngles checks of a joint's normalisation, for every    *)
(* revolution, value, target and pair of limits: it turns the joint by     *)
(* whole revolutions, and where it can it ends inside the limits.          *)
(***************************************************************************)
EXTENDS MCAngles, ChainLemmas

\* Until it is normalised the value is the one that was found; then it is the
\* one NormalizeInto computes.
Inv == /\ rev \in Nat \ {0}
       /\ found \in Int /\ target \in Int /\ min \in Int /\ max \in Int
       /\ normalized \in BOOLEAN
       /\ val = IF normalized THEN NormalizeInto(found, target, min, max, rev) ELSE found

\* The steps keep it.
LEMMA InvInvariant == Spec => []Inv
<1>1. Init => Inv
    BY InputsAssumption DEF Init, Inv
<1>2. Inv /\ [Next]_vars => Inv'
  <2> SUFFICES ASSUME Inv, [Next]_vars PROVE Inv'
      OBVIOUS
  <2>1. CASE Normalize
      BY <2>1 DEF Inv, Normalize
  <2>2. CASE UNCHANGED vars
      BY <2>2 DEF Inv, vars
  <2> QED BY <2>1, <2>2 DEF Next
<1> QED BY <1>1, <1>2, PTL DEF Spec

\* Normalising turns a joint by whole revolutions, so the pose the solver found
\* is still reached.
THEOREM TurnsOnly == Spec => []TurnsByRevolutions
<1>1. Inv => TurnsByRevolutions
  <2> SUFFICES ASSUME Inv PROVE (val - found) % rev = 0
      BY DEF TurnsByRevolutions
  <2>1. PICK k \in Int : val = found + rev * k
    <3>1. CASE normalized
      <4>1. SameAngle(found, NormalizeInto(found, target, min, max, rev), rev)
          BY TurnedIntoLimits DEF Inv
      <4> QED BY <3>1, <4>1 DEF Inv, SameAngle
    <3>2. CASE ~normalized
      <4>1. val = found + rev * 0 /\ 0 \in Int
          BY <3>2 DEF Inv
      <4> QED BY <4>1
    <3> QED BY <3>1, <3>2
  <2>2. val - found = rev * k
      BY <2>1 DEF Inv
  <2> QED BY <2>2, Multiples DEF Inv
<1> QED BY <1>1, InvInvariant, PTL

\* A joint ends inside its limits when they span a revolution, and when both
\* the value found and the target were inside them.
THEOREM EndsInside == Spec => []EndsWithinLimits
<1>1. Inv => EndsWithinLimits
    BY TurnedIntoLimits DEF Inv, EndsWithinLimits, Within
<1> QED BY <1>1, InvInvariant, PTL

Even == rev % 2 = 0

\* Inside limits that span a revolution a second normalisation changes nothing.
\* In ticks, that is when half a revolution is a whole number of them.
THEOREM NormalizedOnce ==
  ASSUME \A b \in Revolutions : b % 2 = 0
  PROVE  Spec => []Settles
<1>1. Init => Even
    BY DEF Init, Even
<1>2. Even /\ [Next]_vars => Even'
    BY DEF Even, Next, Normalize, vars
<1>3. Inv /\ Even => Settles
  <2> SUFFICES ASSUME Inv, Even, normalized, max - min >= rev, Within(target)
               PROVE  NormalizeInto(val, target, min, max, rev) = val
      BY DEF Settles
  <2>1. val = NormalizeInto(found, target, min, max, rev)
      BY DEF Inv
  <2> QED BY <2>1, StaysNormalized DEF Inv, Even, Within
<1> QED BY <1>1, <1>2, <1>3, InvInvariant, PTL DEF Spec

=============================================================================
