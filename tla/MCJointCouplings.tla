--------------------------- MODULE MCJointCouplings ---------------------------
(***************************************************************************)
(* TLC checks the bound tightening and the Jacobian fold of JointCouplings *)
(* on every three-joint chain whose middle joint is active and whose outer *)
(* joints are active or follow it, one of them upstream of the joint it    *)
(* follows.  A state is a description, the bounds it was given, and what   *)
(* tighten has made of them, in place.                                     *)
(***************************************************************************)
EXTENDS JointCouplings

CONSTANTS
  Multipliers, Offsets,   \* of a mimic joint
  Ends,                   \* finite bounds
  Reach,                  \* positions the reference definitions try
  Columns                 \* Jacobians the fold is tried on

VARIABLES
  couplings,        \* the description
  own_lb, own_ub,   \* the bounds each joint came with
  lb, ub,           \* the bounds tighten works on
  verdict           \* what tighten last returned

vars == <<couplings, own_lb, own_ub, lb, ub, verdict>>

Joints == 1..3
Driver == 2

MimicOf(m) == [mimicked : {m}, multiplier : Multipliers, offset : Offsets,
               finite : {TRUE}, variable_count : {1}]

\* The bounds a URDF can give a joint: both ends, or neither.
Intervals  == {e \in Ends \X Ends : e[1] <= e[2]} \cup {<<-Sentinel, Sentinel>>}
\* ... and the same with the two ends in the wrong order.
Swapped    == {e \in Ends \X Ends : e[1] > e[2]}

\* The preimage of an integer bound under coupling c is an integer.
Divisible(c, e) ==
  \A k \in {1, 2} : \/ Pins(c) \/ Infinite(AsBound(e[k]))
                    \/ (e[k] - c.offset) % (Sign(c.multiplier) * c.multiplier) = 0

OuterJoints(E) ==
  {o \in ({ActiveJoint} \cup MimicOf(Driver)) \X E : Divisible(o[1], o[2])}

\* The positions tried include every place a bound of one joint puts the end of
\* another's, and nothing is coupled as far as the spelling of "unbounded".
ASSUME ReachAssumption ==
  /\ Multipliers \subseteq Int /\ Offsets \subseteq Position
  /\ Columns \subseteq [Joints -> Int]
  /\ Reach \subseteq Position /\ Ends \subseteq Reach /\ Reach # {}
  /\ \A c \in MimicOf(Driver) :
       /\ \A x \in Reach : Couple(c, x) \in Position
       /\ \A e \in Ends : ~Pins(c) /\ Divisible(c, <<e, e>>) => UncoupleBound(c, e) \in Reach

InitWith(E) ==
  /\ \E left \in OuterJoints(E), right \in OuterJoints(Intervals), e \in Intervals :
       /\ couplings = <<left[1], ActiveJoint, right[1]>>
       /\ own_lb = <<left[2][1], e[1], right[2][1]>>
       /\ own_ub = <<left[2][2], e[2], right[2][2]>>
  /\ lb = own_lb /\ ub = own_ub
  /\ verdict = "untried"

Init        == InitWith(Intervals)
InitSwapped == InitWith(Swapped)

\* tighten, called on the bounds as they are now: the second call works on
\* what the first one left.
TightenBounds ==
  LET t == Tighten(couplings, lb, ub) IN
  /\ lb' = t.lb /\ ub' = t.ub
  /\ verdict' = IF t.ok THEN "tightened" ELSE "refused"
  /\ UNCHANGED <<couplings, own_lb, own_ub>>

Next == TightenBounds

Spec        == Init /\ [][Next]_vars
SpecSwapped == InitSwapped /\ [][Next]_vars

-----------------------------------------------------------------------------
(* Reference definitions: configurations tried one by one.                 *)

Within(i, x, lo, hi) == AsBound(lo[i]) <= x /\ x <= AsBound(hi[i])

Reduced == [Active(couplings) -> Reach]

\* The mechanism can be in the configuration r stands for.
Holds(r) == \A i \in Joints : Within(i, Expand(couplings, r)[i], own_lb, own_ub)

\* The description stays valid, with a pair of bounds for every joint of it.
TypeOK ==
  /\ Valid(couplings)
  /\ {own_lb, own_ub, lb, ub} \subseteq [Joints -> Int]
  /\ verdict \in {"untried", "tightened", "refused"}

\* tighten keeps exactly the configurations the mechanism can hold: judging
\* only the joints the solver chooses against the effective bounds is judging
\* every joint, mimic joints included, against its own.  It refuses only a
\* mechanism with no configuration at all.
TightenExact ==
  /\ verdict = "tightened" =>
       \A r \in Reduced : Holds(r) <=> \A i \in Active(couplings) : Within(i, r[i], lb, ub)
  /\ verdict = "refused" => \A r \in Reduced : ~Holds(r)

\* The effective bounds are honest about a mimic joint too: a finite end of
\* them is a position the joint really takes in some configuration the
\* mechanism can hold.
MimicBoundsReached ==
  verdict = "tightened" =>
    \A i \in Mimics(couplings) : \A bound \in {lb[i], ub[i]} \ {Sentinel, -Sentinel} :
      \E r \in Reduced : Holds(r) /\ Expand(couplings, r)[i] = bound

\* Tightening effective bounds again changes nothing, so a caller may hand the
\* solver's own limits back as a query's bounds.
TightenIdempotent ==
  [][verdict = "tightened" => verdict' = "tightened" /\ UNCHANGED <<lb, ub>>]_vars

\* A coupling folded in by the caller because its joint is outside the chain
\* bounds the chain exactly as it would from inside: same refusals, same
\* bounds on the joints both chains have.
TightenersAgree ==
  verdict # "untried" /\ IsMimic(couplings, 3) =>
    LET fold  == TightenThroughCoupling(couplings[3], own_lb[3], own_ub[3],
                                        own_lb[Driver], own_ub[Driver])
        short == Tighten(SubSeq(couplings, 1, 2),
                         <<own_lb[1], fold.lb>>, <<own_ub[1], fold.ub>>)
    IN  /\ (verdict = "tightened") <=> (fold.ok /\ short.ok)
        /\ verdict = "tightened" =>
             short.lb = SubSeq(lb, 1, 2) /\ short.ub = SubSeq(ub, 1, 2)

\* The reduced Jacobian is the derivative of the tip along each joint the
\* solver chooses, the joints that follow it moving along with it.
FoldIsChainRule ==
  \A jac \in Columns :
    LET tip(r)   == LET full == Expand(couplings, r)
                    IN  SumFunction([i \in Joints |-> jac[i] * full[i]])
        still    == [i \in Active(couplings) |-> 0]
        moved(m) == [still EXCEPT ![m] = 1]
    IN  \A m \in Active(couplings) : FoldJacobian(couplings, jac)[m] = tip(moved(m)) - tip(still)

\* joint_coupling.hpp says tighten returns false "for a mechanism no
\* configuration satisfies".
UnsatisfiableRefused ==
  (\A r \in Reduced : ~Holds(r)) => verdict # "tightened"

-----------------------------------------------------------------------------
MCMultipliers == {-2, -1, 0, 1, 2}
MCOffsets     == {0, 1}
MCEnds        == {-3, -1, 1, 3}
MCReach       == -4..4
MCColumns     == {<<1, 3, 7>>, <<2, 0, -5>>}
=============================================================================
