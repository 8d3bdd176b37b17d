---------------------------- MODULE JointCouplings ----------------------------
(***************************************************************************)
(* How the joints of a kinematic chain are coupled: the value type that    *)
(* trac_ik_lib/src/joint_coupling.cpp implements.                          *)
(*                                                                         *)
(* A description d is a sequence with one record per chain joint,          *)
(*   [mimicked       : the joint this one follows, Own when it is active,  *)
(*    multiplier, offset : the coupling,                                   *)
(*    finite         : both of them are finite numbers,                    *)
(*    variable_count : variables of the joint in the model it came from].  *)
(*                                                                         *)
(* Joints are numbered from 1.  Positions are integers, counted in ticks   *)
(* whose size each joint chooses for itself: a multiplier of one half is   *)
(* a multiplier of 1 onto a joint whose tick is half as large.  A reduced  *)
(* configuration is a function on the active joints; the code keys the     *)
(* same values by their rank among the active joints.                      *)
(***************************************************************************)
EXTENDS Integers, Sequences, FiniteSets, FiniteSetsExt

CONSTANTS
  Sentinel,  \* the stored spelling of "unbounded": numeric_limits<float>::max()
  Infinity   \* the number that spelling stands for

\* The sentinel is a finite positive number, so it lies below infinity.
ASSUME BoundAssumption == /\ Sentinel \in Nat \ {0}
                          /\ Infinity \in Nat
                          /\ Sentinel < Infinity

Own == 0     \* the mimicked index of an active joint

Coupling == [mimicked : Int, multiplier : Int, offset : Int, finite : BOOLEAN,
             variable_count : Nat]

-----------------------------------------------------------------------------
(* The description and what it says of each joint.                         *)

IsMimic(d, i) == d[i].mimicked # Own
Active(d)     == {i \in DOMAIN d : ~IsMimic(d, i)}
Mimics(d)     == {i \in DOMAIN d : IsMimic(d, i)}
Followers(d, m) == {i \in Mimics(d) : d[i].mimicked = m}
IsMimicked(d, i) == Followers(d, i) # {}

\* An active joint's coupling record, and the description of n of them.
ActiveJoint == [mimicked |-> Own, multiplier |-> 1, offset |-> 0,
                finite |-> TRUE, variable_count |-> 1]
Uncoupled(n) == [i \in 1..n |-> ActiveJoint]

\* The checks are made joint by joint and the first failure only names a
\* message, so the verdict is their conjunction.
Valid(d) ==
  \A i \in DOMAIN d :
    /\ d[i].variable_count = 1
    /\ IsMimic(d, i) => /\ d[i].mimicked \in DOMAIN d
                        /\ d[i].mimicked # i
                        /\ ~IsMimic(d, d[i].mimicked)
                        /\ d[i].finite

-----------------------------------------------------------------------------
(* Full and reduced configurations.                                        *)

Reduce(d, full) == [i \in Active(d) |-> full[i]]

Couple(c, x) == c.multiplier * x + c.offset

Expand(d, reduced) ==
  [i \in DOMAIN d |-> IF IsMimic(d, i) THEN Couple(d[i], reduced[d[i].mimicked])
                                       ELSE reduced[i]]

-----------------------------------------------------------------------------
(* Bounds.  A bound is an integer or plus or minus Infinity.               *)

AsBound(stored) == CASE stored >= Sentinel  -> Infinity
                     [] stored <= -Sentinel -> -Infinity
                     [] OTHER               -> stored

AsStored(bound) == CASE bound >= Sentinel  -> Sentinel
                     [] bound <= -Sentinel -> -Sentinel
                     [] OTHER              -> bound

Sign(x) == IF x < 0 THEN -1 ELSE 1
Infinite(bound) == bound \in {Infinity, -Infinity}

\* multiplier * x + offset and its inverse, on bounds.  The quotient is exact
\* for every description the models use (see Divisible in MCJointCouplings).
CoupleBound(c, x) ==
  IF Infinite(x) THEN Sign(c.multiplier) * x ELSE Couple(c, x)
UncoupleBound(c, x) ==
  LET s == Sign(c.multiplier) IN
  IF Infinite(x) THEN s * x ELSE (s * (x - c.offset)) \div (s * c.multiplier)

\* An interval's ends the right way round.
Ordered(a, b) == IF a <= b THEN <<a, b>> ELSE <<b, a>>

\* Fault: a negative multiplier is not seen to swap the ends.
PreimageUnordered(c, lo, hi) == <<UncoupleBound(c, lo), UncoupleBound(c, hi)>>
\* Fault: the interval is mapped onto the mimic joint with the inverse coupling.
ImageWrongWay(c, lo, hi) == Ordered(UncoupleBound(c, lo), UncoupleBound(c, hi))

Preimage(c, lo, hi) == Ordered(UncoupleBound(c, lo), UncoupleBound(c, hi))
Image(c, lo, hi)    == Ordered(CoupleBound(c, lo), CoupleBound(c, hi))

Pins(c) == c.multiplier = 0

\* The mimic joints whose own bounds say something of the joint they follow,
\* and the interval they all leave it.
Binding(d, m) == {i \in Followers(d, m) : ~Pins(d[i])}
EndsLeft(d, lo, hi, m, k) == {Preimage(d[i], lo[i], hi[i])[k] : i \in Binding(d, m)}
Lower(d, lo, hi, m) == Max({lo[m]} \cup EndsLeft(d, lo, hi, m, 1))
Upper(d, lo, hi, m) == Min({hi[m]} \cup EndsLeft(d, lo, hi, m, 2))

\* Fault: a mimic joint keeps the bounds it came with.
EffectiveKeepsOwn(d, lo, hi, i) ==
  IF IsMimic(d, i) THEN <<lo[i], hi[i]>>
                   ELSE <<Lower(d, lo, hi, i), Upper(d, lo, hi, i)>>
\* A mimic joint can take what the interval of the joint it follows maps onto.
Effective(d, lo, hi, i) ==
  IF ~IsMimic(d, i) THEN <<Lower(d, lo, hi, i), Upper(d, lo, hi, i)>>
  ELSE IF Pins(d[i]) THEN <<d[i].offset, d[i].offset>>
  ELSE Image(d[i], Lower(d, lo, hi, d[i].mimicked), Upper(d, lo, hi, d[i].mimicked))

\* Whether any configuration is left.  The slack kBoundTol of the test on a
\* pinned joint is far below a tick, so the test is exact here.
Satisfiable(d, lo, hi) ==
  /\ \A i \in Mimics(d) : Pins(d[i]) => lo[i] <= d[i].offset /\ d[i].offset <= hi[i]
  /\ \A m \in Active(d) : Lower(d, lo, hi, m) <= Upper(d, lo, hi, m)

\* Fault: the bounds come back for the active joints only.
TightenReduced(d, lb, ub) ==
  LET lo == [i \in DOMAIN lb |-> AsBound(lb[i])]
      hi == [i \in DOMAIN ub |-> AsBound(ub[i])]
  IN  [ok |-> Satisfiable(d, lo, hi),
       lb |-> [m \in Active(d) |-> AsStored(Lower(d, lo, hi, m))],
       ub |-> [m \in Active(d) |-> AsStored(Upper(d, lo, hi, m))]]
\* tighten: the effective bounds, or a refusal that leaves the pair as it was.
Tighten(d, lb, ub) ==
  LET lo == [i \in DOMAIN lb |-> AsBound(lb[i])]
      hi == [i \in DOMAIN ub |-> AsBound(ub[i])]
      ok == /\ Valid(d)
            /\ Len(lb) = Len(d) /\ Len(ub) = Len(d)
            /\ Satisfiable(d, lo, hi)
  IN  [ok |-> ok,
       lb |-> IF ok THEN [i \in DOMAIN d |-> AsStored(Effective(d, lo, hi, i)[1])] ELSE lb,
       ub |-> IF ok THEN [i \in DOMAIN d |-> AsStored(Effective(d, lo, hi, i)[2])] ELSE ub]

\* Fault: the stored spelling of "unbounded" is divided by the multiplier.
TightenThroughStored(c, mimic_lb, mimic_ub, lb, ub) ==
  LET back == Preimage(c, mimic_lb, mimic_ub)
      lo   == Max({lb, back[1]})
      hi   == Min({ub, back[2]})
      ok   == IF Pins(c) THEN mimic_lb <= c.offset /\ c.offset <= mimic_ub ELSE lo <= hi
  IN  [ok |-> ok, lb |-> IF ok /\ ~Pins(c) THEN lo ELSE lb,
                  ub |-> IF ok /\ ~Pins(c) THEN hi ELSE ub]

\* The same mapping for one coupling c to a joint outside the chain, whose
\* own bounds are [mimic_lb, mimic_ub].
TightenThroughCoupling(c, mimic_lb, mimic_ub, lb, ub) ==
  LET back  == Preimage(c, AsBound(mimic_lb), AsBound(mimic_ub))
      lo    == Max({AsBound(lb), back[1]})
      hi    == Min({AsBound(ub), back[2]})
      holds == AsBound(mimic_lb) <= c.offset /\ c.offset <= AsBound(mimic_ub)
      ok    == c.finite /\ IF Pins(c) THEN holds ELSE lo <= hi
      moves == ok /\ ~Pins(c)
  IN  [ok |-> ok, lb |-> IF moves THEN AsStored(lo) ELSE lb,
                  ub |-> IF moves THEN AsStored(hi) ELSE ub]

-----------------------------------------------------------------------------
(* The reduced Jacobian.  jac[i] is one component of joint i's column.     *)

\* Fault: a mimic joint's column is added as it is.
FoldUnscaled(d, jac) ==
  [m \in Active(d) |-> jac[m] + MapThenSumSet(LAMBDA i : jac[i], Followers(d, m))]

FoldJacobian(d, jac) ==
  [m \in Active(d) |->
     jac[m] + MapThenSumSet(LAMBDA i : d[i].multiplier * jac[i], Followers(d, m))]

-----------------------------------------------------------------------------
(* Descriptions and bounds that ticks represent exactly.                   *)

\* A position is never as far out as the stored spelling of "unbounded".
Position == {x \in Int : -Sentinel < x /\ x < Sentinel}
Bound    == Position \cup {Infinity, -Infinity}

Inside(x, lo, hi) == lo <= x /\ x <= hi

\* The preimage of y is a whole number of ticks.
Exact(c, y) ==
  Infinite(y) \/ (UncoupleBound(c, y) \in Position /\ Couple(c, UncoupleBound(c, y)) = y)

\* The bounds of the mimic joints are intervals whose ends have preimages.
ExactBounds(d, lo, hi) ==
  /\ lo \in [DOMAIN d -> Bound] /\ hi \in [DOMAIN d -> Bound]
  /\ \A i \in Mimics(d) :
       lo[i] <= hi[i] /\ (~Pins(d[i]) => Exact(d[i], lo[i]) /\ Exact(d[i], hi[i]))

=============================================================================
