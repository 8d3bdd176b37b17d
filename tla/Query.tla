---------------------------------- MODULE Query ----------------------------------
(***************************************************************************)
(* A call of TRAC_IK::CartToJnt as its caller sees it: what is asked, when *)
(* it is refused, and which configurations answer it how well.             *)
(***************************************************************************)
EXTENDS Mechanism

CONSTANTS
  Residual(_, _),    \* pose error of a configuration for a goal (kinematics)
  ManipValue(_, _, _)   \* manipulability of a configuration times a penalty for
                        \* being near the given bounds, where that is not 0

SolveTypes == {"Speed", "Distance"} \cup Manip

NoQuery == [seed |-> <<>>, goal |-> "none", timeout |-> 0, epsilon |-> 0,
            solve_type |-> "None", q_min |-> <<>>, q_max |-> <<>>]

\* What a call's arguments hold; the goal is only ever given to the kinematics.
Askable(q) ==
  /\ q.seed \in Seq(Int) /\ q.timeout \in Nat /\ q.epsilon \in Int
  /\ q.solve_type \in SolveTypes
  /\ q.q_min \in Seq(Int) /\ q.q_max \in Seq(Int)

\* Return codes with the configuration written to the caller's q_out.
Refused == [rc |-> -1, q_out |-> <<>>]
Pending == [rc |-> 0, q_out |-> <<>>]

Abs(x) == IF x < 0 THEN -x ELSE x

PerCallBounds(q) == Len(q.q_min) # 0 \/ Len(q.q_max) # 0

\* Fault: the query's bounds are tested for the couplings, not tightened.
ResolveUntightened(m, q) ==
  IF PerCallBounds(q)
  THEN [ok |-> Tighten(m.couplings, q.q_min, q.q_max).ok, lb |-> q.q_min, ub |-> q.q_max]
  ELSE [ok |-> TRUE, lb |-> m.lb, ub |-> m.ub]

\* The bounds in force: the mechanism's own, or the query's, which hold the
\* couplings too.
Resolve(m, q) ==
  IF PerCallBounds(q) THEN Tighten(m.couplings, q.q_min, q.q_max)
                      ELSE [ok |-> TRUE, lb |-> m.lb, ub |-> m.ub]

WellFormed(m, q) ==
  /\ m.initialized
  /\ Len(q.seed) = Len(m.kinds)
  /\ Resolve(m, q).ok

-----------------------------------------------------------------------------
(* Answers.                                                                *)

\* The bounds the caller, or whoever constructed the solver, spelled out.
AskedBounds(m, q) == IF PerCallBounds(q) THEN <<q.q_min, q.q_max>>
                                         ELSE <<m.own_lb, m.own_ub>>

\* They are intervals whose ends the couplings map to whole ticks.
AsksExactly(m, q) ==
  LET a == AskedBounds(m, q)
  IN  ExactBounds(m.couplings, [i \in DOMAIN a[1] |-> AsBound(a[1][i])],
                               [i \in DOMAIN a[2] |-> AsBound(a[2][i])])

WithinAsked(m, q, c) ==
  \A i \in DOMAIN c : /\ AskedBounds(m, q)[1][i] <= c[i]
                      /\ c[i] <= AskedBounds(m, q)[2][i]

\* Where the search starts: the seed, repaired for the bounds in force.
StartOf(m, q) ==
  LET b == Resolve(m, q)
  IN  RepairSeed(m.couplings, Types(m.kinds, b.lb, b.ub), q.seed, b.lb, b.ub)

StartsInside(m, q) ==
  \A i \in Active(m.couplings) :
    Inside(StartOf(m, q)[i], Resolve(m, q).lb[i], Resolve(m, q).ub[i])

\* A configuration answers a query that holds the couplings and reaches the
\* goal.  A search that starts inside the bounds keeps each joint inside those
\* asked for, mimic joints included; one that starts outside may end there.
IsAnswer(m, q, c) ==
  /\ c = RebuildMimicEntries(m.couplings, c)
  /\ Residual(q.goal, c) < Abs(q.epsilon)
  /\ StartsInside(m, q) => WithinAsked(m, q, c)

\* The limited joints of a call: those not unbounded both ways.
Limited(m, b) == {i \in DOMAIN m.kinds : Types(m.kinds, b.lb, b.ub)[i] # "Continuous"}

WithinLimits(m, b, c) == \A i \in Limited(m, b) : b.lb[i] <= c[i] /\ c[i] <= b.ub[i]

\* Of configurations inside the bounds in force, one with a limited joint at the
\* end of its limits counts for nothing.
Score(m, q, c) ==
  LET b == Resolve(m, q) IN
  IF \A i \in Limited(m, b) : b.lb[i] < c[i] /\ c[i] < b.ub[i]
  THEN ManipValue(q.solve_type, <<b.lb, b.ub>>, c) ELSE 0

\* The Manip types ask for a better score, and say nothing of configurations that
\* are outside, the others for less distance from where the search started.
AtLeastAsGood(m, q, c, other) ==
  IF q.solve_type \in Manip
  THEN WithinLimits(m, Resolve(m, q), c) /\ WithinLimits(m, Resolve(m, q), other) =>
         Score(m, q, c) >= Score(m, q, other)
  ELSE JointErr(m.couplings, StartOf(m, q), c) <= JointErr(m.couplings, StartOf(m, q), other)

=============================================================================
