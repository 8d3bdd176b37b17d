------------------------------- MODULE Answerable -------------------------------
(***************************************************************************)
(* When every candidate TracIk lists answers its query: three conditions   *)
(* on the kinematics, the mechanisms and what is asked of them.            *)
(* PromiseProofs proves that they are enough, and MCRacer has TLC evaluate *)
(* them for the mechanisms and queries of its runs.                        *)
(***************************************************************************)
EXTENDS TracIk

\* The pose error is a number, and whole revolutions of rotational joints do
\* not change it in a configuration that holds the couplings.
PoseKept(P) ==
  \A g \in Mechanisms, q \in Queries :
    LET m == Initialize(g)
        coupled == {Expand(m.couplings, r) : r \in [Active(m.couplings) -> P]}
    IN  WellFormed(m, q) =>
          \A c, x \in coupled :
            (\A i \in DOMAIN m.kinds :
               x[i] = c[i] \/ (m.kinds[i] = "Rot" /\ (x[i] - c[i]) % m.rev[i] = 0))
            => Residual(q.goal, c) \in Int /\ Residual(q.goal, x) = Residual(q.goal, c)

\* The bounds asked for are intervals whose ends the couplings map to whole ticks.
AskedExactly ==
  \A g \in Mechanisms, q \in Queries :
    WellFormed(Initialize(g), q) => AsksExactly(Initialize(g), q)

\* No joint is turned as far as the stored spelling of "unbounded".
TurnedInRange ==
  \A g \in Mechanisms, q \in Queries :
    LET m == Initialize(g)
        b == Resolve(m, q)
        s == StartOf(m, q)
    IN  WellFormed(m, q) =>
          \A c \in Configurations(m.couplings) \cup {RebuildMimicEntries(m.couplings, s)} :
            \A i \in DOMAIN m.kinds :
              Normalize(m, Types(m.kinds, b.lb, b.ub), q.solve_type, s, c, b.lb, b.ub)[i] \in Position

-----------------------------------------------------------------------------
(* What TracIk takes an inner solve to be is what InnerSolve, which both   *)
(* branches implement, leaves of it.                                       *)

\* The problem baked into the inner solver of branch b, and the solver.
InnerProblem(b) ==
  [kinds |-> mech.kinds, rev |-> mech.rev, couplings |-> mech.couplings,
   lb |-> solver.lb, ub |-> solver.ub, eps |-> solver.eps[b], goal |-> query.goal]

FewestJoints(b) == IF b = "KDL" THEN 0 ELSE 2

InnerSolver(b) == INSTANCE InnerSolve WITH
  Problems   <- {},
  Variables  <- FewestJoints(b),
  JudgesSeed <- b = "KDL",
  Overshoot  <- 0,
  problem    <- InnerProblem(b),
  solving    <- pc[b] = "solving",
  left       <- maxtime[b],
  aborted    <- aborted[b],
  answer     <- found[b]

\* Where runSolver starts a solve: at the call's seed, then at random, a limited
\* joint between its bounds.
SolveSeeds(b) ==
  IF fresh[b] THEN {seed}
  ELSE {s \in Configurations(mech.couplings) :
          \A i \in Active(mech.couplings) : types[i] # "Continuous" =>
            resolved.q_min[i] <= s[i] /\ s[i] <= resolved.q_max[i]}

\* A solver that a thread enters was built for the bounds of this call, which it
\* can search, takes as few joints as there are, and can only answer with what
\* TracIk lets it answer (CartToJnt 518-540, runSolver 286-295).
InnerSolversAsAssumed ==
  \A b \in Branches : pc[b] = "entering" =>
    /\ Searchable(InnerProblem(b))
    /\ FewestJoints(b) <= Cardinality(Active(mech.couplings))
    /\ \A c \in Configurations(mech.couplings), s \in SolveSeeds(b) :
         c \in InnerSolver(b)!Answers(InnerProblem(b), s) => c \in InnerAnswers(b)

=============================================================================
