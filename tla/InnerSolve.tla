------------------------------- MODULE InnerSolve -------------------------------
(***************************************************************************)
(* What the racer relies on in an inner solver, however it searches: asked *)
(* from a seed, it either finds a configuration that answers the problem   *)
(* or gives up, and it gives up only when its time is over or it was       *)
(* aborted.  TracIk's Find and GiveUp are Succeed and GiveUp.              *)
(*                                                                         *)
(* A problem is a record with the kinds, revolutions and couplings of the  *)
(* chain, the bounds and epsilon baked into the solver, and a goal.        *)
(***************************************************************************)
EXTENDS Mechanism

CONSTANTS
  Problems,
  Residual(_, _),   \* pose error of a configuration for a goal
  Variables,        \* fewest active joints the solver accepts
  JudgesSeed,       \* it judges its seed wherever that is
  Overshoot         \* how far past an upper limit it may judge

VARIABLES
  problem,   \* fixed
  solving,
  seed,      \* where the solve started
  left,      \* its time left
  aborted,   \* the abort flag, anyone's to raise
  answer     \* the configuration found, Nothing before and without one

vars == <<problem, solving, seed, left, aborted, answer>>

Nothing == <<>>

Kinds(p)   == Types(p.kinds, p.lb, p.ub)
Limited(p) == {i \in Active(p.couplings) : Kinds(p)[i] # "Continuous"}

WithinLimits(p, slack, c) ==
  \A i \in Limited(p) : p.lb[i] <= c[i] /\ c[i] <= p.ub[i] + slack

\* The couplings hold of an answer, mimic joints included, and the limits of
\* the joints the solver chooses.
Answers(p, s) ==
  {c \in [DOMAIN p.kinds -> Int] :
     /\ c = RebuildMimicEntries(p.couplings, c)
     /\ Residual(p.goal, c) < p.eps
     /\ \/ WithinLimits(p, Overshoot, c)
        \/ JudgesSeed /\ c = RebuildMimicEntries(p.couplings, s)}

Init ==
  /\ problem \in Problems
  /\ solving = FALSE /\ seed = <<>> /\ left = 0
  /\ aborted = FALSE /\ answer = Nothing

Seeded == seed' \in [DOMAIN problem.kinds -> Int] /\ left' \in Nat

Begin ==
  /\ ~solving /\ Seeded
  /\ solving' = TRUE /\ answer' = Nothing
  /\ UNCHANGED <<problem, aborted>>

\* Aborted before it began, or too few variables.
Refuse ==
  /\ ~solving /\ Seeded
  /\ aborted \/ Cardinality(Active(problem.couplings)) < Variables
  /\ answer' = Nothing
  /\ UNCHANGED <<problem, solving, aborted>>

Succeed ==
  /\ solving
  /\ answer' \in Answers(problem, seed)
  /\ solving' = FALSE
  /\ UNCHANGED <<problem, seed, left, aborted>>

GiveUp ==
  /\ solving
  /\ left = 0 \/ aborted
  /\ solving' = FALSE
  /\ UNCHANGED <<problem, seed, left, aborted, answer>>

Tick ==
  /\ solving /\ left > 0
  /\ left' = left - 1
  /\ UNCHANGED <<problem, solving, seed, aborted, answer>>

Abort ==
  /\ aborted' = TRUE
  /\ UNCHANGED <<problem, solving, seed, left, answer>>

Reset ==
  /\ ~solving
  /\ aborted' = FALSE
  /\ UNCHANGED <<problem, solving, seed, left, answer>>

Next == Begin \/ Refuse \/ Succeed \/ GiveUp \/ Tick \/ Abort \/ Reset

Spec == Init /\ [][Next]_vars

=============================================================================
