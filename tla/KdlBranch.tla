------------------------------- MODULE KdlBranch -------------------------------
(***************************************************************************)
(* KDL::ChainIkSolverPos_TL::CartToJnt (trac_ik_lib/src/kdl_tl.cpp): Newton *)
(* iterations over the active joints, each clipped or wrapped into the     *)
(* limits, with a random restart where an iteration does not move.         *)
(*                                                                         *)
(* The velocity step is linear algebra on a Jacobian.  It is abstracted to *)
(* a move to anywhere in Reach, no move included (a failed decomposition). *)
(***************************************************************************)
EXTENDS Mechanism

CONSTANTS
  Problems,         \* as in InnerSolve
  Residual(_, _),
  SeedPositions,    \* where the joints of a seed may be
  Reach,            \* where a velocity step may take a joint
  MaxTime           \* time given to a solve

ASSUME ProblemsAssumption == \A p \in Problems : Searchable(p)
ASSUME SearchAssumption ==
  SeedPositions \subseteq Int /\ Reach \subseteq Int /\ MaxTime \in Nat

VARIABLES
  problem, seed, left, aborted,   \* as in InnerSolve
  q,       \* the iterate, a reduced configuration
  pc,      \* where the loop is
  rc,      \* return code of the last solve, 0 during one
  q_out    \* its configuration

vars == <<problem, seed, left, aborted, q, pc, rc, q_out>>

Inner == INSTANCE InnerSolve WITH
  solving    <- pc # "idle",
  answer     <- IF rc = 1 THEN q_out ELSE <<>>,
  Variables  <- 0,
  JudgesSeed <- TRUE,
  Overshoot  <- 0

-----------------------------------------------------------------------------
(* Back into the limits.                                                   *)

\* A joint past an end goes round a revolution, if that brings it inside, or
\* to the end.
RaiseTo(type, x, lo, hi, rev) ==
  LET wrapped == lo - ((lo - x) % rev) + rev IN
  CASE x >= lo                         -> x
    [] type = "Trans" \/ wrapped > hi  -> lo
    [] OTHER                           -> wrapped
LowerTo(type, x, lo, hi, rev) ==
  LET wrapped == hi + ((x - hi) % rev) - rev IN
  CASE x <= hi                         -> x
    [] type = "Trans" \/ wrapped < lo  -> hi
    [] OTHER                           -> wrapped

\* Fault: a rotational joint goes round whether or not there is room.
ConfineRound(type, x, lo, hi, rev) ==
  IF type = "Trans" THEN Max({lo, Min({x, hi})}) ELSE NormalizeAngle(x, lo, hi, rev)

Confine(type, x, lo, hi, rev) ==
  LowerTo(type, RaiseTo(type, x, lo, hi, rev), lo, hi, rev)

Confined(p, raw) ==
  [i \in Active(p.couplings) |->
     IF Inner!Kinds(p)[i] = "Continuous" THEN raw[i]
     ELSE Confine(Inner!Kinds(p)[i], raw[i], p.lb[i], p.ub[i], p.rev[i])]

\* Where a restart may put a joint that is at x.
Sample(p, i, x) ==
  IF Inner!Kinds(p)[i] = "Continuous" THEN (x - p.rev[i])..(x + p.rev[i])
                                      ELSE p.lb[i]..p.ub[i]
Restarts(p, from) ==
  {c \in [Active(p.couplings) -> UNION {Sample(p, i, from[i]) : i \in Active(p.couplings)}] :
     \A i \in Active(p.couplings) : c[i] \in Sample(p, i, from[i])}

-----------------------------------------------------------------------------
Init ==
  /\ problem \in Problems
  /\ seed = <<>> /\ left = 0 /\ aborted = FALSE
  /\ q = <<>> /\ pc = "idle" /\ rc = -3 /\ q_out = <<>>

\* An abort that is already there ends the solve before it touches anything.
\* The mimic entries of the seed are dropped and written back.
Begin(s) ==
  /\ pc = "idle"
  /\ seed' = s /\ left' = MaxTime
  /\ IF aborted
     THEN rc' = -3 /\ UNCHANGED <<q, pc, q_out>>
     ELSE /\ q' = Reduce(problem.couplings, s)
          /\ q_out' = Expand(problem.couplings, q')
          /\ pc' = "judging" /\ rc' = 0
  /\ UNCHANGED <<problem, aborted>>

Reaches(p, reduced) == Residual(p.goal, Expand(p.couplings, reduced)) < p.eps

\* Fault: the configuration written before the loop is returned.
JudgeUnwritten ==
  /\ pc = "judging"
  /\ IF Reaches(problem, q) THEN rc' = 1 /\ pc' = "idle"
                            ELSE pc' = "stepping" /\ UNCHANGED rc
  /\ UNCHANGED <<problem, seed, left, aborted, q, q_out>>

\* The iterate is judged before it is moved: the seed as it came, the first time.
Judge ==
  /\ pc = "judging"
  /\ IF Reaches(problem, q)
     THEN q_out' = Expand(problem.couplings, q) /\ rc' = 1 /\ pc' = "idle"
     ELSE pc' = "stepping" /\ UNCHANGED <<q_out, rc>>
  /\ UNCHANGED <<problem, seed, left, aborted, q>>

\* A step that leaves every joint where it was is a restart.
Step ==
  /\ pc = "stepping"
  /\ \E raw \in [Active(problem.couplings) -> Reach] :
       LET curr == Confined(problem, raw) IN
       IF curr = q THEN q' \in Restarts(problem, curr) ELSE q' = curr
  /\ pc' = "stepped"
  /\ UNCHANGED <<problem, seed, left, aborted, rc, q_out>>

\* Fault: the loop goes on until its time is up and it is aborted.
AgainUntilBoth ==
  /\ pc = "stepped"
  /\ IF left > 0 \/ ~aborted
     THEN pc' = "judging" /\ UNCHANGED <<rc, q_out>>
     ELSE q_out' = Expand(problem.couplings, q) /\ rc' = -3 /\ pc' = "idle"
  /\ UNCHANGED <<problem, seed, left, aborted, q>>

\* The loop's condition, and the return after it.
Again ==
  /\ pc = "stepped"
  /\ IF left > 0 /\ ~aborted
     THEN pc' = "judging" /\ UNCHANGED <<rc, q_out>>
     ELSE q_out' = Expand(problem.couplings, q) /\ rc' = -3 /\ pc' = "idle"
  /\ UNCHANGED <<problem, seed, left, aborted, q>>

Tick ==
  /\ pc # "idle" /\ left > 0
  /\ left' = left - 1
  /\ UNCHANGED <<problem, seed, aborted, q, pc, rc, q_out>>

\* The other thread's, at any time; the reset comes before the threads do.
Abort ==
  /\ ~aborted
  /\ aborted' = TRUE
  /\ UNCHANGED <<problem, seed, left, q, pc, rc, q_out>>
Reset ==
  /\ pc = "idle" /\ aborted
  /\ aborted' = FALSE
  /\ UNCHANGED <<problem, seed, left, q, pc, rc, q_out>>

Loop == Judge \/ Step \/ Again

Next == \/ \E s \in [DOMAIN problem.kinds -> SeedPositions] : Begin(s)
        \/ Loop
        \/ Tick \/ Abort \/ Reset

SafeSpec == Init /\ [][Next]_vars

\* The loop goes on; nothing is assumed of the clock or of what it finds.
Spec == SafeSpec /\ WF_vars(Loop)

-----------------------------------------------------------------------------
\* Whatever the velocity step did, a joint with limits is inside them when the
\* iterate is next judged, after a wrap, a clip or a restart: only the seed is
\* ever judged outside.
IteratesInside ==
  pc = "stepped" \/ (pc = "judging" /\ q # Reduce(problem.couplings, seed)) =>
    \A i \in Inner!Limited(problem) : problem.lb[i] <= q[i] /\ q[i] <= problem.ub[i]

\* To the racer it is an inner solver: it finds answers, or gives up for a reason.
Implements == Inner!Spec

\* A solve that was aborted or whose time is up ends.
StopsWhenTold ==
  (pc # "idle" /\ (left = 0 \/ aborted)) ~> pc = "idle"

=============================================================================
