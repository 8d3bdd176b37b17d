------------------------------ MODULE NloptBranch ------------------------------
(***************************************************************************)
(* NLOPT_IK::NLOPT_IK::CartToJnt (trac_ik_lib/src/nlopt_ik.cpp): an NLopt  *)
(* optimiser over the active joints, started again from random points.     *)
(*                                                                         *)
(* NLopt is external.  From a start inside the box it was given it calls   *)
(* the objective as often as it likes, at points of the box and, for the   *)
(* gradient, Jump beyond them in one joint; it returns when it has         *)
(* converged, when its time is over, or once it was told to stop.  A start *)
(* outside the box is an exception, which the code catches.                *)
(***************************************************************************)
EXTENDS Mechanism

CONSTANTS
  Problems,         \* as in InnerSolve
  Residual(_, _),
  SeedPositions,    \* where the joints of a seed may be
  MaxTime,          \* time given to a solve
  Jump              \* FLT_EPSILON, the step of the finite differences

ASSUME ProblemsAssumption == \A p \in Problems : Searchable(p)
ASSUME SearchAssumption == SeedPositions \subseteq Int /\ MaxTime \in Nat /\ Jump \in Nat

VARIABLES
  problem, seed, left, aborted,   \* as in InnerSolve
  start,     \* the point optimize is called with
  best_x,    \* the point CartToJnt will return
  box,       \* artificial lower and upper limits
  progress,  \* -3 searching, -1 a pose was not a number, 1 best_x answers
  stopped,   \* the objective has called force_stop
  pc,
  rc,        \* return code of the last solve, 0 during one
  q_out      \* its configuration

searchVars == <<start, best_x, box, progress, stopped>>
vars == <<problem, seed, left, aborted, searchVars, pc, rc, q_out>>

Inner == INSTANCE InnerSolve WITH
  solving    <- pc # "idle",
  answer     <- IF rc = 1 THEN q_out ELSE <<>>,
  Variables  <- 2,
  JudgesSeed <- FALSE,
  Overshoot  <- Jump

-----------------------------------------------------------------------------
(* The start and the box of a solve.                                       *)

\* Fault: no room for a revolution is not noticed.
IntoLimitsAnyway(type, x, lo, hi, rev) ==
  CASE type = "Continuous" -> x
    [] type = "Trans"      -> Max({lo, Min({x, hi})})
    [] OTHER               -> NormalizeAngle(x, lo, hi, rev)

\* A seed outside the limits: a slide goes to the end it passed, a rotational
\* joint by revolutions into its limits, or to their middle if none fits.
IntoLimits(type, x, lo, hi, rev) ==
  LET wrapped == NormalizeAngle(x, lo, hi, rev) IN
  CASE type = "Continuous" -> x
    [] type = "Trans"      -> Max({lo, Min({x, hi})})
    [] OTHER               -> IF wrapped > hi THEN (hi + lo) \div 2 ELSE wrapped

StartFrom(p, s) ==
  [i \in Active(p.couplings) |->
     IntoLimits(Inner!Kinds(p)[i], s[i], p.lb[i], p.ub[i], p.rev[i])]

\* A rotational joint is searched a revolution to each side of the start.
BoxAround(p, x) ==
  [i \in Active(p.couplings) |->
     LET type == Inner!Kinds(p)[i] IN
     CASE type = "Continuous" -> [lo |-> x[i] - p.rev[i], hi |-> x[i] + p.rev[i]]
       [] type = "Trans"      -> [lo |-> p.lb[i], hi |-> p.ub[i]]
       [] OTHER               -> [lo |-> Max({p.lb[i], x[i] - p.rev[i]}),
                                  hi |-> Min({p.ub[i], x[i] + p.rev[i]})]]

PointsOf(p, b) ==
  {x \in [Active(p.couplings) -> UNION {b[i].lo..b[i].hi : i \in Active(p.couplings)}] :
     \A i \in Active(p.couplings) : x[i] \in b[i].lo..b[i].hi}

\* Where the objective is evaluated.
Evaluated(p, b) ==
  PointsOf(p, b) \cup
  {[x EXCEPT ![i] = @ + Jump] : x \in PointsOf(p, b), i \in Active(p.couplings)}

-----------------------------------------------------------------------------
Init ==
  /\ problem \in Problems
  /\ seed = <<>> /\ left = 0 /\ aborted = FALSE
  /\ start = <<>> /\ best_x = <<>> /\ box = <<>> /\ progress = -3 /\ stopped = FALSE
  /\ pc = "idle" /\ rc = -3 /\ q_out = <<>>

Begin(s) ==
  /\ pc = "idle"
  /\ seed' = s /\ left' = MaxTime
  /\ IF Cardinality(Active(problem.couplings)) < 2
     THEN q_out' = s /\ rc' = -3 /\ UNCHANGED <<searchVars, pc>>
     ELSE /\ start' = StartFrom(problem, s)
          /\ best_x' = start'
          /\ box' = BoxAround(problem, start')
          /\ progress' = -3 /\ stopped' = FALSE
          /\ pc' = "optimizing" /\ rc' = 0 /\ q_out' = s
  /\ UNCHANGED <<problem, aborted>>

Unmoved == UNCHANGED <<problem, seed, left, aborted, start, box, pc, rc, q_out>>

\* The objective does nothing but stop the optimiser in a solve that is over.
Searching == ~aborted /\ progress = -3

Stop ==
  /\ pc = "optimizing" /\ ~Searching
  /\ stopped' = TRUE
  /\ Unmoved /\ UNCHANGED <<best_x, progress>>

\* Fault: the objective goes on after it has reached the goal.
NotANumberLate ==
  /\ pc = "optimizing" /\ ~aborted
  /\ progress' = -1
  /\ Unmoved /\ UNCHANGED <<best_x, stopped>>

\* Forward kinematics may come out as not a number.
NotANumber ==
  /\ pc = "optimizing" /\ Searching
  /\ progress' = -1
  /\ Unmoved /\ UNCHANGED <<best_x, stopped>>

Reaches(p, reduced) == Residual(p.goal, Expand(p.couplings, reduced)) < p.eps

Hit ==
  /\ pc = "optimizing" /\ Searching
  /\ \E x \in Evaluated(problem, box) : Reaches(problem, x) /\ best_x' = x
  /\ progress' = 1
  /\ Unmoved /\ UNCHANGED stopped

\* Fault: that a pose was not a number is remembered.
OptimizedRemembering ==
  /\ pc = "optimizing"
  /\ pc' = "deciding"
  /\ UNCHANGED <<problem, seed, left, aborted, searchVars, rc, q_out>>

\* optimize returns or throws.  That a pose was not a number is forgotten.
Optimized ==
  /\ pc = "optimizing"
  /\ pc' = "deciding"
  /\ progress' = IF progress = -1 THEN -3 ELSE progress
  /\ UNCHANGED <<problem, seed, left, aborted, start, best_x, box, stopped, rc, q_out>>

\* Fault: an abort only stops the optimiser.
DecideUnaborted ==
  /\ pc = "deciding"
  /\ IF left > 0 /\ progress < 0
     THEN /\ start' \in PointsOf(problem, box)
          /\ stopped' = FALSE /\ pc' = "optimizing"
          /\ UNCHANGED <<rc, q_out>>
     ELSE /\ q_out' = Expand(problem.couplings, best_x)
          /\ rc' = progress /\ pc' = "idle"
          /\ UNCHANGED <<start, stopped>>
  /\ UNCHANGED <<problem, seed, left, aborted, best_x, box, progress>>

\* Fault: what the solve returns is where its last attempt started.
DecideStart ==
  /\ pc = "deciding"
  /\ IF left > 0 /\ ~aborted /\ progress < 0
     THEN /\ start' \in PointsOf(problem, box)
          /\ stopped' = FALSE /\ pc' = "optimizing"
          /\ UNCHANGED <<rc, q_out>>
     ELSE /\ q_out' = Expand(problem.couplings, start)
          /\ rc' = progress /\ pc' = "idle"
          /\ UNCHANGED <<start, stopped>>
  /\ UNCHANGED <<problem, seed, left, aborted, best_x, box, progress>>

\* Once more from a random point of the box, or the return.  optimize begins
\* with the stop flag cleared.
Decide ==
  /\ pc = "deciding"
  /\ IF left > 0 /\ ~aborted /\ progress < 0
     THEN /\ start' \in PointsOf(problem, box)
          /\ stopped' = FALSE /\ pc' = "optimizing"
          /\ UNCHANGED <<rc, q_out>>
     ELSE /\ q_out' = Expand(problem.couplings, best_x)
          /\ rc' = progress /\ pc' = "idle"
          /\ UNCHANGED <<start, stopped>>
  /\ UNCHANGED <<problem, seed, left, aborted, best_x, box, progress>>

Tick ==
  /\ pc # "idle" /\ left > 0
  /\ left' = left - 1
  /\ UNCHANGED <<problem, seed, aborted, searchVars, pc, rc, q_out>>

\* The other thread's, at any time; the reset comes before the threads do.
Abort ==
  /\ ~aborted
  /\ aborted' = TRUE
  /\ UNCHANGED <<problem, seed, left, searchVars, pc, rc, q_out>>
Reset ==
  /\ pc = "idle" /\ aborted
  /\ aborted' = FALSE
  /\ UNCHANGED <<problem, seed, left, searchVars, pc, rc, q_out>>

Next == \/ \E s \in [DOMAIN problem.kinds -> SeedPositions] : Begin(s)
        \/ Stop \/ NotANumber \/ Hit \/ Optimized \/ Decide
        \/ Tick \/ Abort \/ Reset

SafeSpec == Init /\ [][Next]_vars

\* NLopt evaluates again as long as it does not return, and returns when it was
\* told to stop or its time is over; it need never converge or hit.
Spec ==
  /\ SafeSpec
  /\ WF_vars(Stop)
  /\ WF_vars(Optimized /\ (stopped \/ left = 0))
  /\ WF_vars(Decide)

-----------------------------------------------------------------------------
\* NLopt is never started outside the box it was given, which would make every
\* attempt an exception: however far outside the limits a seed was, the box is
\* inside them and the start is in the box.
StartsInBox ==
  pc = "optimizing" => \A i \in Active(problem.couplings) :
    /\ box[i].lo <= start[i] /\ start[i] <= box[i].hi
    /\ i \in Inner!Limited(problem) =>
         problem.lb[i] <= box[i].lo /\ box[i].hi <= problem.ub[i]

\* A point that reaches the goal is kept through whatever evaluations are still
\* under way, and is what the solve returns.
HitKept ==
  [][pc # "idle" /\ progress = 1 =>
       progress' = 1 /\ best_x' = best_x /\ (pc' = "idle" => rc' = 1)]_vars

\* A retry searches: what ended the attempt before, a pose that was not a number
\* or a stop, is over when it begins.
RetriesSearch ==
  [][pc = "deciding" /\ pc' = "optimizing" => progress' = -3 /\ ~stopped']_vars

\* To the racer it is an inner solver: it finds answers, or gives up for a reason.
Implements == Inner!Spec

\* A solve that was aborted or whose time is up ends.
StopsWhenTold ==
  (pc # "idle" /\ (left = 0 \/ aborted)) ~> pc = "idle"

=============================================================================
