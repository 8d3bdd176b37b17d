--------------------------------- MODULE TracIk ---------------------------------
(***************************************************************************)
(* TRAC_IK::CartToJnt (trac_ik_lib/src/trac_ik.cpp): one call starts two   *)
(* threads, a Newton branch (KDL) and an optimising branch (NLOPT).  Each  *)
(* repeats its inner solver from random seeds until time is up, adds what  *)
(* it finds to a list of candidates under a lock, and on leaving aborts    *)
(* the other.  The call joins both and returns the best candidate.  The    *)
(* inner solvers, with the bounds baked into them, outlive the call.       *)
(*                                                                         *)
(* An inner solve is abstracted to its possible outcomes: it gives up once *)
(* its time is up or it was aborted, or it finds any configuration that    *)
(* reaches the goal inside the bounds it was built with.  Time is counted  *)
(* down in ticks that can pass at any point.                               *)
(***************************************************************************)
EXTENDS Query

CONSTANTS
  Mechanisms,        \* the mechanisms a solver may be constructed for
  Queries,           \* what may be asked of it, seed and goal included
  Positions,         \* positions a joint may be found in
  DefaultEpsilon     \* the epsilon of a default Query

\* Bounds, seeds and couplings are numbers, and a joint has a revolution.  The
\* constructor asserts that there is a bound for each joint.
ASSUME MechanismsAssumption == \A g \in Mechanisms : Constructible(g)
ASSUME QueriesAssumption    == \A q \in Queries : Askable(q)
ASSUME NumbersAssumption == Positions \subseteq Int /\ DefaultEpsilon \in Int

Branches == {"KDL", "NLOPT"}
Other(b) == IF b = "KDL" THEN "NLOPT" ELSE "KDL"
Nobody   == "nobody"

VARIABLES
  mech,       \* the mechanism, as the constructor left it
  solver,     \* bounds and epsilon the two inner solvers hold
  types,      \* classification in force
  query,      \* the call's arguments
  resolved,   \* the bounds of the resolved query: filled in and tightened
  seed,       \* the repaired seed
  running,    \* a call is in progress
  answer,     \* what the last call returned, Pending during a call
  solutions,  \* candidates
  errors,     \* <<key, index into solutions>> for each
  mtx,        \* who holds the lock
  aborted,    \* abort flag of each inner solver
  left,       \* time left of the call
  maxtime,    \* time left of each inner solve
  pc,         \* where each thread is
  fresh,      \* the inner solver starts from the call's seed, not a random one
  found       \* what it found, normalised

callVars   == <<query, resolved, seed, running, answer>>
solverVars == <<mech, solver, types>>
listVars   == <<solutions, errors, mtx>>
timeVars   == <<left, maxtime>>
vars == <<solverVars, callVars, listVars, timeVars, aborted, pc, fresh, found>>

-----------------------------------------------------------------------------
(* A call before its threads start.                                        *)

\* Fault: bounds are the same if there are as many.
SameSize(a, b) == Len(a) = Len(b)

SameBounds(a, b) == a = b

\* Solvers built for these bounds.  NLOPT_IK drops the sign of epsilon, the
\* KDL solver keeps it.
Built(lb, ub, epsilon) ==
  [lb |-> lb, ub |-> ub, eps |-> [KDL |-> epsilon, NLOPT |-> Abs(epsilon)]]

\* configureSolvers: a change of bounds costs a rebuild, otherwise epsilon is
\* set on the solvers there are, and setEps drops its sign in both.
Configured(s, lb, ub, epsilon) ==
  IF SameBounds(s.lb, lb) /\ SameBounds(s.ub, ub)
  THEN [s EXCEPT !.eps = [b \in Branches |-> Abs(epsilon)]]
  ELSE Built(lb, ub, epsilon)

\* NLopt needs two variables to optimise.
Started(d) == IF Cardinality(Active(d)) >= 2 THEN Branches ELSE {"KDL"}

\* Nothing reads the solvers and the classification of a mechanism that was
\* refused.
Init ==
  /\ \E g \in Mechanisms : mech = Initialize(g)
  /\ solver = Built(mech.lb, mech.ub, DefaultEpsilon)
  /\ types = Types(mech.kinds, mech.lb, mech.ub)
  /\ query = NoQuery /\ seed = <<>>
  /\ resolved = [q_min |-> <<>>, q_max |-> <<>>]
  /\ running = FALSE
  /\ answer = Refused
  /\ solutions = <<>> /\ errors = <<>> /\ mtx = Nobody
  /\ aborted = [b \in Branches |-> FALSE]
  /\ left = 0 /\ maxtime = [b \in Branches |-> 0]
  /\ pc = [b \in Branches |-> "joined"]
  /\ fresh = [b \in Branches |-> TRUE]
  /\ found = [b \in Branches |-> <<>>]

\* Fault: only one of the two flags is cleared.
ResetNlopt == aborted' = [aborted EXCEPT !["NLOPT"] = FALSE]

\* Neither inner solver starts a call aborted.
ResetSolvers == aborted' = [b \in Branches |-> FALSE]

\* CartToJnt up to the two joins.
Call(q) ==
  LET bounds == Resolve(mech, q) IN
  /\ ~running /\ WellFormed(mech, q)
  /\ running' = TRUE /\ query' = q /\ answer' = Pending
  /\ resolved' = [q_min |-> bounds.lb, q_max |-> bounds.ub]
  /\ solver' = Configured(solver, bounds.lb, bounds.ub, q.epsilon)
  /\ types' = Types(mech.kinds, bounds.lb, bounds.ub)
  /\ seed' = RepairSeed(mech.couplings, types', q.seed, bounds.lb, bounds.ub)
  /\ left' = q.timeout
  /\ ResetSolvers
  /\ solutions' = <<>> /\ errors' = <<>>
  /\ pc' = [b \in Branches |-> IF b \in Started(mech.couplings) THEN "checking" ELSE "joined"]
  /\ fresh' = [b \in Branches |-> TRUE]
  /\ UNCHANGED <<mech, mtx, maxtime, found>>

\* Fault: the ranking is cleared before the arguments are looked at.
RefuseUnranked(q) ==
  /\ ~running /\ ~WellFormed(mech, q)
  /\ answer' = Refused /\ errors' = <<>>
  /\ UNCHANGED <<solverVars, query, resolved, seed, running, solutions, mtx, timeVars,
                 aborted, pc, fresh, found>>

\* The early returns of CartToJnt: nothing of an earlier call is touched.
Refuse(q) ==
  /\ ~running /\ ~WellFormed(mech, q)
  /\ answer' = Refused
  /\ UNCHANGED <<solverVars, query, resolved, seed, running, listVars, timeVars,
                 aborted, pc, fresh, found>>

-----------------------------------------------------------------------------
(* The loop of runSolver, one action per step other threads can see.       *)

Goto(b, label) == pc' = [pc EXCEPT ![b] = label]

\* Fault: a thread whose time is up goes on until there is a candidate.
CheckTimeUntilFound(b) ==
  /\ pc[b] = "checking"
  /\ IF left = 0 /\ solutions # <<>>
     THEN Goto(b, "leaving") /\ UNCHANGED maxtime
     ELSE Goto(b, "entering") /\ maxtime' = [maxtime EXCEPT ![b] = left]
  /\ UNCHANGED <<solverVars, callVars, listVars, left, aborted, fresh, found>>

\* Is there time left?  It becomes the inner solver's.
CheckTime(b) ==
  /\ pc[b] = "checking"
  /\ IF left = 0
     THEN Goto(b, "leaving") /\ UNCHANGED maxtime
     ELSE Goto(b, "entering") /\ maxtime' = [maxtime EXCEPT ![b] = left]
  /\ UNCHANGED <<solverVars, callVars, listVars, left, aborted, fresh, found>>

\* The KDL solver looks at its abort flag before anything else.
EnterSolver(b) ==
  /\ pc[b] = "entering"
  /\ Goto(b, IF b = "KDL" /\ aborted[b] THEN "peeking" ELSE "solving")
  /\ UNCHANGED <<solverVars, callVars, listVars, timeVars, aborted, fresh, found>>

WithinSolver(c) ==
  \A i \in Active(mech.couplings) : solver.lb[i] <= c[i] /\ c[i] <= solver.ub[i]

Configurations(d) == {Expand(d, r) : r \in [Active(d) -> Positions]}

\* The configurations an inner solve can return.  The KDL solver judges its
\* seed before it has clipped it.
InnerAnswers(b) ==
  {c \in Configurations(mech.couplings) :
     WithinSolver(c) /\ Residual(query.goal, c) < solver.eps[b]}
  \cup {c \in {RebuildMimicEntries(mech.couplings, seed)} :
     b = "KDL" /\ fresh[b] /\ Residual(query.goal, c) < solver.eps[b]}

\* The inner solver succeeds, possibly after its time or after the abort: both
\* are looked at only now and then.  The thread normalises what it got.
Find(b) ==
  /\ pc[b] = "solving"
  /\ \E c \in InnerAnswers(b) :
       found' = [found EXCEPT ![b] =
         Normalize(mech, types, query.solve_type, seed, c, resolved.q_min, resolved.q_max)]
  /\ Goto(b, "locking")
  /\ UNCHANGED <<solverVars, callVars, listVars, timeVars, aborted, fresh>>

GiveUp(b) ==
  /\ pc[b] = "solving"
  /\ maxtime[b] = 0 \/ aborted[b]
  /\ Goto(b, "peeking")
  /\ UNCHANGED <<solverVars, callVars, listVars, timeVars, aborted, fresh, found>>

\* Fault: the lists are used without waiting for the lock.
AcquireAnyway(b) ==
  /\ pc[b] = "locking"
  /\ mtx' = b
  /\ Goto(b, "testing")
  /\ UNCHANGED <<solverVars, callVars, solutions, errors, timeVars, aborted, fresh, found>>

Acquire(b) ==
  /\ pc[b] = "locking"
  /\ mtx = Nobody
  /\ mtx' = b
  /\ Goto(b, "testing")
  /\ UNCHANGED <<solverVars, callVars, solutions, errors, timeVars, aborted, fresh, found>>

UniqueSolution(c) == \A i \in DOMAIN solutions : ~Same(c, solutions[i])

\* A configuration already listed is dropped, ...
TestUnique(b) ==
  /\ pc[b] = "testing"
  /\ IF UniqueSolution(found[b])
     THEN Goto(b, "pushing") /\ UNCHANGED mtx
     ELSE mtx' = Nobody /\ Goto(b, "peeking")
  /\ UNCHANGED <<solverVars, callVars, solutions, errors, timeVars, aborted, fresh, found>>

\* ... a new one is listed, ...
Push(b) ==
  /\ pc[b] = "pushing"
  /\ solutions' = Append(solutions, found[b])
  /\ Goto(b, "ranking")
  /\ UNCHANGED <<solverVars, callVars, errors, mtx, timeVars, aborted, fresh, found>>

ManipScore(c) ==
  IF PenaltyPositive(types, c, resolved.q_min, resolved.q_max)
  THEN ManipValue(query.solve_type, <<resolved.q_min, resolved.q_max>>, c) ELSE 0

Key(c) == IF query.solve_type \in Manip THEN ManipScore(c)
                                        ELSE JointErr(mech.couplings, seed, c)

\* Fault: the entry gets the index of the candidate before it.
RankBefore(b) ==
  /\ pc[b] = "ranking"
  /\ errors' = [i \in DOMAIN solutions |->
                  IF i = Len(solutions) THEN <<Key(found[b]), i - 1>> ELSE errors[i]]
  /\ mtx' = Nobody
  /\ Goto(b, "peeking")
  /\ UNCHANGED <<solverVars, callVars, solutions, timeVars, aborted, fresh, found>>

\* ... and ranked: errors grows with solutions and its last entry is written.
Rank(b) ==
  /\ pc[b] = "ranking"
  /\ errors' = [i \in DOMAIN solutions |->
                  IF i = Len(solutions) THEN <<Key(found[b]), i>> ELSE errors[i]]
  /\ mtx' = Nobody
  /\ Goto(b, "peeking")
  /\ UNCHANGED <<solverVars, callVars, solutions, timeVars, aborted, fresh, found>>

\* Fault: the list may look empty whatever is in it.
NeverSeen(b) == TRUE

\* The list is read here without the lock.  A thread in the middle of the
\* first push_back may not have published it yet.  What this thread found is
\* not read again.
PushUnpublished(b) ==
  pc[Other(b)] = "ranking" /\ Len(solutions) = 1

StopsAtFirst == query.solve_type = "Speed"

Peek(b) ==
  /\ pc[b] = "peeking"
  /\ \/ /\ StopsAtFirst /\ solutions # <<>>
        /\ Goto(b, "leaving")
        /\ UNCHANGED fresh
     \/ /\ ~StopsAtFirst \/ solutions = <<>> \/ PushUnpublished(b)
        /\ Goto(b, "checking")
        /\ fresh' = [fresh EXCEPT ![b] = FALSE]
  /\ found' = [found EXCEPT ![b] = <<>>]
  /\ UNCHANGED <<solverVars, callVars, listVars, timeVars, aborted>>

\* Fault: the other thread is left to find out for itself.
LeaveQuietly(b) ==
  /\ pc[b] = "leaving"
  /\ maxtime' = [maxtime EXCEPT ![b] = query.timeout]
  /\ Goto(b, "joined")
  /\ fresh' = [fresh EXCEPT ![b] = TRUE]
  /\ UNCHANGED <<solverVars, callVars, listVars, left, aborted, found>>

\* Abort the other inner solver and restore this one's time.
Leave(b) ==
  /\ pc[b] = "leaving"
  /\ aborted' = [aborted EXCEPT ![Other(b)] = TRUE]
  /\ maxtime' = [maxtime EXCEPT ![b] = query.timeout]
  /\ Goto(b, "joined")
  /\ fresh' = [fresh EXCEPT ![b] = TRUE]
  /\ UNCHANGED <<solverVars, callVars, listVars, left, found>>

\* Fault: the clock is not stopped at zero.
TickPastZero ==
  /\ running
  /\ left' = left - 1
  /\ maxtime' = [b \in Branches |->
       IF pc[b] = "solving" /\ maxtime[b] > 0 THEN maxtime[b] - 1 ELSE maxtime[b]]
  /\ UNCHANGED <<solverVars, callVars, listVars, aborted, pc, fresh, found>>

\* Time passes for the call and for every inner solve in progress.
Tick ==
  /\ running
  /\ left > 0 \/ \E b \in Branches : pc[b] = "solving" /\ maxtime[b] > 0
  /\ left' = IF left > 0 THEN left - 1 ELSE 0
  /\ maxtime' = [b \in Branches |->
       IF pc[b] = "solving" /\ maxtime[b] > 0 THEN maxtime[b] - 1 ELSE maxtime[b]]
  /\ UNCHANGED <<solverVars, callVars, listVars, aborted, pc, fresh, found>>

-----------------------------------------------------------------------------
(* CartToJnt from the second join on.                                      *)

\* <<key, index>> pairs in the order std::sort leaves them in: descending for
\* the Manip types, which sort through reverse iterators, else ascending.
Precedes(e, f) == e[1] <= f[1] /\ (e[1] = f[1] => e[2] < f[2])
\* Fault: the Manip types sort in ascending order too.
BeforeAscending(e, f) == Precedes(e, f)
Before(e, f) == IF query.solve_type \in Manip THEN Precedes(f, e) ELSE Precedes(e, f)

Rankings(list) ==
  {r \in [DOMAIN list -> Range(list)] :
     \A i, j \in DOMAIN list : i < j => Before(r[i], r[j])}

Return ==
  /\ running
  /\ \A b \in Branches : pc[b] = "joined"
  /\ \E sorted \in Rankings(errors) :
       /\ errors' = sorted
       /\ answer' = IF solutions = <<>> THEN [rc |-> -3, q_out |-> query.seed]
                    ELSE [rc |-> Len(solutions), q_out |-> solutions[sorted[1][2]]]
  /\ running' = FALSE
  /\ UNCHANGED <<solverVars, query, resolved, seed, solutions, mtx, timeVars,
                 aborted, pc, fresh, found>>

-----------------------------------------------------------------------------
Run(b) == \/ CheckTime(b) \/ EnterSolver(b) \/ Find(b) \/ GiveUp(b) \/ Acquire(b)
          \/ TestUnique(b) \/ Push(b) \/ Rank(b) \/ Peek(b) \/ Leave(b)

Next == \/ \E q \in Queries : Call(q) \/ Refuse(q)
        \/ \E b \in Branches : Run(b)
        \/ Tick
        \/ Return

Spec == Init /\ [][Next]_vars

\* A thread that can take a step takes one, but an inner solver need never
\* succeed.  CheckTime to Leave are the steps of a thread that never waits for
\* anything but the lock.
Progress(b) == \/ CheckTime(b) \/ EnterSolver(b) \/ GiveUp(b) \/ Acquire(b)
               \/ TestUnique(b) \/ Push(b) \/ Rank(b) \/ Peek(b) \/ Leave(b)

ThreadsFair == (\A b \in Branches : WF_vars(Progress(b))) /\ WF_vars(Return)

FairSpec == Spec /\ ThreadsFair

-----------------------------------------------------------------------------
(* What a caller is promised.                                              *)

Promise == INSTANCE IkQuery WITH
  Mechanisms <- {Initialize(g) : g \in Mechanisms},
  Searchers  <- Cardinality(Branches),
  searching  <- running,
  expired    <- running /\ left = 0,
  cands      <- IF running THEN Range(solutions) ELSE {}

-----------------------------------------------------------------------------
(* Properties.                                                             *)

Labels == {"joined", "checking", "entering", "solving", "locking", "testing",
           "pushing", "ranking", "peeking", "leaving"}

\* Every variable has its type.
TypeOK ==
  /\ query \in Queries \cup {NoQuery}
  /\ running \in BOOLEAN
  /\ mtx \in Branches \cup {Nobody}
  /\ aborted \in [Branches -> BOOLEAN]
  /\ fresh \in [Branches -> BOOLEAN]
  /\ pc \in [Branches -> Labels]
  /\ left \in Nat
  /\ maxtime \in [Branches -> Nat]
  /\ solutions \in Seq([DOMAIN mech.kinds -> Int])
  /\ \E n \in 0..Len(solutions) : DOMAIN errors = 1..n
  /\ \A i \in DOMAIN errors : errors[i][2] \in DOMAIN solutions
  /\ DOMAIN found = Branches
  /\ answer.rc \in Int

\* Whenever a thread could take the lock, each candidate has its ranking entry,
\* with the key computed for it and its own index: between push_back and the
\* assignment to errors nobody else gets at the lists.
ErrorsIndexSolutions ==
  running /\ mtx = Nobody =>
    /\ DOMAIN errors = DOMAIN solutions
    /\ \A i \in DOMAIN solutions : errors[i] = <<Key(solutions[i]), i>>

\* The two threads never list one configuration twice, though both test for it
\* before they add theirs.
CandidatesDistinct ==
  \A i, j \in DOMAIN solutions : i # j => ~Same(solutions[i], solutions[j])

\* Under Speed the search is over at the first candidate: each thread adds one
\* at most, even if its unlocked look at the list misses the other's.
SpeedStopsAtFirst ==
  running /\ query.solve_type = "Speed" => Len(solutions) <= Cardinality(Branches)

\* An inner solver is aborted in a call only when that call is over for it: no
\* flag survives from an earlier call, and a thread that leaves has a reason
\* that holds for the other one as well.
AbortsJustified ==
  running => \A b \in Branches :
    aborted[b] => left = 0 \/ (query.solve_type = "Speed" /\ solutions # <<>>)

\* What the threads solve with is a function of the query: the inner solvers
\* are as if they had just been built for it, and they classify each joint as
\* the normalisation does.
NothingHidden ==
  running => /\ solver = Built(resolved.q_min, resolved.q_max, query.epsilon)
             /\ types = Types(mech.kinds, solver.lb, solver.ub)

\* Each candidate answers the query after it was normalised.
CandidatesAnswer ==
  running => \A i \in DOMAIN solutions : IsAnswer(mech, query, solutions[i])

\* test_trac_ik.cpp: "every joint value lies inside its limits".
InsideLimits ==
  running => \A i \in DOMAIN solutions : WithinAsked(mech, query, solutions[i])

\* Between calls the lists are those of the last call that was taken, however
\* many were refused since: each candidate ranked once, under the key it has for
\* that call's query, best first.  While the return code tells of candidates it
\* tells how many, and the first is what was returned (trac_ik.hpp:138).
RankingOfLastCall ==
  ~running =>
    /\ {errors[i] : i \in DOMAIN errors} = {<<Key(solutions[i]), i>> : i \in DOMAIN solutions}
    /\ \A i, j \in DOMAIN errors : i < j => Before(errors[i], errors[j])
    /\ answer.rc > 0 => /\ Len(solutions) = answer.rc
                        /\ solutions[errors[1][2]] = answer.q_out

\* A call is answered as IkQuery says, whatever was asked before it.
KeepsPromise == Promise!SafeSpec

\* ... and, as long as time passes, every call is answered in the end.
KeepsPromiseInTime == WF_vars(Tick) => Promise!Live

\* A Speed call returns once a candidate is listed, even if time stands still:
\* the thread that leaves aborts the other.
SpeedReturnsEarly ==
  (running /\ query.solve_type = "Speed" /\ solutions # <<>>) ~> ~running

=============================================================================
