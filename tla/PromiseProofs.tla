----------------------------- MODULE PromiseProofs -----------------------------
(***************************************************************************)
(* TracIk implements IkQuery: what two threads, a lock, abort flags, a     *)
(* clock and cached solvers make of a call is what its caller is promised. *)
(* Each candidate they list answers the query on the conditions of         *)
(* Answerable, and the rest of the promise is kept whenever it does.       *)
(***************************************************************************)
EXTENDS TracIkProofs, Answerable

-----------------------------------------------------------------------------
(* Sorted lists.                                                           *)

\* A list of entries with an index each, no two of them the same.
Indexed(list) ==
  /\ \E n \in Nat : DOMAIN list = 1..n
  /\ \A i \in DOMAIN list : list[i][2] = i

\* Sorting loses no entry.
LEMMA SortedIsOnto ==
  ASSUME NEW list, Indexed(list), NEW sorted \in Rankings(list), NEW j \in DOMAIN list
  PROVE  \E k \in DOMAIN list : sorted[k] = list[j]
<1> DEFINE D == DOMAIN list
           R == Range(list)
<1>1. PICK n \in Nat : D = 1..n
    BY DEF Indexed
<1>2. IsFiniteSet(D)
    BY <1>1, FS_Interval
<1> DEFINE f == [i \in D |-> list[i]]
<1>3. f \in Surjection(D, R)
    BY DEF Surjection, Range
<1>4. IsFiniteSet(R) /\ Cardinality(R) <= Cardinality(D) /\ Cardinality(D) \in Nat
    BY <1>2, <1>3, FS_Surjection, FS_CardinalityType
<1>5. sorted \in [D -> R]
    BY DEF Rankings
<1>6. ASSUME NEW x \in D, NEW y \in D, x # y
      PROVE  sorted[x] # sorted[y]
  <2>1. \A i, k \in D : i < k => Before(sorted[i], sorted[k])
      BY DEF Rankings
  <2>2. sorted[x][2] \in Int /\ sorted[y][2] \in Int
      BY <1>1, <1>5 DEF Indexed, Range
  <2>3. Before(sorted[x], sorted[y]) \/ Before(sorted[y], sorted[x])
      BY <1>1, <1>6, <2>1
  <2> QED BY <2>2, <2>3 DEF Before, Precedes
<1>7. SUFFICES ASSUME \A k \in D : sorted[k] # list[j] PROVE FALSE
    OBVIOUS
<1> DEFINE T == R \ {list[j]}
<1>8. IsFiniteSet(T) /\ Cardinality(T) = Cardinality(R) - 1
  <2>1. list[j] \in R
      BY DEF Range
  <2> HIDE DEF R
  <2> QED BY <1>4, <2>1, FS_RemoveElement
<1>9. sorted \in [D -> T]
    BY <1>5, <1>7
<1>10. Cardinality(R) \in Nat /\ Cardinality(T) < Cardinality(D)
    BY <1>4, <1>8, FS_CardinalityType
<1> HIDE DEF D, T, R
<1>11. \E x, y \in D : x # y /\ sorted[x] = sorted[y]
    BY <1>2, <1>8, <1>9, <1>10, FS_PigeonHole
<1> QED BY <1>6, <1>11

\* The head of a sorted list comes before every other entry.
LEMMA HeadIsFirst ==
  ASSUME NEW list, Indexed(list), NEW sorted \in Rankings(list), DOMAIN list # {}
  PROVE  \E i \in DOMAIN list :
           /\ sorted[1] = list[i]
           /\ \A j \in DOMAIN list \ {i} : Before(list[i], list[j])
<1>1. PICK n \in Nat : DOMAIN list = 1..n
    BY DEF Indexed
<1>2. 1 \in DOMAIN list /\ \A k \in DOMAIN list \ {1} : 1 < k
    BY <1>1
<1>3. sorted \in [DOMAIN list -> Range(list)]
    BY DEF Rankings
<1>4. PICK i \in DOMAIN list : sorted[1] = list[i]
    BY <1>2, <1>3 DEF Range
<1>5. ASSUME NEW j \in DOMAIN list \ {i} PROVE Before(list[i], list[j])
  <2>1. PICK k \in DOMAIN list : sorted[k] = list[j]
      BY SortedIsOnto
  <2>2. k # 1
    <3>1. list[i] # list[j]
        BY DEF Indexed
    <3> QED BY <1>4, <2>1, <3>1
  <2> QED BY <1>2, <1>4, <2>1, <2>2 DEF Rankings
<1> QED BY <1>4, <1>5

-----------------------------------------------------------------------------
(* What a call that is over leaves behind.                                 *)

\* Between calls the lists are the last call's, and an answer with a solution is, too.
HeadInv == RankingOfLastCall /\ (running => answer.rc = 0)

\* Threads only run in a call.
LEMMA RunsInCall ==
  ASSUME Inv, NEW b \in Branches, Run(b)
  PROVE  running /\ running' = running /\ answer' = answer
BY DEF Run, CheckTime, EnterSolver, Find, GiveUp, Acquire, TestUnique, Push, Rank, Peek, Leave,
       Inv, LockInv, ScalarInv, callVars

\* When both threads have joined, the ranking is a list of all candidates.
LEMMA RankedWhenJoined ==
  ASSUME Inv, RankInv, running, \A b \in Branches : pc[b] = "joined"
  PROVE  /\ DOMAIN errors = DOMAIN solutions /\ Indexed(errors)
         /\ \A i \in DOMAIN solutions : errors[i] = <<Key(solutions[i]), i>>
<1>1. DOMAIN errors = DOMAIN solutions /\ solutions \in Seq(Full)
    BY DEF Inv, ListInv
<1>2. \A i \in DOMAIN solutions : errors[i] = <<Key(solutions[i]), i>>
    BY <1>1 DEF RankInv
<1>3. Len(solutions) \in Nat /\ DOMAIN errors = 1..Len(solutions)
    BY <1>1
<1>4. \A i \in DOMAIN errors : errors[i][2] = i
    BY <1>1, <1>2
<1> QED BY <1>1, <1>2, <1>3, <1>4 DEF Indexed

\* Sorting the ranking of all candidates leaves just their entries, best first.
LEMMA SortedRanking ==
  ASSUME Inv, RankInv, running, \A b \in Branches : pc[b] = "joined",
         NEW sorted \in Rankings(errors)
  PROVE  /\ DOMAIN sorted = DOMAIN solutions
         /\ {sorted[i] : i \in DOMAIN sorted} = {<<Key(solutions[i]), i>> : i \in DOMAIN solutions}
         /\ \A i, j \in DOMAIN sorted : i < j => Before(sorted[i], sorted[j])
<1>1. /\ DOMAIN errors = DOMAIN solutions /\ Indexed(errors)
      /\ \A i \in DOMAIN solutions : errors[i] = <<Key(solutions[i]), i>>
    BY RankedWhenJoined
<1>2. sorted \in [DOMAIN errors -> Range(errors)]
    BY DEF Rankings
<1>3. ASSUME NEW k \in DOMAIN sorted
      PROVE  \E i \in DOMAIN solutions : sorted[k] = <<Key(solutions[i]), i>>
    BY <1>1, <1>2 DEF Range
<1>4. ASSUME NEW i \in DOMAIN solutions
      PROVE  \E k \in DOMAIN sorted : sorted[k] = <<Key(solutions[i]), i>>
  <2>1. \E k \in DOMAIN errors : sorted[k] = errors[i]
      BY <1>1, SortedIsOnto
  <2> QED BY <1>1, <1>2, <2>1
<1>5. \A i, j \in DOMAIN sorted : i < j => Before(sorted[i], sorted[j])
    BY <1>2 DEF Rankings
<1> QED BY <1>1, <1>2, <1>3, <1>4, <1>5

\* The order of entries, like their keys, does not change with a refusal.
LEMMA RankingStable ==
  ASSUME UNCHANGED <<mech, types, query, resolved, seed, running, solutions, errors>>,
         RankingOfLastCall, answer' = answer \/ answer'.rc <= 0, answer'.rc \in Int
  PROVE  RankingOfLastCall'
<1>1. \A i \in DOMAIN solutions : Key(solutions[i])' = Key(solutions[i])
    BY KeyStable
<1>2. \A e, f : Before(e, f)' = Before(e, f)
    BY DEF Before
<1> QED BY <1>1, <1>2 DEF RankingOfLastCall

\* Only Return writes an answer with a solution, and a refusal leaves the lists.
LEMMA HeadInvStep ==
  ASSUME Inv, RankInv, HeadInv, [Next]_vars
  PROVE  HeadInv'
<1>1. ASSUME UNCHANGED <<running, answer>>, running PROVE HeadInv'
    BY <1>1 DEF HeadInv, RankingOfLastCall
<1>2. ASSUME NEW q \in Queries, Call(q) PROVE HeadInv'
  <2>1. answer' = Pending /\ running'
      BY <1>2 DEF Call
  <2> QED BY <2>1 DEF HeadInv, RankingOfLastCall, Pending
<1>3. ASSUME NEW q \in Queries, Refuse(q) PROVE HeadInv'
  <2>1. /\ UNCHANGED <<mech, types, query, resolved, seed, running, solutions, errors>>
        /\ ~running /\ answer' = Refused
      BY <1>3 DEF Refuse, solverVars, listVars
  <2> QED BY <2>1, RankingStable DEF HeadInv, Refused
<1>4. ASSUME NEW b \in Branches, Run(b) PROVE HeadInv'
    BY <1>1, <1>4, RunsInCall
<1>5. CASE Tick
    BY <1>1, <1>5 DEF Tick, callVars
<1>6. CASE Return
  <2>1. /\ running /\ (\A b \in Branches : pc[b] = "joined") /\ running' = FALSE
        /\ UNCHANGED <<mech, types, query, resolved, seed, solutions>>
      BY <1>6 DEF Return, solverVars
  <2>2. PICK sorted \in Rankings(errors) :
          /\ errors' = sorted
          /\ answer' = IF solutions = <<>> THEN [rc |-> -3, q_out |-> query.seed]
                       ELSE [rc |-> Len(solutions), q_out |-> solutions[sorted[1][2]]]
      BY <1>6 DEF Return
  <2>3. /\ {sorted[i] : i \in DOMAIN sorted} = {<<Key(solutions[i]), i>> : i \in DOMAIN solutions}
        /\ \A i, j \in DOMAIN sorted : i < j => Before(sorted[i], sorted[j])
      BY <2>1, SortedRanking
  <2>4. \A i \in DOMAIN solutions : Key(solutions[i])' = Key(solutions[i])
      BY <2>1, KeyStable
  <2>5. \A e, f : Before(e, f)' = Before(e, f)
      BY <2>1 DEF Before
  <2>6. answer'.rc > 0 => answer'.rc = Len(solutions) /\ solutions[sorted[1][2]] = answer'.q_out
      BY <2>2
  <2> QED BY <2>1, <2>2, <2>3, <2>4, <2>5, <2>6 DEF HeadInv, RankingOfLastCall
<1>7. CASE UNCHANGED vars
  <2>1. /\ UNCHANGED <<mech, types, query, resolved, seed, running, solutions, errors, answer>>
        /\ answer.rc \in Int
      BY <1>7 DEF vars, solverVars, callVars, listVars, Inv, ScalarInv
  <2> QED BY <2>1, RankingStable DEF HeadInv
<1> QED BY <1>2, <1>3, <1>4, <1>5, <1>6, <1>7 DEF Next

\* Between calls the candidates and their ranking are those of the last call that
\* was taken, by its keys and in its order, whatever was refused after it
\* (CartToJnt, 470-569, and getSolutions).
THEOREM LastRanking == Spec => []RankingOfLastCall
<1>1. Init => RankInv /\ HeadInv
    BY DEF Init, RankInv, HeadInv, RankingOfLastCall, Refused
<1>2. Inv /\ RankInv /\ HeadInv /\ [Next]_vars => RankInv' /\ HeadInv'
    BY RankInvStep, HeadInvStep
<1>3. HeadInv => RankingOfLastCall
    BY DEF HeadInv
<1> QED BY <1>1, <1>2, <1>3, InvInvariant, PTL DEF Spec

-----------------------------------------------------------------------------
(* What a call in progress works with.                                     *)

\* The bounds, the classification and the seed in force follow from the query.
QueryInv ==
  running =>
    /\ resolved.q_min = Resolve(mech, query).lb
    /\ resolved.q_max = Resolve(mech, query).ub
    /\ types = Types(mech.kinds, resolved.q_min, resolved.q_max)
    /\ seed = RepairSeed(mech.couplings, types, query.seed, resolved.q_min, resolved.q_max)

\* The Newton branch takes part in every call and leaves it for a reason.
JoinInv ==
  running /\ pc["KDL"] = "joined" =>
    left = 0 \/ (query.solve_type = "Speed" /\ solutions # <<>>)

\* Only a call sets them, and it lasts until the next.
LEMMA QueryInvStep ==
  ASSUME Inv, QueryInv, [Next]_vars
  PROVE  QueryInv'
<1>1. ASSUME UNCHANGED <<mech, types, query, resolved, seed, running>> PROVE QueryInv'
    BY <1>1 DEF QueryInv
<1>2. ASSUME NEW q \in Queries, Call(q) PROVE QueryInv'
  <2> DEFINE bounds == Resolve(mech, q)
  <2>1. /\ mech' = mech /\ query' = q
        /\ resolved' = [q_min |-> bounds.lb, q_max |-> bounds.ub]
        /\ types' = Types(mech.kinds, bounds.lb, bounds.ub)
        /\ seed' = RepairSeed(mech.couplings, types', q.seed, bounds.lb, bounds.ub)
      BY <1>2 DEF Call
  <2>2. resolved'.q_min = Resolve(mech', query').lb /\ resolved'.q_max = Resolve(mech', query').ub
      BY <2>1
  <2> HIDE DEF bounds
  <2>3. resolved'.q_min = bounds.lb /\ resolved'.q_max = bounds.ub
      BY <2>1
  <2> QED BY <2>1, <2>2, <2>3 DEF QueryInv
<1>3. ASSUME NEW q \in Queries, Refuse(q) PROVE QueryInv'
    BY <1>1, <1>3 DEF Refuse, solverVars
<1>4. ASSUME NEW b \in Branches, Run(b) PROVE QueryInv'
    BY <1>1, <1>4 DEF Run, CheckTime, EnterSolver, Find, GiveUp, Acquire, TestUnique, Push,
                      Rank, Peek, Leave, solverVars, callVars
<1>5. CASE Tick
    BY <1>1, <1>5 DEF Tick, solverVars, callVars
<1>6. CASE Return
    BY <1>6 DEF Return, QueryInv
<1>7. CASE UNCHANGED vars
    BY <1>1, <1>7 DEF vars, solverVars, callVars
<1> QED BY <1>2, <1>3, <1>4, <1>5, <1>6, <1>7 DEF Next

\* A thread joins through Leave, and what it left for lasts.
LEMMA JoinInvStep ==
  ASSUME Inv, AbortInv, JoinInv, [Next]_vars
  PROVE  JoinInv'
<1>1. ASSUME UNCHANGED <<query, running, left>>, solutions # <<>> => solutions' # <<>>,
             pc'["KDL"] = "joined" => pc["KDL"] \in {"joined", "leaving"}
      PROVE  JoinInv'
  <2>1. "KDL" \in Branches
      BY DEF Branches
  <2> QED BY <1>1, <2>1 DEF JoinInv, AbortInv
<1>2. ASSUME NEW q \in Queries, Call(q) PROVE JoinInv'
  <2>1. pc'["KDL"] = "checking"
      BY <1>2 DEF Call, Started, Branches
  <2> QED BY <2>1 DEF JoinInv
<1>3. ASSUME NEW q \in Queries, Refuse(q) PROVE JoinInv'
    BY <1>1, <1>3 DEF Refuse, listVars, timeVars
<1>4. ASSUME NEW b \in Branches, Run(b), ~Push(b) PROVE JoinInv'
  <2>1. UNCHANGED <<query, running, solutions, left>>
      BY <1>4 DEF Run, CheckTime, EnterSolver, Find, GiveUp, Acquire, TestUnique, Rank, Peek,
                  Leave, callVars, listVars, timeVars
  <2>2. PICK label \in Labels : pc' = [pc EXCEPT ![b] = label]
                                /\ (label = "joined" => pc[b] = "leaving")
      BY <1>4 DEF Run, CheckTime, EnterSolver, Find, GiveUp, Acquire, TestUnique, Rank, Peek,
                  Leave, Goto, Labels
  <2>3. pc'["KDL"] = "joined" => pc["KDL"] \in {"joined", "leaving"}
      BY <2>2 DEF Inv, ScalarInv, Branches
  <2> QED BY <1>1, <2>1, <2>3
<1>5. ASSUME NEW b \in Branches, Push(b) PROVE JoinInv'
  <2>1. /\ UNCHANGED <<query, running, left>>
        /\ solutions' = Append(solutions, found[b]) /\ pc' = [pc EXCEPT ![b] = "ranking"]
      BY <1>5 DEF Push, Goto, callVars, timeVars
  <2>2. solutions' # <<>>
      BY <2>1 DEF Inv, ListInv
  <2>3. pc'["KDL"] = "joined" => pc["KDL"] \in {"joined", "leaving"}
      BY <2>1 DEF Inv, ScalarInv, Branches
  <2> QED BY <1>1, <2>1, <2>2, <2>3
<1>6. CASE Tick
  <2>1. UNCHANGED <<query, running, solutions, pc>> /\ (left = 0 => left' = 0)
      BY <1>6 DEF Tick, callVars, listVars
  <2> QED BY <2>1 DEF JoinInv
<1>7. CASE Return
    BY <1>7 DEF Return, JoinInv
<1>8. CASE UNCHANGED vars
    BY <1>1, <1>8 DEF vars, callVars, listVars, timeVars
<1> QED BY <1>2, <1>3, <1>4, <1>5, <1>6, <1>7, <1>8 DEF Next

-----------------------------------------------------------------------------
(* How many candidates there are.                                          *)

\* IkQuery counts as the rest of the project does.
LEMMA PromiseCardinality == ASSUME NEW S PROVE Promise!Cardinality(S) = Cardinality(S)
BY DEF Promise!Cardinality, Cardinality

\* A configuration is the same as itself.
LEMMA SameReflexive == ASSUME NEW c \in Full PROVE Same(c, c)
BY SameTolAssumption DEF Same, Full

\* As many as the list is long, if no two are the same.
LEMMA CandidatesCounted ==
  ASSUME Inv, CandidatesDistinct
  PROVE  Cardinality(Range(solutions)) = Len(solutions)
<1> DEFINE D == DOMAIN solutions
           R == Range(solutions)
           f == [i \in D |-> solutions[i]]
<1>1. /\ solutions \in Seq(Full) /\ Len(solutions) \in Nat /\ D = 1..Len(solutions)
      /\ \A i \in D : solutions[i] \in Full
    BY DEF Inv, ListInv
<1>2. IsFiniteSet(D) /\ Cardinality(D) = Len(solutions)
    BY <1>1, FS_Interval
<1>3. ASSUME NEW i \in D, NEW j \in D, solutions[i] = solutions[j] PROVE i = j
    BY <1>1, <1>3, SameReflexive DEF CandidatesDistinct
<1>4. f \in Surjection(D, R) /\ f \in Injection(D, R)
    BY <1>3 DEF Injection, Surjection, IsInjective, Range
<1> HIDE DEF D, R, f
<1>5. Cardinality(D) = Cardinality(R)
    BY <1>2, <1>4, FS_Surjection
<1> QED BY <1>2, <1>5 DEF R

-----------------------------------------------------------------------------
(* What a thread lists answers the query, on the conditions of Answerable. *)

\* A call is of a mechanism and a query that fit, and its inner solvers are
\* built for its bounds and at most as lax as its epsilon.
AskedInv ==
  /\ \E g \in Mechanisms : mech = Initialize(g)
  /\ solver = [lb |-> solver.lb, ub |-> solver.ub, eps |-> solver.eps]
  /\ running => /\ WellFormed(mech, query)
                /\ solver.lb = resolved.q_min /\ solver.ub = resolved.q_max
                /\ \A b \in Branches : solver.eps[b] \in Int /\ solver.eps[b] <= Abs(query.epsilon)

\* What is listed answers the query, and what is on its way to the list.
AnswersInv ==
  /\ CandidatesAnswer
  /\ running => \A b \in Branches : pc[b] \in Carrying => IsAnswer(mech, query, found[b])

\* An inner solver's configuration holds the couplings, and is inside the
\* bounds when the search started there.
LEMMA FoundInside ==
  ASSUME Inv, QueryInv, AskedInv, running,
         NEW b \in Branches, NEW c \in InnerAnswers(b)
  PROVE  /\ c \in Full /\ c = RebuildMimicEntries(mech.couplings, c)
         /\ c \in Configurations(mech.couplings) \cup {RebuildMimicEntries(mech.couplings, seed)}
         /\ StartsInside(mech, query) =>
              \A i \in Active(mech.couplings) : Inside(c[i], resolved.q_min[i], resolved.q_max[i])
         /\ Residual(query.goal, c) < solver.eps[b]
<1> DEFINE d == mech.couplings
<1>1. c \in Full
    BY AnswersTyped DEF Inv
<1>2. Valid(d) /\ d \in Seq(Coupling) /\ query \in Queries
    BY DEF Inv, MechInv, CallInv
<1>3. CASE c \in Configurations(d) /\ WithinSolver(c)
  <2>1. PICK r \in [Active(d) -> Positions] : c = Expand(d, r)
      BY <1>3 DEF Configurations
  <2>2. c = RebuildMimicEntries(d, c)
      BY <1>2, <2>1, ExpandTwice DEF RebuildMimicEntries
  <2>3. \A i \in Active(d) : Inside(c[i], resolved.q_min[i], resolved.q_max[i])
      BY <1>3 DEF WithinSolver, AskedInv, Inside
  <2> QED BY <1>1, <1>3, <2>2, <2>3 DEF InnerAnswers
<1>4. CASE c = RebuildMimicEntries(d, seed)
  <2>1. c = RebuildMimicEntries(d, c)
      BY <1>2, <1>4, ExpandTwice DEF RebuildMimicEntries
  <2>2. \A i \in Active(d) : c[i] = seed[i]
      BY <1>4 DEF RebuildMimicEntries, Expand, Reduce, Active
  <2>3. seed = StartOf(mech, query)
      BY DEF QueryInv, StartOf
  <2>4. StartsInside(mech, query) =>
          \A i \in Active(d) : Inside(seed[i], resolved.q_min[i], resolved.q_max[i])
      BY <2>3 DEF StartsInside, QueryInv
  <2> QED BY <1>1, <1>4, <2>1, <2>2, <2>4 DEF InnerAnswers
<1> QED BY <1>3, <1>4 DEF InnerAnswers

\* The configuration a thread makes of what it found.
Turned(c) ==
  Normalize(mech, types, query.solve_type, seed, c, resolved.q_min, resolved.q_max)

\* A joint the solver chooses is turned by revolutions, if at all, and stays
\* inside its bounds if the search started inside them.
LEMMA TurnedActive ==
  ASSUME Inv, QueryInv, AskedInv, running, NEW c \in Full,
         NEW i \in Active(mech.couplings)
  PROVE  /\ \/ Turned(c)[i] = c[i]
            \/ /\ mech.kinds[i] = "Rot" /\ mech.shares_revolutions[i]
               /\ SameAngle(c[i], Turned(c)[i], mech.rev[i])
         /\ /\ StartsInside(mech, query) /\ types[i] # "Continuous"
            /\ Inside(c[i], resolved.q_min[i], resolved.q_max[i])
            => Inside(Turned(c)[i], resolved.q_min[i], resolved.q_max[i])
<1> DEFINE lo == resolved.q_min[i]
           hi == resolved.q_max[i]
           target == Target(query.solve_type, types[i], seed[i], lo, hi)
<1>1. /\ i \in DOMAIN mech.couplings /\ i \in DOMAIN mech.kinds /\ ~IsMimic(mech.couplings, i)
      /\ mech.kinds[i] \in {"Rot", "Trans"} /\ mech.rev[i] \in Nat \ {0}
      /\ c[i] \in Int /\ seed[i] \in Int /\ lo \in Int /\ hi \in Int
    BY DEF Inv, MechInv, CallInv, Active, Full
<1>2. types[i] = IF mech.kinds[i] = "Rot" /\ hi >= Sentinel /\ lo <= -Sentinel
                 THEN "Continuous" ELSE mech.kinds[i]
    BY <1>1 DEF QueryInv, Types
<1>3. Turned(c)[i] = IF types[i] = "Trans" \/ ~mech.shares_revolutions[i] THEN c[i]
                     ELSE IF types[i] = "Continuous" THEN NormalizeNear(c[i], target, mech.rev[i])
                     ELSE NormalizeInto(c[i], target, lo, hi, mech.rev[i])
    BY <1>1 DEF Turned, Normalize, RebuildMimicEntries, Expand, Reduce, Full
<1>4. StartsInside(mech, query) => Inside(seed[i], lo, hi)
  <2>1. seed = StartOf(mech, query)
      BY DEF QueryInv, StartOf
  <2> QED BY <2>1 DEF StartsInside, QueryInv
<1> HIDE DEF lo, hi
<1>5. target \in Int /\ (StartsInside(mech, query) => Inside(target, lo, hi))
  <2>1. /\ (hi + lo) \div 2 \in Int
        /\ lo <= hi => lo <= (hi + lo) \div 2 /\ (hi + lo) \div 2 <= hi
      BY <1>1
  <2> QED BY <1>1, <1>4, <2>1 DEF Target, Inside
<1> HIDE DEF target
<1>6. NormalizeInto(c[i], target, lo, hi, mech.rev[i]) \in Int
      /\ SameAngle(c[i], NormalizeInto(c[i], target, lo, hi, mech.rev[i]), mech.rev[i])
    BY <1>1, <1>5, TurnedIntoLimits
<1>7. SameAngle(c[i], NormalizeNear(c[i], target, mech.rev[i]), mech.rev[i])
  <2>1. /\ target - mech.rev[i] \div 2 \in Int
        /\ target + mech.rev[i] \div 2 \in Int
      BY <1>1, <1>5
  <2> QED BY <1>1, <2>1, AngleNormalized DEF NormalizeNear
<1>8. ASSUME StartsInside(mech, query), Inside(c[i], lo, hi)
      PROVE  Inside(NormalizeInto(c[i], target, lo, hi, mech.rev[i]), lo, hi)
  <2>1. lo <= c[i] /\ c[i] <= hi
      BY <1>8 DEF Inside
  <2>2. lo <= target /\ target <= hi
      BY <1>5, <1>8 DEF Inside
  <2> QED BY <1>1, <1>5, <2>1, <2>2, TurnedIntoLimits DEF Inside
<1>9. types[i] # "Trans" => mech.kinds[i] = "Rot"
    BY <1>1, <1>2
<1> QED BY <1>3, <1>6, <1>7, <1>8, <1>9 DEF lo, hi

\* A joint that shares its revolutions passes them on whole.
LEMMA RevolutionsShared ==
  ASSUME NEW a \in Nat \ {0}, NEW b \in Nat \ {0}, NEW mult \in Int, NEW off \in Int,
         (mult * a) % b = 0, NEW x \in Int, NEW y \in Int, SameAngle(x, y, a)
  PROVE  SameAngle(mult * x + off, mult * y + off, b)
<1>1. PICK k \in Int : y = x + a * k
    BY DEF SameAngle
<1> DEFINE p == mult * a
           j == p \div b
<1>2. p \in Int /\ p % b = 0
    OBVIOUS
<1>3. j \in Int /\ p = b * j
  <2> HIDE DEF p
  <2>1. p = b * (p \div b) + (p % b) /\ p \div b \in Int
      BY <1>2, Division
  <2> QED BY <1>2, <2>1
<1> HIDE DEF j
<1>4. mult * y + off = (mult * x + off) + p * k
    BY <1>1
<1>5. p * k = b * (j * k) /\ j * k \in Int
    BY <1>1, <1>3
<1>6. mult * y + off = (mult * x + off) + b * (j * k)
    BY <1>4, <1>5
<1> QED BY <1>5, <1>6 DEF SameAngle

\* The constructor classified the joints of the mechanism in use.
LEMMA SharingKnown ==
  ASSUME Inv, AskedInv, running, NEW m \in Active(mech.couplings), mech.shares_revolutions[m],
         NEW i \in Followers(mech.couplings, m)
  PROVE  /\ mech.kinds[i] = mech.kinds[m]
         /\ (mech.couplings[i].multiplier * mech.rev[m]) % mech.rev[i] = 0
<1>1. PICK g \in Mechanisms : mech = Initialize(g)
    BY DEF AskedInv
<1>2. mech.initialized
    BY DEF Inv, CallInv
<1>3. mech.shares_revolutions = SharesRevolutions(mech.couplings, mech.kinds, mech.rev)
    BY <1>1, <1>2 DEF Initialize
<1>4. m \in DOMAIN mech.couplings
    BY DEF Active
<1> QED BY <1>3, <1>4 DEF SharesRevolutions

\* Every joint, mimic joints included, is turned by revolutions, if at all.
LEMMA TurnedByRevolutions ==
  ASSUME Inv, QueryInv, AskedInv, running,
         NEW c \in Full, c = RebuildMimicEntries(mech.couplings, c), NEW i \in DOMAIN mech.kinds
  PROVE  \/ Turned(c)[i] = c[i]
         \/ mech.kinds[i] = "Rot" /\ SameAngle(c[i], Turned(c)[i], mech.rev[i])
<1> DEFINE d == mech.couplings
           y == Turned(c)
<1>1. d \in Seq(Coupling) /\ Valid(d) /\ DOMAIN d = DOMAIN mech.kinds
      /\ mech.rev \in [DOMAIN d -> Nat \ {0}]
    BY DEF Inv, MechInv, CallInv
<1>2. CASE ~IsMimic(d, i)
  <2>1. i \in Active(d)
      BY <1>1, <1>2 DEF Active
  <2> QED BY <2>1, TurnedActive
<1>3. CASE IsMimic(d, i)
  <2> DEFINE m == d[i].mimicked
  <2>1. m \in Active(d) /\ m \in DOMAIN d /\ i \in Followers(d, m) /\ d[i] \in Coupling
      BY <1>1, <1>3 DEF Valid, Active, Followers, Mimics
  <2>2. c[i] = Couple(d[i], c[m])
      BY <1>1, <1>3, <2>1 DEF RebuildMimicEntries, Expand, Reduce
  <2>3. y[i] = Couple(d[i], y[m])
    <3>1. PICK x : y = RebuildMimicEntries(d, x)
        BY DEF Turned, Normalize
    <3>2. y[i] = Couple(d[i], x[m]) /\ y[m] = x[m]
        BY <1>1, <1>3, <2>1, <3>1 DEF RebuildMimicEntries, Expand, Reduce, Active
    <3> QED BY <3>2
  <2> HIDE DEF y, m
  <2>4. CASE y[m] = c[m]
      BY <2>2, <2>3, <2>4 DEF y
  <2>5. CASE mech.kinds[m] = "Rot" /\ mech.shares_revolutions[m] /\ SameAngle(c[m], y[m], mech.rev[m])
    <3>1. mech.kinds[i] = "Rot" /\ (d[i].multiplier * mech.rev[m]) % mech.rev[i] = 0
        BY <2>1, <2>5, SharingKnown
    <3>2. /\ c[m] \in Int /\ y[m] \in Int /\ d[i].multiplier \in Int /\ d[i].offset \in Int
          /\ mech.rev[m] \in Nat \ {0} /\ mech.rev[i] \in Nat \ {0}
      <4>1. y \in Full
          BY NormalizeTyped DEF Inv, CallInv, y, Turned
      <4> QED BY <1>1, <2>1, <4>1 DEF Full, Coupling
    <3>3. SameAngle(Couple(d[i], c[m]), Couple(d[i], y[m]), mech.rev[i])
        BY <2>5, <3>1, <3>2, RevolutionsShared DEF Couple
    <3> QED BY <2>2, <2>3, <3>1, <3>3 DEF y
  <2> QED BY <2>1, <2>4, <2>5, TurnedActive DEF y
<1> QED BY <1>2, <1>3

\* Bounds that hold each joint the solver chooses hold every joint.
LEMMA WithinResolved ==
  ASSUME Inv, QueryInv, AskedInv, AskedExactly, running,
         NEW y \in Full, y = RebuildMimicEntries(mech.couplings, y),
         \A i \in DOMAIN mech.kinds : y[i] \in Position,
         \A i \in Active(mech.couplings) :
           types[i] # "Continuous" => Inside(y[i], resolved.q_min[i], resolved.q_max[i])
  PROVE  WithinAsked(mech, query, y)
<1> DEFINE d == mech.couplings
           lb == AskedBounds(mech, query)[1]
           ub == AskedBounds(mech, query)[2]
           lo == [i \in DOMAIN lb |-> AsBound(lb[i])]
           hi == [i \in DOMAIN ub |-> AsBound(ub[i])]
           t == Tighten(d, lb, ub)
           r == Reduce(d, y)
<1>1. /\ d \in Seq(Coupling) /\ Valid(d) /\ DOMAIN d = DOMAIN mech.kinds
      /\ mech.kinds \in Seq({"Rot", "Trans"})
      /\ mech.initialized /\ query \in Queries /\ WellFormed(mech, query)
      /\ resolved.q_min \in Full /\ resolved.q_max \in Full
    BY DEF Inv, MechInv, CallInv, AskedInv
<1>2. PICK g \in Mechanisms : mech = Initialize(g)
    BY DEF AskedInv
<1>3. /\ t.ok /\ lb \in Seq(Int) /\ ub \in Seq(Int)
      /\ resolved.q_min = t.lb /\ resolved.q_max = t.ub
  <2>1. CASE PerCallBounds(query)
    <3>1. lb = query.q_min /\ ub = query.q_max
        BY <2>1 DEF AskedBounds
    <3>2. query.q_min \in Seq(Int) /\ query.q_max \in Seq(Int)
        BY <1>1, QueriesAssumption DEF Askable
    <3>3. Resolve(mech, query) = Tighten(d, query.q_min, query.q_max) /\ Resolve(mech, query).ok
        BY <1>1, <2>1 DEF Resolve, WellFormed
    <3> QED BY <3>1, <3>2, <3>3 DEF QueryInv
  <2>2. CASE ~PerCallBounds(query)
    <3>1. lb = mech.own_lb /\ ub = mech.own_ub
        BY <2>2 DEF AskedBounds
    <3>2. /\ mech.own_lb = g.lb /\ mech.own_ub = g.ub
          /\ mech.lb = Tighten(d, g.lb, g.ub).lb /\ mech.ub = Tighten(d, g.lb, g.ub).ub
          /\ Tighten(d, g.lb, g.ub).ok
        BY <1>1, <1>2 DEF Initialize
    <3>3. g.lb \in Seq(Int) /\ g.ub \in Seq(Int)
        BY MechanismsAssumption DEF Constructible
    <3>4. Resolve(mech, query) = [ok |-> TRUE, lb |-> mech.lb, ub |-> mech.ub]
        BY <2>2 DEF Resolve
    <3> QED BY <3>1, <3>2, <3>3, <3>4 DEF QueryInv
  <2> QED BY <2>1, <2>2
<1>4. ExactBounds(d, lo, hi)
    BY <1>1, <1>2 DEF AskedExactly, AsksExactly
<1> HIDE DEF lb, ub
<1>5. Len(lb) = Len(d) /\ Len(ub) = Len(d) /\ DOMAIN lb = DOMAIN d /\ DOMAIN ub = DOMAIN d
  <2>1. Len(lb) = Len(d) /\ Len(ub) = Len(d)
      BY <1>3 DEF Tighten
  <2> QED BY <1>1, <1>3, <2>1
<1>6. y = Expand(d, r) /\ DOMAIN y = DOMAIN d
    BY <1>1 DEF RebuildMimicEntries, Full
<1>7. \A m \in Active(d) : r[m] = y[m] /\ m \in DOMAIN d
    BY DEF Reduce, Active
<1> HIDE DEF t, r, lo, hi
<1>8. HasPositions(d, r)
    BY <1>1, <1>6, <1>7 DEF HasPositions
<1>9. ASSUME NEW m \in Active(d)
      PROVE  Inside(r[m], AsBound(t.lb[m]), AsBound(t.ub[m]))
  <2>1. r[m] \in Position /\ t.lb[m] \in Int /\ t.ub[m] \in Int
      BY <1>1, <1>3, <1>7, <1>8 DEF HasPositions, Full
  <2>2. CASE types[m] # "Continuous"
    <3>1. Inside(r[m], t.lb[m], t.ub[m])
        BY <1>3, <1>7, <2>2
    <3> QED BY <2>1, <3>1, ReadExactly DEF Inside
  <2>3. CASE types[m] = "Continuous"
    <3>1. m \in DOMAIN mech.kinds /\ mech.kinds[m] \in {"Rot", "Trans"}
        BY <1>1, <1>7
    <3>2. t.ub[m] >= Sentinel /\ t.lb[m] <= -Sentinel
        BY <1>3, <2>3, <3>1 DEF QueryInv, Types
    <3>3. t.lb[m] <= r[m] /\ r[m] <= t.ub[m]
        BY <2>1, <3>2, BoundAssumption DEF Position
    <3> QED BY <2>1, <3>3, ReadExactly DEF Inside
  <2> QED BY <2>2, <2>3
<1>10. AllInside(d, lo, hi, r)
    BY <1>1, <1>3, <1>4, <1>5, <1>8, <1>9, TightenKeepsExactly DEF t, lo, hi
<1>11. ASSUME NEW i \in DOMAIN y PROVE lb[i] <= y[i] /\ y[i] <= ub[i]
  <2>1. Inside(y[i], AsBound(lb[i]), AsBound(ub[i]))
      BY <1>5, <1>6, <1>10, <1>11 DEF AllInside, lo, hi
  <2>2. y[i] \in Position /\ lb[i] \in Int /\ ub[i] \in Int
      BY <1>1, <1>3, <1>5, <1>6, <1>11
  <2> QED BY <2>1, <2>2, ReadExactly DEF Inside
<1> QED BY <1>11 DEF WithinAsked, lb, ub

\* What a thread makes of an inner solver's configuration answers the query.
LEMMA TurnedAnswers ==
  ASSUME PoseKept(Int), AskedExactly, TurnedInRange,
         Inv, QueryInv, AskedInv, running, NEW b \in Branches, NEW c \in InnerAnswers(b)
  PROVE  IsAnswer(mech, query, Turned(c))
<1> DEFINE d == mech.couplings
           y == Turned(c)
<1>1. /\ c \in Full /\ c = RebuildMimicEntries(d, c)
      /\ c \in Configurations(d) \cup {RebuildMimicEntries(d, seed)}
      /\ StartsInside(mech, query) =>
           \A i \in Active(d) : Inside(c[i], resolved.q_min[i], resolved.q_max[i])
      /\ Residual(query.goal, c) < solver.eps[b]
    BY FoundInside
<1>2. /\ MechInv /\ mech.initialized /\ Valid(d) /\ query \in Queries
      /\ query.epsilon \in Int /\ seed \in Full
      /\ resolved.q_min \in Full /\ resolved.q_max \in Full
    BY QueriesAssumption DEF Inv, MechInv, CallInv, Askable
<1>3. y \in Full
    BY <1>1, <1>2, NormalizeTyped DEF Turned
<1>4. y = RebuildMimicEntries(d, y)
  <2>1. PICK x : y = RebuildMimicEntries(d, x)
      BY DEF Turned, Normalize
  <2> QED BY <1>2, <2>1, ExpandTwice DEF RebuildMimicEntries
<1>5. PICK g \in Mechanisms : mech = Initialize(g)
    BY DEF AskedInv
<1>6. Residual(query.goal, y) < Abs(query.epsilon)
  <2> DEFINE coupled == {Expand(d, r) : r \in [Active(d) -> Int]}
  <2>1. \A i \in DOMAIN mech.kinds :
          y[i] = c[i] \/ (mech.kinds[i] = "Rot" /\ SameAngle(c[i], y[i], mech.rev[i]))
      BY <1>1, TurnedByRevolutions
  <2> HIDE DEF y
  <2>2. \A i \in DOMAIN mech.kinds :
          y[i] = c[i] \/ (mech.kinds[i] = "Rot" /\ (y[i] - c[i]) % mech.rev[i] = 0)
    <3> SUFFICES ASSUME NEW i \in DOMAIN mech.kinds, SameAngle(c[i], y[i], mech.rev[i])
                 PROVE  (y[i] - c[i]) % mech.rev[i] = 0
        BY <2>1
    <3>1. PICK k \in Int : y[i] = c[i] + mech.rev[i] * k
        BY DEF SameAngle
    <3>2. c[i] \in Int /\ mech.rev[i] \in Nat \ {0}
        BY <1>1, <1>2 DEF MechInv, Full
    <3>3. y[i] - c[i] = mech.rev[i] * k
        BY <3>1, <3>2
    <3> QED BY <3>2, <3>3, Multiples
  <2>3. c \in coupled /\ y \in coupled
    <3>1. \A x \in Full : Reduce(d, x) \in [Active(d) -> Int]
        BY <1>2 DEF Reduce, Active, MechInv, Full
    <3> QED BY <1>1, <1>3, <1>4, <3>1 DEF RebuildMimicEntries
  <2>4. Residual(query.goal, c) \in Int /\ Residual(query.goal, y) = Residual(query.goal, c)
    <3>1. WellFormed(mech, query)
        BY DEF AskedInv
    <3> QED BY <1>2, <1>5, <2>2, <2>3, <3>1 DEF PoseKept
  <2>5. solver.eps[b] \in Int /\ solver.eps[b] <= Abs(query.epsilon) /\ Abs(query.epsilon) \in Int
      BY <1>2 DEF AskedInv, Abs
  <2> QED BY <1>1, <2>4, <2>5
<1>7. \A i \in DOMAIN mech.kinds : y[i] \in Position
  <2>1. /\ types = Types(mech.kinds, resolved.q_min, resolved.q_max)
        /\ resolved.q_min = Resolve(mech, query).lb /\ resolved.q_max = Resolve(mech, query).ub
        /\ seed = StartOf(mech, query)
      BY DEF QueryInv, StartOf
  <2>2. WellFormed(mech, query)
      BY DEF AskedInv
  <2> QED BY <1>1, <1>2, <1>5, <2>1, <2>2 DEF TurnedInRange, Turned
<1>8. StartsInside(mech, query) =>
        \A i \in Active(d) :
          types[i] # "Continuous" => Inside(y[i], resolved.q_min[i], resolved.q_max[i])
    BY <1>1, TurnedActive
<1> HIDE DEF y
<1>9. StartsInside(mech, query) => WithinAsked(mech, query, y)
    BY <1>3, <1>4, <1>7, <1>8, WithinResolved
<1> QED BY <1>4, <1>6, <1>9 DEF IsAnswer, y

\* A call is taken for a mechanism that was constructed, and configures the
\* inner solvers for it.
LEMMA AskedInvStep ==
  ASSUME Inv, AskedInv, [Next]_vars
  PROVE  AskedInv'
<1>1. ASSUME UNCHANGED <<mech, solver, query, resolved, running>> PROVE AskedInv'
    BY <1>1 DEF AskedInv
<1>2. ASSUME NEW q \in Queries, Call(q) PROVE AskedInv'
  <2> DEFINE bounds == Resolve(mech, q)
  <2>1. /\ mech' = mech /\ query' = q /\ WellFormed(mech, q)
        /\ resolved' = [q_min |-> bounds.lb, q_max |-> bounds.ub]
        /\ solver' = Configured(solver, bounds.lb, bounds.ub, q.epsilon)
      BY <1>2 DEF Call
  <2>2. q.epsilon \in Int /\ Abs(q.epsilon) \in Int /\ q.epsilon <= Abs(q.epsilon)
      BY QueriesAssumption DEF Abs, Askable
  <2> HIDE DEF bounds
  <2>3. /\ solver' = [lb |-> bounds.lb, ub |-> bounds.ub, eps |-> solver'.eps]
        /\ \A b \in Branches : solver'.eps[b] \in {q.epsilon, Abs(q.epsilon)}
    <3>1. CASE SameBounds(solver.lb, bounds.lb) /\ SameBounds(solver.ub, bounds.ub)
      <4>1. /\ solver' = [solver EXCEPT !.eps = [b \in Branches |-> Abs(q.epsilon)]]
            /\ solver.lb = bounds.lb /\ solver.ub = bounds.ub
          BY <2>1, <3>1 DEF Configured, SameBounds
      <4>2. solver = [lb |-> solver.lb, ub |-> solver.ub, eps |-> solver.eps]
          BY DEF AskedInv
      <4> QED BY <4>1, <4>2
    <3>2. CASE ~(SameBounds(solver.lb, bounds.lb) /\ SameBounds(solver.ub, bounds.ub))
        BY <2>1, <3>2 DEF Configured, Built, Branches
    <3> QED BY <3>1, <3>2
  <2>4. /\ solver'.lb = resolved'.q_min /\ solver'.ub = resolved'.q_max
        /\ solver' = [lb |-> solver'.lb, ub |-> solver'.ub, eps |-> solver'.eps]
      BY <2>1, <2>3
  <2>5. \A b \in Branches : solver'.eps[b] \in Int /\ solver'.eps[b] <= Abs(q.epsilon)
      BY <2>2, <2>3
  <2> QED BY <2>1, <2>4, <2>5 DEF AskedInv
<1>3. ASSUME NEW q \in Queries, Refuse(q) PROVE AskedInv'
    BY <1>1, <1>3 DEF Refuse, solverVars
<1>4. ASSUME NEW b \in Branches, Run(b) PROVE AskedInv'
  <2>1. UNCHANGED <<mech, solver, query, resolved, running>>
      BY <1>4 DEF Run, CheckTime, EnterSolver, Find, GiveUp, Acquire, TestUnique, Push, Rank,
                  Peek, Leave, solverVars, callVars
  <2> QED BY <1>1, <2>1
<1>5. CASE Tick
    BY <1>1, <1>5 DEF Tick, solverVars, callVars
<1>6. CASE Return
    BY <1>6 DEF Return, solverVars, AskedInv
<1>7. CASE UNCHANGED vars
    BY <1>1, <1>7 DEF vars, solverVars, callVars
<1> QED BY <1>2, <1>3, <1>4, <1>5, <1>6, <1>7 DEF Next

\* Find gives a thread an answer, and Push lists the one its thread has.
LEMMA AnswersInvStep ==
  ASSUME PoseKept(Int), AskedExactly, TurnedInRange,
         Inv, QueryInv, AskedInv, AnswersInv, [Next]_vars
  PROVE  AnswersInv'
<1>1. ASSUME UNCHANGED <<mech, query, running, solutions>>,
             running => \A b \in Branches :
               pc'[b] \in Carrying => pc[b] \in Carrying /\ found'[b] = found[b]
      PROVE  AnswersInv'
    BY <1>1 DEF AnswersInv, CandidatesAnswer
<1>2. ASSUME NEW q \in Queries, Call(q) PROVE AnswersInv'
  <2>1. \A b \in Branches : pc'[b] \notin Carrying
      BY <1>2 DEF Call, Carrying, Holding
  <2>2. solutions' = <<>>
      BY <1>2 DEF Call
  <2> QED BY <2>1, <2>2 DEF AnswersInv, CandidatesAnswer
<1>3. ASSUME NEW q \in Queries, Refuse(q) PROVE AnswersInv'
    BY <1>3 DEF Refuse, AnswersInv, CandidatesAnswer
<1>4. ASSUME NEW b \in Branches, Run(b), ~Find(b), ~Push(b) PROVE AnswersInv'
  <2>1. UNCHANGED <<mech, query, running, solutions>>
      BY <1>4 DEF Run, CheckTime, EnterSolver, GiveUp, Acquire, TestUnique, Rank, Peek,
                  Leave, solverVars, callVars, listVars
  <2>2. PICK label \in Labels : pc' = [pc EXCEPT ![b] = label]
                                /\ (label \in Carrying => pc[b] \in Carrying /\ found' = found)
      BY <1>4 DEF Run, CheckTime, EnterSolver, GiveUp, Acquire, TestUnique, Rank, Peek,
                  Leave, Goto, Labels, Carrying, Holding
  <2>3. \A o \in Branches \ {b} : found'[o] = found[o]
      BY <1>4 DEF Run, CheckTime, EnterSolver, GiveUp, Acquire, TestUnique, Rank, Peek,
                  Leave, Inv, ScalarInv
  <2>4. \A o \in Branches : pc'[o] \in Carrying => pc[o] \in Carrying /\ found'[o] = found[o]
      BY <2>2, <2>3 DEF Inv, ScalarInv
  <2> QED BY <1>1, <2>1, <2>4
<1>5. ASSUME NEW b \in Branches, Find(b) PROVE AnswersInv'
  <2>1. /\ UNCHANGED <<mech, query, running, solutions>> /\ pc' = [pc EXCEPT ![b] = "locking"]
      BY <1>5 DEF Find, Goto, solverVars, callVars, listVars
  <2>2. PICK c \in InnerAnswers(b) : found' = [found EXCEPT ![b] = Turned(c)]
      BY <1>5 DEF Find, Turned
  <2>3. running => IsAnswer(mech, query, Turned(c))
      BY TurnedAnswers
  <2>4. /\ found'[b] = Turned(c)
        /\ \A o \in Branches \ {b} : found'[o] = found[o] /\ pc'[o] = pc[o]
      BY <2>1, <2>2 DEF Inv, ScalarInv
  <2> HIDE DEF Turned
  <2>5. ASSUME running, NEW o \in Branches, pc'[o] \in Carrying
        PROVE  IsAnswer(mech, query, found'[o])
    <3>1. CASE o = b
        BY <2>3, <2>4, <2>5, <3>1
    <3>2. CASE o # b
        BY <2>4, <2>5, <3>2 DEF AnswersInv
    <3> QED BY <3>1, <3>2
  <2> QED BY <2>1, <2>5 DEF AnswersInv, CandidatesAnswer
<1>6. ASSUME NEW b \in Branches, Push(b) PROVE AnswersInv'
  <2>1. /\ UNCHANGED <<mech, query, running, found>> /\ pc[b] = "pushing"
        /\ pc' = [pc EXCEPT ![b] = "ranking"] /\ solutions' = Append(solutions, found[b])
      BY <1>6 DEF Push, Goto, solverVars, callVars
  <2>2. \A o \in Branches : pc'[o] \in Carrying => pc[o] \in Carrying
      BY <2>1 DEF Inv, ScalarInv, Carrying, Holding
  <2>3. ASSUME running, NEW i \in DOMAIN solutions'
        PROVE  IsAnswer(mech, query, solutions'[i])
    <3>1. solutions \in Seq(Full)
        BY DEF Inv, ListInv
    <3>2. CASE i \in DOMAIN solutions
      <4>1. solutions'[i] = solutions[i]
          BY <2>1, <3>1, <3>2
      <4> QED BY <2>3, <3>2, <4>1 DEF AnswersInv, CandidatesAnswer
    <3>3. CASE i \notin DOMAIN solutions
      <4>1. solutions'[i] = found[b]
          BY <2>1, <2>3, <3>1, <3>3
      <4>2. pc[b] \in Carrying
          BY <2>1 DEF Carrying, Holding
      <4> QED BY <2>3, <4>1, <4>2 DEF AnswersInv
    <3> QED BY <3>2, <3>3
  <2> QED BY <2>1, <2>2, <2>3 DEF AnswersInv, CandidatesAnswer
<1>7. CASE Tick
    BY <1>1, <1>7 DEF Tick, solverVars, callVars, listVars
<1>8. CASE Return
    BY <1>8 DEF Return, AnswersInv, CandidatesAnswer
<1>9. CASE UNCHANGED vars
    BY <1>1, <1>9 DEF vars, solverVars, callVars, listVars
<1> QED BY <1>2, <1>3, <1>4, <1>5, <1>6, <1>7, <1>8, <1>9 DEF Next

\* Every candidate answers the query, wherever the conditions hold: it reaches
\* the goal after it was turned as well as before, and is in the bounds asked
\* for, mimic joints included, if the search started there.
THEOREM AllAnswer ==
  ASSUME PoseKept(Int), AskedExactly, TurnedInRange
  PROVE  Spec => []CandidatesAnswer
<1> DEFINE Known == QueryInv /\ AskedInv /\ AnswersInv
<1>1. Init => Known
  <2>1. Init => AskedInv
      BY DEF Init, AskedInv, Built
  <2> QED BY <2>1 DEF Init, QueryInv, AnswersInv, CandidatesAnswer
<1>2. Inv /\ Known /\ [Next]_vars => Known'
    BY QueryInvStep, AskedInvStep, AnswersInvStep
<1>3. Known => CandidatesAnswer
    BY DEF AnswersInv
<1> QED BY <1>1, <1>2, <1>3, InvInvariant, PTL DEF Spec

-----------------------------------------------------------------------------
(* What the inner solvers are given, and what is taken of them.            *)

\* Only threads that were started run.
StartedInv ==
  running => \A b \in Branches : pc[b] # "joined" => b \in Started(mech.couplings)

\* Only a call starts them.
LEMMA StartedInvStep ==
  ASSUME Inv, StartedInv, [Next]_vars
  PROVE  StartedInv'
<1>1. ASSUME NEW q \in Queries, Call(q) PROVE StartedInv'
    BY <1>1 DEF Call, StartedInv
<1>2. ASSUME NEW q \in Queries, Refuse(q) PROVE StartedInv'
    BY <1>2 DEF Refuse, StartedInv, solverVars
<1>3. ASSUME NEW b \in Branches, Run(b) PROVE StartedInv'
  <2>1. UNCHANGED <<mech, running>> /\ pc[b] # "joined"
      BY <1>3 DEF Run, CheckTime, EnterSolver, Find, GiveUp, Acquire, TestUnique, Push, Rank,
                  Peek, Leave, solverVars, callVars
  <2>2. \E label : pc' = [pc EXCEPT ![b] = label]
      BY <1>3 DEF Run, CheckTime, EnterSolver, Find, GiveUp, Acquire, TestUnique, Push, Rank,
                  Peek, Leave, Goto
  <2> QED BY <2>1, <2>2 DEF StartedInv, Inv, ScalarInv
<1>4. CASE Tick
    BY <1>4 DEF Tick, StartedInv, solverVars, callVars
<1>5. CASE Return
    BY <1>5 DEF Return, StartedInv
<1>6. CASE UNCHANGED vars
    BY <1>6 DEF vars, solverVars, callVars, StartedInv
<1> QED BY <1>1, <1>2, <1>3, <1>4, <1>5, <1>6 DEF Next

\* The bounds of a call leave every joint something.
LEMMA ResolvedOrdered ==
  ASSUME Inv, QueryInv, AskedInv, running, NEW i \in DOMAIN mech.kinds
  PROVE  resolved.q_min[i] <= resolved.q_max[i]
<1> DEFINE d == mech.couplings
<1>1. /\ d \in Seq(Coupling) /\ i \in DOMAIN d /\ mech.initialized
      /\ query \in Queries /\ WellFormed(mech, query)
      /\ resolved.q_min = Resolve(mech, query).lb /\ resolved.q_max = Resolve(mech, query).ub
    BY DEF Inv, MechInv, CallInv, QueryInv, AskedInv
<1>2. CASE PerCallBounds(query)
  <2>1. query.q_min \in Seq(Int) /\ query.q_max \in Seq(Int)
      BY <1>1, QueriesAssumption DEF Askable
  <2>2. Resolve(mech, query) = Tighten(d, query.q_min, query.q_max) /\ Resolve(mech, query).ok
      BY <1>1, <1>2 DEF Resolve, WellFormed
  <2> QED BY <1>1, <2>1, <2>2, TightenOrdered
<1>3. CASE ~PerCallBounds(query)
  <2>1. PICK g \in Mechanisms : mech = Initialize(g)
      BY DEF AskedInv
  <2>2. /\ mech.lb = Tighten(d, g.lb, g.ub).lb /\ mech.ub = Tighten(d, g.lb, g.ub).ub
        /\ Tighten(d, g.lb, g.ub).ok
      BY <1>1, <2>1 DEF Initialize
  <2>3. g.lb \in Seq(Int) /\ g.ub \in Seq(Int)
      BY MechanismsAssumption DEF Constructible
  <2>4. Resolve(mech, query) = [ok |-> TRUE, lb |-> mech.lb, ub |-> mech.ub]
      BY <1>3 DEF Resolve
  <2> QED BY <1>1, <2>2, <2>3, <2>4, TightenOrdered
<1> QED BY <1>2, <1>3

\* The operators InnerSolve brings are the ones of Mechanism.
LEMMA SameAsInner ==
  ASSUME NEW b
  PROVE  /\ \A d : InnerSolver(b)!Active(d) = Active(d)
         /\ \A d, full : InnerSolver(b)!RebuildMimicEntries(d, full) = RebuildMimicEntries(d, full)
         /\ \A kinds, lb, ub : InnerSolver(b)!Types(kinds, lb, ub) = Types(kinds, lb, ub)
BY DEF InnerSolver!Active, Active, InnerSolver!IsMimic, IsMimic, InnerSolver!Own, Own,
       InnerSolver!RebuildMimicEntries, RebuildMimicEntries, InnerSolver!Expand, Expand,
       InnerSolver!Reduce, Reduce, InnerSolver!Couple, Couple, InnerSolver!Types, Types

\* A solver in use is given what it needs, bounds as they are in force.
LEMMA SolverSearchable ==
  ASSUME Inv, QueryInv, AskedInv, running, NEW b \in Branches
  PROVE  Searchable(InnerProblem(b))
<1> DEFINE p == InnerProblem(b)
<1>1. /\ mech.kinds \in Seq({"Rot", "Trans"}) /\ mech.rev \in [DOMAIN mech.kinds -> Nat \ {0}]
      /\ mech.couplings \in Seq(Coupling) /\ Valid(mech.couplings)
      /\ DOMAIN mech.couplings = DOMAIN mech.kinds
    BY DEF Inv, MechInv, CallInv
<1>2. /\ p.kinds = mech.kinds /\ p.rev = mech.rev /\ p.couplings = mech.couplings
      /\ p.lb = resolved.q_min /\ p.ub = resolved.q_max
    BY DEF InnerProblem, AskedInv
<1>3. resolved.q_min \in [DOMAIN mech.kinds -> Int] /\ resolved.q_max \in [DOMAIN mech.kinds -> Int]
    BY DEF Inv, CallInv, Full
<1>4. \A i \in DOMAIN mech.kinds : resolved.q_min[i] <= resolved.q_max[i]
    BY ResolvedOrdered
<1> HIDE DEF p
<1> QED BY <1>1, <1>2, <1>3, <1>4 DEF Searchable, p

\* Limits an inner solver was built with hold of what is inside them.
LEMMA WithinInnerLimits ==
  ASSUME Positions \subseteq Position,
         Inv, QueryInv, AskedInv, running, NEW b \in Branches,
         NEW c \in Configurations(mech.couplings),
         \A i \in Active(mech.couplings) : types[i] # "Continuous" =>
           resolved.q_min[i] <= c[i] /\ c[i] <= resolved.q_max[i]
  PROVE  WithinSolver(c)
<1> DEFINE d == mech.couplings
<1>1. /\ mech.kinds \in Seq({"Rot", "Trans"}) /\ DOMAIN d = DOMAIN mech.kinds
      /\ resolved.q_min \in Full /\ resolved.q_max \in Full
      /\ types = Types(mech.kinds, resolved.q_min, resolved.q_max)
      /\ solver.lb = resolved.q_min /\ solver.ub = resolved.q_max
    BY DEF Inv, MechInv, CallInv, QueryInv, AskedInv
<1>2. PICK r \in [Active(d) -> Positions] : c = Expand(d, r)
    BY DEF Configurations
<1>3. SUFFICES ASSUME NEW i \in Active(d)
               PROVE  resolved.q_min[i] <= c[i] /\ c[i] <= resolved.q_max[i]
    BY <1>1 DEF WithinSolver
<1>4. CASE types[i] # "Continuous"
    BY <1>4
<1>5. CASE types[i] = "Continuous"
  <2>1. i \in DOMAIN mech.kinds /\ mech.kinds[i] \in {"Rot", "Trans"}
      BY <1>1 DEF Active
  <2>2. resolved.q_max[i] >= Sentinel /\ resolved.q_min[i] <= -Sentinel
      BY <1>1, <1>5, <2>1 DEF Types
  <2>3. c[i] = r[i] /\ r[i] \in Position
      BY <1>1, <1>2, <2>1 DEF Expand, Active
  <2>4. resolved.q_max[i] \in Int /\ resolved.q_min[i] \in Int
      BY <1>1, <2>1 DEF Full
  <2> QED BY <2>2, <2>3, <2>4, BoundAssumption DEF Position
<1> QED BY <1>4, <1>5

\* What the contract of an inner solver leaves it to answer is in what Find
\* takes it to answer.
LEMMA InnerAnswersCover ==
  ASSUME Positions \subseteq Position,
         Inv, QueryInv, AskedInv, running, NEW b \in Branches,
         NEW c \in Configurations(mech.couplings), NEW s \in SolveSeeds(b),
         c \in InnerSolver(b)!Answers(InnerProblem(b), s)
  PROVE  c \in InnerAnswers(b)
<1> DEFINE d == mech.couplings
           p == InnerProblem(b)
<1>1. /\ p.kinds = mech.kinds /\ p.couplings = d /\ p.goal = query.goal
      /\ p.lb = resolved.q_min /\ p.ub = resolved.q_max /\ p.eps = solver.eps[b]
    BY DEF InnerProblem, AskedInv
<1>2. /\ Residual(p.goal, c) < p.eps
      /\ \/ InnerSolver(b)!WithinLimits(p, 0, c)
         \/ b = "KDL" /\ c = InnerSolver(b)!RebuildMimicEntries(p.couplings, s)
    BY DEF InnerSolver!Answers
<1> HIDE DEF p
<1>3. Residual(query.goal, c) < solver.eps[b]
    BY <1>1, <1>2
<1>4. CASE InnerSolver(b)!WithinLimits(p, 0, c)
  <2>1. \A i \in Active(d) : types[i] # "Continuous" =>
          resolved.q_min[i] <= c[i] /\ c[i] <= resolved.q_max[i] + 0
    <3>1. InnerSolver(b)!Limited(p) = {i \in Active(d) : types[i] # "Continuous"}
        BY <1>1, SameAsInner DEF InnerSolver!Limited, InnerSolver!Kinds, QueryInv
    <3> QED BY <1>1, <1>4, <3>1 DEF InnerSolver!WithinLimits
  <2>2. \A i \in Active(d) : resolved.q_max[i] + 0 = resolved.q_max[i]
    <3>1. Active(d) \subseteq DOMAIN mech.kinds /\ resolved.q_max \in [DOMAIN mech.kinds -> Int]
        BY DEF Inv, MechInv, CallInv, Full, Active
    <3> QED BY <3>1
  <2>3. WithinSolver(c)
      BY <2>1, <2>2, WithinInnerLimits
  <2> QED BY <1>3, <2>3 DEF InnerAnswers
<1>5. CASE b = "KDL" /\ c = InnerSolver(b)!RebuildMimicEntries(p.couplings, s)
  <2>1. c = RebuildMimicEntries(d, s)
      BY <1>1, <1>5, SameAsInner
  <2>2. CASE fresh[b]
    <3>1. s = seed
        BY <2>2 DEF SolveSeeds
    <3> QED BY <1>3, <1>5, <2>1, <2>2, <3>1 DEF InnerAnswers
  <2>3. CASE ~fresh[b]
    <3>1. \A i \in Active(d) : types[i] # "Continuous" =>
            resolved.q_min[i] <= s[i] /\ s[i] <= resolved.q_max[i]
        BY <2>3 DEF SolveSeeds
    <3>2. \A i \in Active(d) : c[i] = s[i]
        BY <2>1 DEF RebuildMimicEntries, Expand, Reduce, Active
    <3>3. WithinSolver(c)
        BY <3>1, <3>2, WithinInnerLimits
    <3> QED BY <1>3, <3>3 DEF InnerAnswers
  <2> QED BY <2>2, <2>3
<1> QED BY <1>2, <1>4, <1>5

\* A chain of the racer has finitely many joints a solver chooses.
LEMMA ActiveCounted ==
  ASSUME MechInv, mech.initialized
  PROVE  Cardinality(Active(mech.couplings)) \in Nat
<1>1. mech.couplings \in Seq(Coupling)
    BY DEF MechInv
<1>2. IsFiniteSet(DOMAIN mech.couplings)
    BY <1>1, FS_Interval
<1>3. Active(mech.couplings) \subseteq DOMAIN mech.couplings
    BY DEF Active
<1> QED BY <1>2, <1>3, FS_Subset, FS_CardinalityType

\* What the racer asks of its inner solvers is what the two branches are
\* proved to be asked of, and what it takes of them no less than what they are
\* proved to answer, in every call and whatever was cached before it.
THEOREM InnerSolversGiven ==
  ASSUME Positions \subseteq Position
  PROVE  Spec => []InnerSolversAsAssumed
<1> DEFINE Known == QueryInv /\ AskedInv /\ StartedInv
<1>1. Init => Known
  <2>1. Init => AskedInv
      BY DEF Init, AskedInv, Built
  <2> QED BY <2>1 DEF Init, QueryInv, StartedInv
<1>2. Inv /\ Known /\ [Next]_vars => Known'
    BY QueryInvStep, AskedInvStep, StartedInvStep
<1>3. Inv /\ Known => InnerSolversAsAssumed
  <2> SUFFICES ASSUME Inv, Known, NEW b \in Branches, pc[b] = "entering"
               PROVE  /\ Searchable(InnerProblem(b))
                      /\ FewestJoints(b) <= Cardinality(Active(mech.couplings))
                      /\ \A c \in Configurations(mech.couplings), s \in SolveSeeds(b) :
                           c \in InnerSolver(b)!Answers(InnerProblem(b), s) => c \in InnerAnswers(b)
      BY DEF InnerSolversAsAssumed
  <2>1. running
      BY DEF Inv, ScalarInv, LockInv
  <2>2. b \in Started(mech.couplings)
      BY <2>1 DEF StartedInv
  <2>3. Cardinality(Active(mech.couplings)) \in Nat
      BY <2>1, ActiveCounted DEF Inv, CallInv
  <2>4. FewestJoints(b) <= Cardinality(Active(mech.couplings))
      BY <2>2, <2>3 DEF FewestJoints, Started
  <2>5. Searchable(InnerProblem(b))
      BY <2>1, SolverSearchable
  <2>6. \A c \in Configurations(mech.couplings), s \in SolveSeeds(b) :
          c \in InnerSolver(b)!Answers(InnerProblem(b), s) => c \in InnerAnswers(b)
      BY <2>1, InnerAnswersCover
  <2> QED BY <2>4, <2>5, <2>6
<1> QED BY <1>1, <1>2, <1>3, InvInvariant, PTL DEF Spec

-----------------------------------------------------------------------------
(* Every step is one of IkQuery's, or is not seen.                         *)

\* A solver that was just constructed promises nothing yet.
LEMMA PromiseInit == ASSUME Init PROVE Promise!Init
BY DEF Init, Promise!Init, Refused, Promise!Refused

\* A call asks, with an empty list and all of its time.
LEMMA CallKeepsPromise ==
  ASSUME NEW q \in Queries, Call(q)
  PROVE  Promise!Ask(q)
<1>1. /\ ~running /\ running' = TRUE /\ WellFormed(mech, q) /\ query' = q
      /\ left' = q.timeout /\ answer' = Pending /\ mech' = mech
    BY DEF Call
<1>2. q.timeout \in Nat
    BY QueriesAssumption DEF Askable
<1>3. Range(solutions)' = {}
    BY DEF Call, Range
<1> QED BY <1>1, <1>2, <1>3 DEF Promise!Ask, Pending, Promise!Pending

\* A refused call is a refused question.
LEMMA RefuseKeepsPromise ==
  ASSUME NEW q \in Queries, Refuse(q)
  PROVE  Promise!Refuse(q)
BY DEF Refuse, Promise!Refuse, Refused, Promise!Refused, solverVars, listVars, timeVars

\* A push collects a new answer to the query, of which Speed takes few.
LEMMA PushKeepsPromise ==
  ASSUME Inv, UniqueInv, SpeedInv, CandidatesAnswer', NEW b \in Branches, Push(b)
  PROVE  Promise!Collect(found[b]) /\ found[b] \in Range(solutions)'
<1>1. /\ solutions' = Append(solutions, found[b]) /\ pc[b] = "pushing"
      /\ UNCHANGED <<mech, query, running, left, answer>>
    BY DEF Push, solverVars, callVars, timeVars
<1>2. /\ running /\ solutions \in Seq(Full) /\ found[b] \in Full
      /\ Len(solutions) \in Nat /\ DOMAIN solutions = 1..Len(solutions)
      /\ \A i \in DOMAIN solutions : solutions[i] \in Full
    BY <1>1, RunsInCall DEF Run, Inv, ListInv, FoundInv, Carrying, Holding
<1>3. /\ DOMAIN solutions' = DOMAIN solutions \cup {Len(solutions) + 1}
      /\ solutions'[Len(solutions) + 1] = found[b]
      /\ \A i \in DOMAIN solutions : solutions'[i] = solutions[i]
    BY <1>1, <1>2
<1>4. Range(solutions)' = Range(solutions) \cup {found[b]}
    BY <1>2, <1>3 DEF Range
<1>5. found[b] \notin Range(solutions)
    BY <1>1, <1>2, SameReflexive DEF UniqueInv, UniqueSolution, Range
<1>6. IsAnswer(mech, query, found[b])
    BY <1>1, <1>2, <1>3 DEF CandidatesAnswer
<1>7. query.solve_type = "Speed" =>
        Promise!Cardinality(Range(solutions)) < Cardinality(Branches)
  <2>1. query.solve_type = "Speed" => Len(solutions) <= 1
      BY <1>1, <1>2 DEF SpeedInv, Searching
  <2>2. Promise!Cardinality(Range(solutions)) = Len(solutions)
      BY PromiseCardinality, CandidatesCounted DEF UniqueInv
  <2> QED BY <1>2, <2>1, <2>2, TwoBranches
<1> QED BY <1>1, <1>2, <1>4, <1>5, <1>6, <1>7 DEF Promise!Collect

\* The steps of a thread other than Push are not seen.
LEMMA RunKeepsPromise ==
  ASSUME Inv, NEW b \in Branches, Run(b), ~Push(b)
  PROVE  UNCHANGED Promise!vars
<1>1. UNCHANGED <<mech, query, running, left, answer, solutions>>
    BY DEF Run, CheckTime, EnterSolver, Find, GiveUp, Acquire, TestUnique, Rank, Peek, Leave,
           solverVars, callVars, listVars, timeVars
<1> QED BY <1>1 DEF Promise!vars, Range

\* Time that runs out is seen, other time is not.
LEMMA TickKeepsPromise ==
  ASSUME Inv, Tick
  PROVE  Promise!Expire \/ UNCHANGED Promise!vars
<1>1. /\ running /\ UNCHANGED <<mech, query, running, answer, solutions>>
      /\ left' = IF left > 0 THEN left - 1 ELSE 0
    BY DEF Tick, solverVars, callVars, listVars
<1>2. left \in Nat
    BY DEF Inv, ScalarInv
<1>3. CASE left = 1
    BY <1>1, <1>3 DEF Promise!Expire, Range
<1>4. CASE left # 1
    BY <1>1, <1>2, <1>4 DEF Promise!vars, Range
<1> QED BY <1>3, <1>4

\* Inside the bounds the penalty is positive for whatever is off both ends of each.
LEMMA InsidePenalty ==
  ASSUME NEW D, NEW t, NEW c \in [D -> Int], NEW lb \in [D -> Int], NEW ub \in [D -> Int],
         \A i \in D : t[i] # "Continuous" => lb[i] <= c[i] /\ c[i] <= ub[i]
  PROVE  PenaltyPositive(t, c, lb, ub)
           <=> \A i \in D : t[i] # "Continuous" => lb[i] < c[i] /\ c[i] < ub[i]
<1> DEFINE room(i) == (c[i] - lb[i]) * (ub[i] - c[i])
           limited == {i \in D : t[i] # "Continuous"}
<1>1. \A a, b \in Nat : a * b >= 0 /\ (a * b # 0 <=> a > 0 /\ b > 0)
    OBVIOUS
<1>2. ASSUME NEW i \in limited
      PROVE  room(i) >= 0 /\ (room(i) # 0 <=> lb[i] < c[i] /\ c[i] < ub[i])
  <2>1. c[i] - lb[i] \in Nat /\ ub[i] - c[i] \in Nat
      OBVIOUS
  <2>2. room(i) >= 0 /\ (room(i) # 0 <=> c[i] - lb[i] > 0 /\ ub[i] - c[i] > 0)
      BY <1>1, <2>1
  <2> QED BY <2>2
<1>3. {i \in limited : room(i) < 0} = {}
  <2>1. \A i \in limited : room(i) \in Int
      OBVIOUS
  <2> QED BY <1>2, <2>1
<1>4. PenaltyPositive(t, c, lb, ub) <=> /\ \A i \in limited : room(i) # 0
                                        /\ Cardinality({i \in limited : room(i) < 0}) % 2 = 0
    BY DEF PenaltyPositive
<1> HIDE DEF room
<1>5. Cardinality({i \in limited : room(i) < 0}) % 2 = 0
    BY <1>3, FS_EmptySet
<1> QED BY <1>2, <1>4, <1>5

\* The key the racer ranks by is, for a candidate inside the bounds, its score.
LEMMA ScoreIsKey ==
  ASSUME Inv, QueryInv, running, NEW c \in Full, WithinLimits(mech, Resolve(mech, query), c)
  PROVE  ManipScore(c) = Score(mech, query, c)
<1> DEFINE b == Resolve(mech, query)
<1>1. PICK D, t, lo, hi :
        /\ D = DOMAIN mech.kinds /\ t = types /\ lo = resolved.q_min /\ hi = resolved.q_max
    OBVIOUS
<1>2. lo = b.lb /\ hi = b.ub /\ t = Types(mech.kinds, b.lb, b.ub)
    BY <1>1 DEF QueryInv
<1>3. lo \in [D -> Int] /\ hi \in [D -> Int] /\ c \in [D -> Int]
    BY <1>1 DEF Inv, CallInv, Full
<1> HIDE DEF b
<1>4. Limited(mech, b) = {i \in D : t[i] # "Continuous"}
    BY <1>1, <1>2 DEF Limited
<1>5. \A i \in D : t[i] # "Continuous" => lo[i] <= c[i] /\ c[i] <= hi[i]
    BY <1>2, <1>4 DEF WithinLimits, b
<1>6. PenaltyPositive(t, c, lo, hi)
        <=> \A i \in D : t[i] # "Continuous" => lo[i] < c[i] /\ c[i] < hi[i]
    BY <1>3, <1>5, InsidePenalty
<1>7. PenaltyPositive(t, c, lo, hi)
        <=> \A i \in Limited(mech, b) : b.lb[i] < c[i] /\ c[i] < b.ub[i]
    BY <1>2, <1>4, <1>6
<1> QED BY <1>1, <1>2, <1>7 DEF ManipScore, Score, b

\* The candidate at the head of the ranking is at least as good as the others.
LEMMA HeadIsBest ==
  ASSUME Inv, RankInv, QueryInv, running, \A b \in Branches : pc[b] = "joined",
         NEW i \in DOMAIN solutions, NEW j \in DOMAIN solutions, Before(errors[i], errors[j])
  PROVE  AtLeastAsGood(mech, query, solutions[i], solutions[j])
<1>1. errors[i] = <<Key(solutions[i]), i>> /\ errors[j] = <<Key(solutions[j]), j>>
    BY RankedWhenJoined
<1>2. CASE query.solve_type \in Manip
  <2>1. Key(solutions[j]) <= Key(solutions[i])
      BY <1>1, <1>2 DEF Before, Precedes
  <2>2. ManipScore(solutions[i]) >= ManipScore(solutions[j])
      BY <1>2, <2>1 DEF Key
  <2>3. solutions[i] \in Full /\ solutions[j] \in Full
      BY DEF Inv, ListInv
  <2> QED BY <1>2, <2>2, <2>3, ScoreIsKey DEF AtLeastAsGood
<1>3. CASE query.solve_type \notin Manip
  <2>1. Key(solutions[i]) <= Key(solutions[j])
      BY <1>1, <1>3 DEF Before, Precedes
  <2>2. JointErr(mech.couplings, seed, solutions[i]) <= JointErr(mech.couplings, seed, solutions[j])
      BY <1>3, <2>1 DEF Key
  <2> QED BY <1>3, <2>2 DEF AtLeastAsGood, StartOf, QueryInv
<1> QED BY <1>2, <1>3

\* A call that returns answers, with the best of its candidates if it has any.
LEMMA ReturnKeepsPromise ==
  ASSUME Inv, RankInv, UniqueInv, QueryInv, JoinInv, Return
  PROVE  Promise!Answer
<1>1. /\ running /\ running' = FALSE /\ (\A b \in Branches : pc[b] = "joined")
      /\ UNCHANGED <<mech, query>>
    BY DEF Return, solverVars
<1>2. PICK sorted \in Rankings(errors) :
        answer' = IF solutions = <<>> THEN [rc |-> -3, q_out |-> query.seed]
                  ELSE [rc |-> Len(solutions), q_out |-> solutions[sorted[1][2]]]
    BY DEF Return
<1>3. left = 0 \/ (query.solve_type = "Speed" /\ Range(solutions) # {})
  <2>1. left = 0 \/ (query.solve_type = "Speed" /\ solutions # <<>>)
      BY <1>1 DEF JoinInv, Branches
  <2>2. solutions # <<>> => solutions[1] \in Range(solutions)
      BY DEF Inv, ListInv, Range
  <2> QED BY <2>1, <2>2
<1>4. CASE solutions = <<>>
  <2>1. Range(solutions) = {}
      BY <1>4 DEF Range
  <2> QED BY <1>1, <1>2, <1>3, <1>4, <2>1 DEF Promise!Answer
<1>5. CASE solutions # <<>>
  <2>1. DOMAIN errors = DOMAIN solutions /\ DOMAIN solutions # {} /\ Indexed(errors)
    <3>1. 1 \in DOMAIN solutions
        BY <1>5 DEF Inv, ListInv
    <3> QED BY <1>1, <3>1, RankedWhenJoined
  <2>2. PICK i \in DOMAIN solutions :
          /\ sorted[1] = errors[i]
          /\ \A j \in DOMAIN solutions \ {i} : Before(errors[i], errors[j])
      BY <2>1, HeadIsFirst
  <2>3. answer' = [rc |-> Promise!Cardinality(Range(solutions)), q_out |-> solutions[i]]
    <3>1. sorted[1][2] = i
        BY <2>1, <2>2 DEF Indexed
    <3>2. Promise!Cardinality(Range(solutions)) = Len(solutions)
        BY PromiseCardinality, CandidatesCounted DEF UniqueInv
    <3> QED BY <1>2, <1>5, <3>1, <3>2
  <2>4. ASSUME NEW other \in Range(solutions) \ {solutions[i]}
        PROVE  AtLeastAsGood(mech, query, solutions[i], other)
    <3>1. PICK j \in DOMAIN solutions : other = solutions[j]
        BY DEF Range
    <3> QED BY <1>1, <2>2, <2>4, <3>1, HeadIsBest
  <2>5. solutions[i] \in Range(solutions)
      BY DEF Range
  <2> QED BY <1>1, <1>3, <2>3, <2>4, <2>5 DEF Promise!Answer
<1> QED BY <1>4, <1>5

\* Whatever was asked before, a call is answered as IkQuery says, as long as
\* its candidates answer the query.
THEOREM IsQuery == Spec /\ []CandidatesAnswer => KeepsPromise
<1> DEFINE Known == RankInv /\ UniqueInv /\ SpeedInv /\ AbortInv /\ QueryInv /\ JoinInv
<1>1. Init => Promise!Init /\ Known
  <2>1. Init => CandidatesDistinct /\ UniqueInv
      BY DEF Init, UniqueInv, CandidatesDistinct
  <2> QED BY <2>1, PromiseInit DEF Init, RankInv, SpeedInv, AbortInv, QueryInv, JoinInv
<1>2. Inv /\ Known /\ [Next]_vars => Known'
    BY RankInvStep, UniqueInvStep, SpeedInvStep, AbortInvStep, QueryInvStep, JoinInvStep
<1>3. Inv /\ Known /\ CandidatesAnswer' /\ [Next]_vars => [Promise!Next]_(Promise!vars)
  <2> SUFFICES ASSUME Inv, Known, CandidatesAnswer', [Next]_vars
               PROVE  Promise!Next \/ UNCHANGED Promise!vars
      OBVIOUS
  <2>1. CASE UNCHANGED vars
      BY <2>1 DEF vars, solverVars, callVars, listVars, timeVars, Promise!vars, Range
  <2>2. ASSUME NEW q \in Queries, Call(q) \/ Refuse(q) PROVE Promise!Next
      BY <2>2, CallKeepsPromise, RefuseKeepsPromise DEF Promise!Next
  <2>3. ASSUME NEW b \in Branches, Push(b) PROVE Promise!Next
    <3>1. Promise!Collect(found[b]) /\ found[b] \in Range(solutions)'
        BY <2>3, PushKeepsPromise
    <3>2. running'
        BY <2>3, RunsInCall DEF Run
    <3> QED BY <3>1, <3>2 DEF Promise!Next
  <2>4. ASSUME NEW b \in Branches, Run(b), ~Push(b) PROVE UNCHANGED Promise!vars
      BY <2>4, RunKeepsPromise
  <2>5. CASE Tick \/ Return
      BY <2>5, TickKeepsPromise, ReturnKeepsPromise DEF Promise!Next
  <2> QED BY <2>1, <2>2, <2>3, <2>4, <2>5 DEF Next
<1> QED BY <1>1, <1>2, <1>3, InvInvariant, PTL DEF Spec, KeepsPromise, Promise!SafeSpec

\* So wherever the conditions hold, TracIk implements IkQuery.
THEOREM ImplementsIkQuery ==
  ASSUME PoseKept(Int), AskedExactly, TurnedInRange
  PROVE  Spec => KeepsPromise
BY AllAnswer, IsQuery, PTL

=============================================================================
