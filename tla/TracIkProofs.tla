------------------------------ MODULE TracIkProofs ------------------------------
(***************************************************************************)
(* The safety properties of TracIk for every mechanism, query, kinematics  *)
(* and any number of calls.  Inv says what each variable holds where; the  *)
(* other invariants build on it, one for each property.                    *)
(***************************************************************************)
EXTENDS TracIk, ChainLemmas

-----------------------------------------------------------------------------
(* The mechanism and the configurations computed from it.                  *)

\* Configurations with a position for each joint.
Full == [DOMAIN mech.kinds -> Int]

\* What holds of the mechanism throughout.
MechInv ==
  /\ mech.kinds \in Seq({"Rot", "Trans"})
  /\ mech.initialized =>
       /\ mech.couplings \in Seq(Coupling)
       /\ Valid(mech.couplings)
       /\ DOMAIN mech.couplings = DOMAIN mech.kinds
       /\ mech.rev \in [DOMAIN mech.kinds -> Nat \ {0}]
       /\ mech.lb \in Full /\ mech.ub \in Full

\* The description of an uncoupled chain.
LEMMA UncoupledTyped ==
  ASSUME NEW n \in Nat
  PROVE  Uncoupled(n) \in Seq(Coupling) /\ DOMAIN Uncoupled(n) = 1..n
BY DEF Uncoupled, ActiveJoint, Coupling, Own

\* A mechanism the constructor accepted has effective bounds and revolutions
\* for every joint of a valid description.
LEMMA Initialized ==
  ASSUME NEW g \in Mechanisms, mech = Initialize(g)
  PROVE  MechInv
<1> DEFINE n == Len(g.kinds)
           d == IF g.couplings = <<>> THEN Uncoupled(n) ELSE g.couplings
           t == Tighten(d, g.lb, g.ub)
<1>1. /\ g.kinds \in Seq({"Rot", "Trans"})
      /\ g.rev \in [DOMAIN g.kinds -> Nat \ {0}]
      /\ g.lb \in Seq(Int) /\ g.ub \in Seq(Int)
      /\ g.couplings \in Seq(Coupling)
    BY MechanismsAssumption DEF Constructible
<1>2. n \in Nat /\ DOMAIN g.kinds = 1..n
    BY <1>1
<1>3. d \in Seq(Coupling)
    BY <1>1, <1>2, UncoupledTyped
<1>4. /\ mech.kinds = g.kinds /\ mech.rev = g.rev
      /\ mech.couplings = d /\ mech.lb = t.lb /\ mech.ub = t.ub
      /\ mech.initialized => Valid(d) /\ Len(d) = n /\ t.ok
    BY DEF Initialize
<1> HIDE DEF d, t
<1>5. ASSUME mech.initialized
      PROVE  /\ Valid(d) /\ DOMAIN d = DOMAIN g.kinds
             /\ t.lb \in [DOMAIN d -> Int] /\ t.ub \in [DOMAIN d -> Int]
  <2>1. Valid(d) /\ Len(d) = n /\ t.ok
      BY <1>4, <1>5
  <2>2. DOMAIN d = DOMAIN g.kinds
      BY <1>2, <1>3, <2>1
  <2> QED BY <1>1, <1>3, <2>1, <2>2, TightenTyped DEF t
<1> QED BY <1>1, <1>3, <1>4, <1>5 DEF MechInv, Full

\* Rebuilding the mimic entries of a configuration gives a configuration.
LEMMA RebuildTyped ==
  ASSUME MechInv, mech.initialized, NEW x \in Full
  PROVE  RebuildMimicEntries(mech.couplings, x) \in Full
<1>1. mech.couplings \in Seq(Coupling) /\ Valid(mech.couplings)
      /\ DOMAIN mech.couplings = DOMAIN mech.kinds
    BY DEF MechInv
<1>2. \A i \in Active(mech.couplings) : Reduce(mech.couplings, x)[i] \in Int
    BY <1>1, ReduceTyped DEF Full
<1> QED BY <1>1, <1>2, ExpandTyped DEF RebuildMimicEntries, Full

\* Clamping gives a number.
LEMMA ClampTyped ==
  ASSUME NEW x \in Int, NEW lo \in Int, NEW hi \in Int
  PROVE  Min({Max({x, lo}), hi}) \in Int
<1>1. {x, lo} \in SUBSET Int /\ IsFiniteSet({x, lo}) /\ {x, lo} # {}
    BY PairFinite
<1>2. Max({x, lo}) \in Int
    BY <1>1, MaxProperty
<1> DEFINE y == Max({x, lo})
<1> HIDE DEF y
<1>3. {y, hi} \in SUBSET Int /\ IsFiniteSet({y, hi}) /\ {y, hi} # {}
    BY <1>2, PairFinite DEF y
<1>4. Min({y, hi}) \in Int
    BY <1>3, MinProperty
<1> QED BY <1>4 DEF y

\* The repaired seed is a configuration.
LEMMA RepairTyped ==
  ASSUME MechInv, mech.initialized, NEW x \in Full, NEW lo \in Full, NEW hi \in Full, NEW t
  PROVE  RepairSeed(mech.couplings, t, x, lo, hi) \in Full
<1> DEFINE clamped == [i \in DOMAIN x |->
       IF ~IsMimic(mech.couplings, i) /\ IsMimicked(mech.couplings, i) /\ t[i] # "Continuous"
       THEN Min({Max({x[i], lo[i]}), hi[i]}) ELSE x[i]]
<1>1. \A i \in DOMAIN mech.kinds : Min({Max({x[i], lo[i]}), hi[i]}) \in Int
    BY ClampTyped DEF Full
<1>2. clamped \in Full
    BY <1>1 DEF Full
<1> HIDE DEF clamped
<1>3. RebuildMimicEntries(mech.couplings, clamped) \in Full
    BY <1>2, RebuildTyped
<1> QED BY <1>3 DEF RepairSeed, clamped

\* A normalised configuration is a configuration.
LEMMA NormalizeTyped ==
  ASSUME MechInv, mech.initialized, NEW c \in Full, NEW start \in Full,
         NEW lo \in Full, NEW hi \in Full, NEW t, NEW st
  PROVE  Normalize(mech, t, st, start, c, lo, hi) \in Full
<1> DEFINE target(i) == Target(st, t[i], start[i], lo[i], hi[i])
           value(i) ==
             IF IsMimic(mech.couplings, i) \/ t[i] = "Trans" \/ ~mech.shares_revolutions[i]
             THEN c[i]
             ELSE IF t[i] = "Continuous" THEN NormalizeNear(c[i], target(i), mech.rev[i])
             ELSE NormalizeInto(c[i], target(i), lo[i], hi[i], mech.rev[i])
           turned == [i \in DOMAIN c |-> value(i)]
<1>1. ASSUME NEW i \in DOMAIN mech.kinds
      PROVE  value(i) \in Int
  <2>1. /\ c[i] \in Int /\ start[i] \in Int /\ lo[i] \in Int /\ hi[i] \in Int
        /\ mech.rev[i] \in Nat \ {0}
      BY DEF Full, MechInv
  <2>2. target(i) \in Int
      BY <2>1 DEF Target
  <2> HIDE DEF target
  <2>3. NormalizeNear(c[i], target(i), mech.rev[i]) \in Int
    <3>1. mech.rev[i] \div 2 \in Int
        BY <2>1
    <3>2. /\ target(i) - mech.rev[i] \div 2 \in Int
          /\ target(i) + mech.rev[i] \div 2 \in Int
        BY <2>2, <3>1
    <3> QED BY <2>1, <3>2, AngleNormalized DEF NormalizeNear
  <2>4. NormalizeInto(c[i], target(i), lo[i], hi[i], mech.rev[i]) \in Int
      BY <2>1, <2>2, TurnedIntoLimits
  <2> QED BY <2>1, <2>3, <2>4
<1> HIDE DEF value
<1>2. turned \in Full
    BY <1>1 DEF Full
<1>3. Normalize(mech, t, st, start, c, lo, hi) = RebuildMimicEntries(mech.couplings, turned)
    BY DEF Normalize, value, target
<1> HIDE DEF turned
<1> QED BY <1>2, <1>3, RebuildTyped

-----------------------------------------------------------------------------
(* The inductive invariant.                                                *)

Holding  == {"testing", "pushing", "ranking"}        \* the labels under the lock
Carrying == {"locking"} \cup Holding                 \* found is in use

\* The scalars have their types.
ScalarInv ==
  /\ query \in Queries \cup {NoQuery}
  /\ running \in BOOLEAN
  /\ mtx \in Branches \cup {Nobody}
  /\ aborted \in [Branches -> BOOLEAN]
  /\ fresh \in [Branches -> BOOLEAN]
  /\ pc \in [Branches -> Labels]
  /\ left \in Nat
  /\ maxtime \in [Branches -> Nat]
  /\ DOMAIN found = Branches
  /\ answer.rc \in Int

\* A call is of an accepted mechanism, with bounds and a seed for each joint.
CallInv ==
  running => /\ mech.initialized
             /\ query \in Queries
             /\ resolved.q_min \in Full /\ resolved.q_max \in Full
             /\ seed \in Full

\* What a thread carries from its search to the list is a configuration.
FoundInv == \A b \in Branches : pc[b] \in Carrying => found[b] \in Full

\* A thread is between taking and releasing the lock exactly when it holds it,
\* and there are no threads between calls.
LockInv ==
  /\ \A b \in Branches : pc[b] \in Holding <=> mtx = b
  /\ ~running => \A b \in Branches : pc[b] = "joined"

\* errors follows solutions, but for the candidate a thread is ranking.
ListInv ==
  /\ solutions \in Seq(Full)
  /\ (\A b \in Branches : pc[b] # "ranking") => DOMAIN errors = DOMAIN solutions
  /\ \A b \in Branches : pc[b] = "ranking" =>
       /\ Len(solutions) > 0
       /\ DOMAIN errors = 1..(Len(solutions) - 1)
       /\ solutions[Len(solutions)] = found[b]
  /\ \A i \in DOMAIN errors : errors[i][2] \in DOMAIN solutions

Inv == MechInv /\ ScalarInv /\ CallInv /\ FoundInv /\ LockInv /\ ListInv

\* What an inner solver can return is a configuration.
LEMMA AnswersTyped ==
  ASSUME MechInv, CallInv, running, NEW b \in Branches, NEW c \in InnerAnswers(b)
  PROVE  c \in Full
<1>1. /\ mech.couplings \in Seq(Coupling) /\ Valid(mech.couplings)
      /\ DOMAIN mech.couplings = DOMAIN mech.kinds
    BY DEF MechInv, CallInv
<1>2. CASE c \in Configurations(mech.couplings)
  <2>1. PICK r \in [Active(mech.couplings) -> Positions] : c = Expand(mech.couplings, r)
      BY <1>2 DEF Configurations
  <2>2. \A i \in Active(mech.couplings) : r[i] \in Int
      BY <2>1, NumbersAssumption
  <2> QED BY <1>1, <2>1, <2>2, ExpandTyped DEF Full
<1>3. CASE c = RebuildMimicEntries(mech.couplings, seed)
    BY <1>3, RebuildTyped DEF CallInv
<1> QED BY <1>2, <1>3 DEF InnerAnswers

\* It holds of a solver that was just constructed.
LEMMA InvInit == ASSUME Init PROVE Inv
<1>1. MechInv
  <2>1. PICK g \in Mechanisms : mech = Initialize(g)
      BY DEF Init
  <2> QED BY <2>1, Initialized
<1>2. ScalarInv
  <2>1. answer.rc = -1
      BY DEF Init, Refused
  <2>2. aborted \in [Branches -> BOOLEAN] /\ fresh \in [Branches -> BOOLEAN]
      BY DEF Init
  <2>3. pc \in [Branches -> Labels] /\ maxtime \in [Branches -> Nat] /\ DOMAIN found = Branches
      BY DEF Init, Labels
  <2>4. /\ query \in Queries \cup {NoQuery} /\ mtx \in Branches \cup {Nobody}
        /\ running \in BOOLEAN /\ left \in Nat
      BY DEF Init
  <2> QED BY <2>1, <2>2, <2>3, <2>4 DEF ScalarInv
<1>3. CallInv
    BY DEF Init, CallInv
<1>4. FoundInv
    BY DEF Init, FoundInv, Carrying, Holding
<1>5. LockInv
    BY DEF Init, LockInv, Holding, Branches, Nobody
<1>6. ListInv
    BY DEF Init, ListInv
<1> QED BY <1>1, <1>2, <1>3, <1>4, <1>5, <1>6 DEF Inv

\* A call starts with bounds and a seed for each joint, and an empty list.
LEMMA CallStep ==
  ASSUME Inv, NEW q \in Queries, Call(q)
  PROVE  Inv'
<1> DEFINE bounds == Resolve(mech, q)
<1>1. Askable(q)
    BY QueriesAssumption
<1>2. /\ mech.initialized /\ Len(q.seed) = Len(mech.kinds) /\ bounds.ok
      /\ mech' = mech /\ running' = TRUE /\ query' = q
    BY DEF Call, WellFormed
<1>3. MechInv'
    BY <1>2 DEF Inv, MechInv, Full
<1>4. bounds.lb \in Full /\ bounds.ub \in Full
  <2>1. CASE PerCallBounds(q)
    <3>1. bounds = Tighten(mech.couplings, q.q_min, q.q_max)
        BY <2>1 DEF Resolve
    <3>2. q.q_min \in Seq(Int) /\ q.q_max \in Seq(Int)
        BY <1>1 DEF Askable
    <3>3. mech.couplings \in Seq(Coupling) /\ Tighten(mech.couplings, q.q_min, q.q_max).ok
        BY <1>2, <3>1 DEF Inv, MechInv
    <3>4. /\ bounds.lb \in [DOMAIN mech.couplings -> Int]
          /\ bounds.ub \in [DOMAIN mech.couplings -> Int]
        BY <3>1, <3>2, <3>3, TightenTyped
    <3> QED BY <1>2, <3>4 DEF Inv, MechInv, Full
  <2>2. CASE ~PerCallBounds(q)
      BY <1>2, <2>2 DEF Resolve, Inv, MechInv
  <2> QED BY <2>1, <2>2
<1> HIDE DEF bounds
<1>5. q.seed \in Full
  <2>1. mech.kinds \in Seq({"Rot", "Trans"})
      BY DEF Inv, MechInv
  <2> QED BY <1>1, <1>2, <2>1 DEF Full, Askable
<1>6. resolved'.q_min = bounds.lb /\ resolved'.q_max = bounds.ub
  <2>1. resolved' = [q_min |-> bounds.lb, q_max |-> bounds.ub]
      BY DEF Call, bounds
  <2> QED BY <2>1
<1>7. seed' \in Full
  <2>1. seed' = RepairSeed(mech.couplings, types', q.seed, bounds.lb, bounds.ub)
      BY DEF Call, bounds
  <2> QED BY <1>2, <1>4, <1>5, <2>1, RepairTyped DEF Inv
<1>8. CallInv'
    BY <1>2, <1>4, <1>6, <1>7 DEF CallInv, Full
<1>9. \A b \in Branches : pc'[b] \in {"joined", "checking"}
    BY DEF Call
<1>10. ScalarInv'
  <2>1. left' \in Nat /\ maxtime' = maxtime /\ found' = found /\ mtx' = mtx
      BY <1>1 DEF Call, Askable
  <2>2. answer'.rc = 0
      BY DEF Call, Pending
  <2>3. aborted' \in [Branches -> BOOLEAN] /\ fresh' \in [Branches -> BOOLEAN]
      BY DEF Call, ResetSolvers
  <2>4. pc' \in [Branches -> Labels]
      BY DEF Call, Labels
  <2> QED BY <1>2, <2>1, <2>2, <2>3, <2>4 DEF ScalarInv, Inv
<1>11. FoundInv'
    BY <1>9 DEF FoundInv, Carrying, Holding
<1>12. LockInv'
  <2>1. \A b \in Branches : mtx # b
      BY DEF Inv, LockInv, Call, Holding
  <2> QED BY <1>2, <1>9, <2>1 DEF LockInv, Holding, Call
<1>13. ListInv'
    BY <1>9 DEF ListInv, Call
<1> QED BY <1>3, <1>8, <1>10, <1>11, <1>12, <1>13 DEF Inv

\* A refusal changes nothing but the answer.
LEMMA RefuseStep ==
  ASSUME Inv, NEW q \in Queries, Refuse(q)
  PROVE  Inv'
<1>1. answer'.rc = -1
    BY DEF Refuse, Refused
<1>2. UNCHANGED <<mech, query, resolved, seed, running, solutions, errors, mtx, left, maxtime,
                  aborted, pc, fresh, found>>
    BY DEF Refuse, solverVars, listVars, timeVars
<1>3. MechInv' /\ CallInv' /\ FoundInv' /\ LockInv' /\ ListInv'
    BY <1>2 DEF Inv, MechInv, CallInv, FoundInv, LockInv, ListInv, Full
<1>4. ScalarInv'
    BY <1>1, <1>2 DEF Inv, ScalarInv
<1> QED BY <1>3, <1>4 DEF Inv

\* The clock only counts down.
LEMMA TickStep ==
  ASSUME Inv, Tick
  PROVE  Inv'
<1>1. left \in Nat /\ maxtime \in [Branches -> Nat]
    BY DEF Inv, ScalarInv
<1>2. left' \in Nat
    BY <1>1 DEF Tick
<1>3. maxtime' \in [Branches -> Nat]
  <2>1. \A b \in Branches : maxtime[b] \in Nat /\ (maxtime[b] > 0 => maxtime[b] - 1 \in Nat)
      BY <1>1
  <2> QED BY <2>1 DEF Tick
<1>4. UNCHANGED <<mech, query, resolved, seed, running, answer, solutions, errors, mtx,
                  aborted, pc, fresh, found>>
    BY DEF Tick, solverVars, callVars, listVars
<1>5. MechInv' /\ CallInv' /\ FoundInv' /\ LockInv' /\ ListInv'
    BY <1>4 DEF Inv, MechInv, CallInv, FoundInv, LockInv, ListInv, Full
<1>6. ScalarInv'
    BY <1>2, <1>3, <1>4 DEF Inv, ScalarInv
<1> QED BY <1>5, <1>6 DEF Inv

\* A step of a thread that neither takes nor releases the lock, lists nothing,
\* and is not Find.
LEMMA OutsideStep ==
  ASSUME Inv, NEW b \in Branches, NEW label \in Labels \ Carrying,
         pc[b] \in Labels \ (Carrying \cup {"joined"}), pc' = [pc EXCEPT ![b] = label],
         UNCHANGED <<mech, query, resolved, seed, running, answer, solutions, errors, mtx>>,
         left' \in Nat, maxtime' \in [Branches -> Nat], aborted' \in [Branches -> BOOLEAN],
         fresh' \in [Branches -> BOOLEAN], DOMAIN found' = Branches,
         \A a \in Branches \ {b} : found'[a] = found[a]
  PROVE  Inv'
<1>1. MechInv' /\ CallInv'
    BY DEF Inv, MechInv, CallInv, Full
<1>2. pc \in [Branches -> Labels] /\ pc' \in [Branches -> Labels]
      /\ pc'[b] = label /\ \A a \in Branches \ {b} : pc'[a] = pc[a]
    BY DEF Inv, ScalarInv
<1>3. ScalarInv'
    BY <1>2 DEF Inv, ScalarInv
<1>4. FoundInv'
    BY <1>2 DEF Inv, FoundInv, Full
<1>5. running
    BY DEF Inv, LockInv, ScalarInv
<1>6. LockInv'
    BY <1>2, <1>5 DEF Inv, LockInv, Carrying
<1>7. ListInv'
    BY <1>2 DEF Inv, ListInv, Full, Carrying, Holding
<1> QED BY <1>1, <1>3, <1>4, <1>6, <1>7 DEF Inv

\* Looking at the clock takes nothing and lists nothing, ...
LEMMA CheckTimeStep == ASSUME Inv, NEW b \in Branches, CheckTime(b) PROVE Inv'
<1>1. maxtime' \in [Branches -> Nat]
    BY DEF CheckTime, Inv, ScalarInv
<1>2. PICK label \in {"leaving", "entering"} : pc' = [pc EXCEPT ![b] = label]
    BY DEF CheckTime, Goto
<1>3. label \in Labels \ Carrying /\ pc[b] \in Labels \ (Carrying \cup {"joined"})
    BY <1>2 DEF CheckTime, Labels, Carrying, Holding
<1>4. UNCHANGED <<mech, query, resolved, seed, running, answer, solutions, errors, mtx, left,
                  aborted, fresh, found>>
    BY DEF CheckTime, solverVars, callVars, listVars
<1> QED BY <1>1, <1>2, <1>3, <1>4, OutsideStep DEF Inv, ScalarInv

\* ... nor does the look at the abort flag, ...
LEMMA EnterSolverStep == ASSUME Inv, NEW b \in Branches, EnterSolver(b) PROVE Inv'
<1>1. PICK label \in {"peeking", "solving"} : pc' = [pc EXCEPT ![b] = label]
    BY DEF EnterSolver, Goto
<1>2. label \in Labels \ Carrying /\ pc[b] \in Labels \ (Carrying \cup {"joined"})
    BY <1>1 DEF EnterSolver, Labels, Carrying, Holding
<1>3. UNCHANGED <<mech, query, resolved, seed, running, answer, solutions, errors, mtx, left,
                  maxtime, aborted, fresh, found>>
    BY DEF EnterSolver, solverVars, callVars, listVars, timeVars
<1> QED BY <1>1, <1>2, <1>3, OutsideStep DEF Inv, ScalarInv

\* ... nor a search that fails, ...
LEMMA GiveUpStep == ASSUME Inv, NEW b \in Branches, GiveUp(b) PROVE Inv'
<1>1. pc' = [pc EXCEPT ![b] = "peeking"]
    BY DEF GiveUp, Goto
<1>2. "peeking" \in Labels \ Carrying /\ pc[b] \in Labels \ (Carrying \cup {"joined"})
    BY DEF GiveUp, Labels, Carrying, Holding
<1>3. UNCHANGED <<mech, query, resolved, seed, running, answer, solutions, errors, mtx, left,
                  maxtime, aborted, fresh, found>>
    BY DEF GiveUp, solverVars, callVars, listVars, timeVars
<1> QED BY <1>1, <1>2, <1>3, OutsideStep DEF Inv, ScalarInv

\* ... nor the unlocked look at the list, ...
LEMMA PeekStep == ASSUME Inv, NEW b \in Branches, Peek(b) PROVE Inv'
<1>1. PICK label \in {"leaving", "checking"} : pc' = [pc EXCEPT ![b] = label]
    BY DEF Peek, Goto
<1>2. label \in Labels \ Carrying /\ pc[b] \in Labels \ (Carrying \cup {"joined"})
    BY <1>1 DEF Peek, Labels, Carrying, Holding
<1>3. fresh' \in [Branches -> BOOLEAN]
    BY DEF Peek, Inv, ScalarInv
<1>4. DOMAIN found' = Branches /\ \A a \in Branches \ {b} : found'[a] = found[a]
    BY DEF Peek, Inv, ScalarInv
<1>5. UNCHANGED <<mech, query, resolved, seed, running, answer, solutions, errors, mtx, left,
                  maxtime, aborted>>
    BY DEF Peek, solverVars, callVars, listVars, timeVars
<1> QED BY <1>1, <1>2, <1>3, <1>4, <1>5, OutsideStep DEF Inv, ScalarInv

\* ... nor leaving.
LEMMA LeaveStep == ASSUME Inv, NEW b \in Branches, Leave(b) PROVE Inv'
<1>1. pc' = [pc EXCEPT ![b] = "joined"]
    BY DEF Leave, Goto
<1>2. "joined" \in Labels \ Carrying /\ pc[b] \in Labels \ (Carrying \cup {"joined"})
    BY DEF Leave, Labels, Carrying, Holding
<1>3. /\ fresh' \in [Branches -> BOOLEAN]
      /\ aborted' \in [Branches -> BOOLEAN]
    BY DEF Leave, Inv, ScalarInv
<1>4. maxtime' \in [Branches -> Nat]
  <2>1. running
      BY DEF Inv, LockInv, ScalarInv, Leave
  <2>2. query.timeout \in Nat
      BY <2>1, QueriesAssumption DEF Inv, CallInv, Askable
  <2> QED BY <2>2 DEF Leave, Inv, ScalarInv
<1>5. UNCHANGED <<mech, query, resolved, seed, running, answer, solutions, errors, mtx, left, found>>
    BY DEF Leave, solverVars, callVars, listVars
<1> QED BY <1>1, <1>2, <1>3, <1>4, <1>5, OutsideStep DEF Inv, ScalarInv

\* What a thread finds and normalises is a configuration.
LEMMA FindStep == ASSUME Inv, NEW b \in Branches, Find(b) PROVE Inv'
<1>1. /\ pc[b] = "solving" /\ pc' = [pc EXCEPT ![b] = "locking"]
      /\ UNCHANGED <<mech, query, resolved, seed, running, answer, solutions, errors, mtx, left,
                     maxtime, aborted, fresh>>
    BY DEF Find, Goto, solverVars, callVars, listVars, timeVars
<1>2. pc \in [Branches -> Labels] /\ pc' \in [Branches -> Labels]
      /\ pc'[b] = "locking" /\ \A a \in Branches \ {b} : pc'[a] = pc[a]
    BY <1>1 DEF Inv, ScalarInv, Labels
<1>3. running
    BY <1>1 DEF Inv, LockInv, ScalarInv
<1>4. PICK c \in InnerAnswers(b) :
        found' = [found EXCEPT ![b] =
          Normalize(mech, types, query.solve_type, seed, c, resolved.q_min, resolved.q_max)]
    BY DEF Find
<1>5. Normalize(mech, types, query.solve_type, seed, c, resolved.q_min, resolved.q_max) \in Full
  <2>1. c \in Full
      BY <1>3, AnswersTyped DEF Inv
  <2> QED BY <1>3, <2>1, NormalizeTyped DEF Inv, CallInv
<1>6. /\ found'[b] \in Full /\ DOMAIN found' = Branches
      /\ \A a \in Branches \ {b} : found'[a] = found[a]
    BY <1>4, <1>5 DEF Inv, ScalarInv
<1>7. MechInv' /\ CallInv'
    BY <1>1 DEF Inv, MechInv, CallInv, Full
<1>8. ScalarInv'
    BY <1>1, <1>2, <1>6 DEF Inv, ScalarInv
<1>9. FoundInv'
    BY <1>1, <1>2, <1>6 DEF Inv, FoundInv, Full
<1>10. LockInv'
    BY <1>1, <1>2, <1>3 DEF Inv, LockInv, Holding
<1>11. ListInv'
    BY <1>1, <1>2, <1>6 DEF Inv, ListInv, Full
<1> QED BY <1>7, <1>8, <1>9, <1>10, <1>11 DEF Inv

\* The lock is taken only when nobody has it.
LEMMA AcquireStep == ASSUME Inv, NEW b \in Branches, Acquire(b) PROVE Inv'
<1>1. /\ pc[b] = "locking" /\ pc' = [pc EXCEPT ![b] = "testing"]
      /\ mtx = Nobody /\ mtx' = b
      /\ UNCHANGED <<mech, query, resolved, seed, running, answer, solutions, errors, left,
                     maxtime, aborted, fresh, found>>
    BY DEF Acquire, Goto, solverVars, callVars, timeVars
<1>2. pc \in [Branches -> Labels] /\ pc' \in [Branches -> Labels]
      /\ pc'[b] = "testing" /\ \A a \in Branches \ {b} : pc'[a] = pc[a]
    BY <1>1 DEF Inv, ScalarInv, Labels
<1>3. running
    BY <1>1 DEF Inv, LockInv, ScalarInv
<1>4. MechInv' /\ CallInv' /\ ScalarInv'
    BY <1>1, <1>2 DEF Inv, MechInv, CallInv, ScalarInv, Full
<1>5. FoundInv'
    BY <1>1, <1>2 DEF Inv, FoundInv, Full, Carrying
<1>6. LockInv'
  <2>1. \A a \in Branches : a # Nobody
      BY DEF Branches, Nobody
  <2>2. \A a \in Branches : pc[a] \notin Holding
      BY <1>1, <2>1 DEF Inv, LockInv
  <2> QED BY <1>1, <1>2, <1>3, <2>2 DEF LockInv, Holding
<1>7. ListInv'
    BY <1>1, <1>2 DEF Inv, ListInv, Full
<1> QED BY <1>4, <1>5, <1>6, <1>7 DEF Inv

\* The thread that holds the lock is the only one under it.
LEMMA HolderAlone ==
  ASSUME Inv, NEW b \in Branches, pc[b] \in Holding
  PROVE  /\ mtx = b /\ running
         /\ \A a \in Branches \ {b} : pc[a] \notin Holding
         /\ Nobody \notin Branches
BY DEF Inv, LockInv, ScalarInv, Holding, Branches, Nobody

\* The lock is kept for a new candidate and released otherwise.
LEMMA TestUniqueStep == ASSUME Inv, NEW b \in Branches, TestUnique(b) PROVE Inv'
<1>1. /\ pc[b] = "testing"
      /\ UNCHANGED <<mech, query, resolved, seed, running, answer, solutions, errors, left,
                     maxtime, aborted, fresh, found>>
    BY DEF TestUnique, solverVars, callVars, timeVars
<1>2. PICK label \in {"pushing", "peeking"} :
        /\ pc' = [pc EXCEPT ![b] = label]
        /\ label = "pushing" => mtx' = mtx
        /\ label = "peeking" => mtx' = Nobody
    BY DEF TestUnique, Goto
<1>3. pc \in [Branches -> Labels] /\ pc' \in [Branches -> Labels]
      /\ pc'[b] = label /\ \A a \in Branches \ {b} : pc'[a] = pc[a]
    BY <1>1, <1>2 DEF Inv, ScalarInv, Labels
<1>4. /\ mtx = b /\ running /\ Nobody \notin Branches
      /\ \A a \in Branches \ {b} : pc[a] \notin Holding
    BY <1>1, HolderAlone DEF Holding
<1>5. MechInv' /\ CallInv' /\ ScalarInv'
    BY <1>1, <1>2, <1>3 DEF Inv, MechInv, CallInv, ScalarInv, Full
<1>6. FoundInv'
    BY <1>1, <1>3 DEF Inv, FoundInv, Full, Carrying, Holding
<1>7. LockInv'
    BY <1>1, <1>2, <1>3, <1>4 DEF LockInv, Holding
<1>8. ListInv'
    BY <1>1, <1>2, <1>3 DEF Inv, ListInv, Full
<1> QED BY <1>5, <1>6, <1>7, <1>8 DEF Inv

\* A candidate is listed ahead of its ranking entry, ...
LEMMA PushStep == ASSUME Inv, NEW b \in Branches, Push(b) PROVE Inv'
<1>1. /\ pc[b] = "pushing" /\ pc' = [pc EXCEPT ![b] = "ranking"]
      /\ solutions' = Append(solutions, found[b])
      /\ UNCHANGED <<mech, query, resolved, seed, running, answer, errors, mtx, left,
                     maxtime, aborted, fresh, found>>
    BY DEF Push, Goto, solverVars, callVars, timeVars
<1>2. pc \in [Branches -> Labels] /\ pc' \in [Branches -> Labels]
      /\ pc'[b] = "ranking" /\ \A a \in Branches \ {b} : pc'[a] = pc[a]
    BY <1>1 DEF Inv, ScalarInv, Labels
<1>3. mtx = b /\ running /\ \A a \in Branches \ {b} : pc[a] \notin Holding
    BY <1>1, HolderAlone DEF Holding
<1>4. found[b] \in Full /\ solutions \in Seq(Full)
    BY <1>1 DEF Inv, FoundInv, ListInv, Carrying, Holding
<1>5. /\ solutions' \in Seq(Full) /\ Len(solutions') = Len(solutions) + 1
      /\ DOMAIN solutions = 1..Len(solutions) /\ DOMAIN solutions' = 1..(Len(solutions) + 1)
      /\ solutions'[Len(solutions) + 1] = found[b] /\ Len(solutions) \in Nat
    BY <1>1, <1>4
<1>6. MechInv' /\ CallInv' /\ ScalarInv'
    BY <1>1, <1>2 DEF Inv, MechInv, CallInv, ScalarInv, Full
<1>7. FoundInv'
    BY <1>1, <1>2, <1>4 DEF Inv, FoundInv, Full
<1>8. LockInv'
    BY <1>1, <1>2, <1>3 DEF Inv, LockInv, Holding
<1>9. ListInv'
  <2>1. \A a \in Branches : pc[a] # "ranking"
      BY <1>1, <1>3 DEF Holding
  <2>2. DOMAIN errors = DOMAIN solutions
      BY <2>1 DEF Inv, ListInv
  <2>3. solutions' \in Seq(Full)'
      BY <1>1, <1>5 DEF Full
  <2>4. \A a \in Branches : pc'[a] = "ranking" => a = b
      BY <1>2, <2>1
  <2>5. \A k \in DOMAIN errors' : errors'[k][2] \in DOMAIN solutions'
      BY <1>1, <1>5 DEF Inv, ListInv
  <2>6. /\ Len(solutions') > 0 /\ DOMAIN errors' = 1..(Len(solutions') - 1)
        /\ solutions'[Len(solutions')] = found'[b]
      BY <1>1, <1>5, <2>2
  <2> QED BY <1>2, <2>3, <2>4, <2>5, <2>6 DEF ListInv
<1> QED BY <1>6, <1>7, <1>8, <1>9 DEF Inv

\* ... which is written before the lock is released.
LEMMA RankStep == ASSUME Inv, NEW b \in Branches, Rank(b) PROVE Inv'
<1>1. /\ pc[b] = "ranking" /\ pc' = [pc EXCEPT ![b] = "peeking"]
      /\ mtx' = Nobody
      /\ UNCHANGED <<mech, query, resolved, seed, running, answer, solutions, left,
                     maxtime, aborted, fresh, found>>
    BY DEF Rank, Goto, solverVars, callVars, timeVars
<1>2. pc \in [Branches -> Labels] /\ pc' \in [Branches -> Labels]
      /\ pc'[b] = "peeking" /\ \A a \in Branches \ {b} : pc'[a] = pc[a]
    BY <1>1 DEF Inv, ScalarInv, Labels
<1>3. /\ mtx = b /\ running /\ Nobody \notin Branches
      /\ \A a \in Branches \ {b} : pc[a] \notin Holding
    BY <1>1, HolderAlone DEF Holding
<1>4. MechInv' /\ CallInv' /\ ScalarInv'
    BY <1>1, <1>2 DEF Inv, MechInv, CallInv, ScalarInv, Full
<1>5. FoundInv'
    BY <1>1, <1>2 DEF Inv, FoundInv, Full, Carrying, Holding
<1>6. LockInv'
    BY <1>1, <1>2, <1>3 DEF LockInv, Holding
<1>7. ListInv'
  <2>1. /\ DOMAIN errors' = DOMAIN solutions
        /\ \A k \in DOMAIN solutions : errors'[k] = IF k = Len(solutions)
                                                    THEN <<Key(found[b]), k>> ELSE errors[k]
      BY DEF Rank
  <2>2. solutions \in Seq(Full) /\ DOMAIN errors = 1..(Len(solutions) - 1)
      BY <1>1 DEF Inv, ListInv
  <2>3. \A k \in DOMAIN errors' : errors'[k][2] \in DOMAIN solutions
    <3> SUFFICES ASSUME NEW k \in DOMAIN solutions PROVE errors'[k][2] \in DOMAIN solutions
        BY <2>1
    <3>1. CASE k = Len(solutions)
        BY <2>1, <3>1
    <3>2. CASE k # Len(solutions)
      <4>1. k \in DOMAIN errors /\ errors'[k] = errors[k]
          BY <2>1, <2>2, <3>2
      <4> QED BY <4>1 DEF Inv, ListInv
    <3> QED BY <3>1, <3>2
  <2>4. \A a \in Branches : pc'[a] # "ranking"
      BY <1>2, <1>3 DEF Holding
  <2> QED BY <1>1, <2>1, <2>2, <2>3, <2>4 DEF ListInv, Full
<1> QED BY <1>4, <1>5, <1>6, <1>7 DEF Inv

\* Sorting leaves as many ranking entries, of the same candidates.
LEMMA ReturnStep == ASSUME Inv, Return PROVE Inv'
<1>1. /\ running /\ (\A b \in Branches : pc[b] = "joined") /\ running' = FALSE
      /\ UNCHANGED <<mech, query, resolved, seed, solutions, mtx, left, maxtime,
                     aborted, pc, fresh, found>>
    BY DEF Return, solverVars, timeVars
<1>2. PICK sorted \in Rankings(errors) :
        /\ errors' = sorted
        /\ answer' = IF solutions = <<>> THEN [rc |-> -3, q_out |-> query.seed]
                     ELSE [rc |-> Len(solutions), q_out |-> solutions[sorted[1][2]]]
    BY DEF Return
<1>3. solutions \in Seq(Full) /\ DOMAIN errors = DOMAIN solutions
    BY <1>1 DEF Inv, ListInv
<1>4. answer'.rc \in Int
    BY <1>2, <1>3
<1>5. DOMAIN sorted = DOMAIN errors /\ \A k \in DOMAIN sorted : sorted[k] \in Range(errors)
    BY DEF Rankings
<1>6. \A k \in DOMAIN sorted : sorted[k][2] \in DOMAIN solutions
    BY <1>5 DEF Range, Inv, ListInv
<1>7. MechInv' /\ CallInv'
    BY <1>1 DEF Inv, MechInv, CallInv, Full
<1>8. ScalarInv'
    BY <1>1, <1>4 DEF Inv, ScalarInv
<1>9. FoundInv' /\ LockInv'
    BY <1>1 DEF Inv, FoundInv, LockInv, Carrying, Holding, Full
<1>10. ListInv'
    BY <1>1, <1>2, <1>3, <1>5, <1>6 DEF ListInv, Full
<1> QED BY <1>7, <1>8, <1>9, <1>10 DEF Inv

\* Every step preserves the invariant.
LEMMA InvInvariant == Spec => []Inv
<1>1. Inv /\ [Next]_vars => Inv'
  <2> SUFFICES ASSUME Inv, [Next]_vars PROVE Inv'
      OBVIOUS
  <2>1. CASE \E q \in Queries : Call(q) \/ Refuse(q)
      BY <2>1, CallStep, RefuseStep
  <2>2. ASSUME NEW b \in Branches, Run(b) PROVE Inv'
      BY <2>2, CheckTimeStep, EnterSolverStep, FindStep, GiveUpStep, AcquireStep,
         TestUniqueStep, PushStep, RankStep, PeekStep, LeaveStep DEF Run
  <2>3. CASE Tick
      BY <2>3, TickStep
  <2>4. CASE Return
      BY <2>4, ReturnStep
  <2>5. CASE UNCHANGED vars
      BY <2>5 DEF vars, solverVars, callVars, listVars, timeVars, Inv, MechInv, ScalarInv,
                  CallInv, FoundInv, LockInv, ListInv, Full
  <2> QED BY <2>1, <2>2, <2>3, <2>4, <2>5 DEF Next
<1> QED BY <1>1, InvInit, PTL DEF Spec

\* Every variable keeps its type, for every mechanism and query.
THEOREM TypeCorrect == Spec => []TypeOK
<1>1. Inv => TypeOK
  <2> SUFFICES ASSUME Inv PROVE TypeOK
      OBVIOUS
  <2>1. solutions \in Seq([DOMAIN mech.kinds -> Int]) /\ DOMAIN solutions = 1..Len(solutions)
        /\ Len(solutions) \in Nat
      BY DEF Inv, ListInv, Full
  <2>2. \E n \in 0..Len(solutions) : DOMAIN errors = 1..n
    <3>1. CASE \E b \in Branches : pc[b] = "ranking"
      <4>1. Len(solutions) > 0 /\ DOMAIN errors = 1..(Len(solutions) - 1)
          BY <3>1 DEF Inv, ListInv
      <4>2. Len(solutions) - 1 \in 0..Len(solutions)
          BY <2>1, <4>1
      <4> QED BY <4>1, <4>2
    <3>2. CASE \A b \in Branches : pc[b] # "ranking"
      <4>1. DOMAIN errors = 1..Len(solutions)
          BY <2>1, <3>2 DEF Inv, ListInv
      <4>2. Len(solutions) \in 0..Len(solutions)
          BY <2>1
      <4> QED BY <4>1, <4>2
    <3> QED BY <3>1, <3>2
  <2> QED BY <2>1, <2>2 DEF TypeOK, Inv, ScalarInv, ListInv
<1> QED BY <1>1, InvInvariant, PTL

-----------------------------------------------------------------------------
(* The list of candidates.                                                 *)

\* Ranked candidates have their key and their own index.
RankInv == running => \A i \in DOMAIN errors : errors[i] = <<Key(solutions[i]), i>>

\* The key of a candidate does not change in the course of a call.
LEMMA KeyStable ==
  ASSUME UNCHANGED <<mech, types, query, resolved, seed>>, NEW c
  PROVE  Key(c)' = Key(c)
BY DEF Key, ManipScore

\* Only Push, Rank and Return touch either list, and Return ends the call.
LEMMA RankInvStep ==
  ASSUME Inv, RankInv, [Next]_vars
  PROVE  RankInv'
<1>1. ASSUME UNCHANGED <<mech, types, query, resolved, seed, running, solutions, errors>>
      PROVE  RankInv'
    BY <1>1, KeyStable DEF RankInv
<1>2. ASSUME NEW q \in Queries, Call(q) PROVE RankInv'
    BY <1>2 DEF Call, RankInv
<1>3. ASSUME NEW q \in Queries, Refuse(q) PROVE RankInv'
    BY <1>1, <1>3 DEF Refuse, solverVars, listVars
<1>4. ASSUME NEW b \in Branches, Run(b), ~Push(b), ~Rank(b) PROVE RankInv'
    BY <1>1, <1>4 DEF Run, CheckTime, EnterSolver, Find, GiveUp, Acquire, TestUnique, Peek, Leave,
                      solverVars, callVars, listVars
<1>5. ASSUME NEW b \in Branches, Push(b) PROVE RankInv'
  <2>1. /\ solutions' = Append(solutions, found[b]) /\ solutions \in Seq(Full)
        /\ UNCHANGED <<mech, types, query, resolved, seed, running, errors>>
      BY <1>5 DEF Push, solverVars, callVars, Inv, ListInv
  <2>2. DOMAIN errors = DOMAIN solutions
      BY <1>5, HolderAlone DEF Push, Holding, Inv, ListInv
  <2>3. \A k \in DOMAIN solutions : solutions'[k] = solutions[k]
      BY <2>1
  <2> QED BY <2>1, <2>2, <2>3, KeyStable DEF RankInv
<1>6. ASSUME NEW b \in Branches, Rank(b) PROVE RankInv'
  <2>1. /\ UNCHANGED <<mech, types, query, resolved, seed, running, solutions>>
        /\ errors' = [i \in DOMAIN solutions |->
                        IF i = Len(solutions) THEN <<Key(found[b]), i>> ELSE errors[i]]
      BY <1>6 DEF Rank, solverVars, callVars
  <2>2. /\ solutions[Len(solutions)] = found[b] /\ solutions \in Seq(Full)
        /\ DOMAIN errors = 1..(Len(solutions) - 1)
      BY <1>6 DEF Rank, Inv, ListInv
  <2>3. \A k \in DOMAIN solutions : k # Len(solutions) => k \in DOMAIN errors
      BY <2>2
  <2>4. running => \A k \in DOMAIN solutions : errors'[k] = <<Key(solutions[k]), k>>
      BY <2>1, <2>2, <2>3 DEF RankInv
  <2> QED BY <2>1, <2>4, KeyStable DEF RankInv
<1>7. CASE Tick
    BY <1>1, <1>7 DEF Tick, solverVars, callVars, listVars
<1>8. CASE Return
    BY <1>8 DEF Return, RankInv
<1>9. CASE UNCHANGED vars
    BY <1>1, <1>9 DEF vars, solverVars, callVars, listVars
<1> QED BY <1>2, <1>3, <1>4, <1>5, <1>6, <1>7, <1>8, <1>9 DEF Next

\* Whoever could take the lock finds each candidate with its ranking entry.
THEOREM RankingComplete == Spec => []ErrorsIndexSolutions
<1>1. Init => RankInv
    BY DEF Init, RankInv
<1>2. Inv /\ RankInv => ErrorsIndexSolutions
  <2> SUFFICES ASSUME Inv, RankInv, running, mtx = Nobody
               PROVE  /\ DOMAIN errors = DOMAIN solutions
                      /\ \A i \in DOMAIN solutions : errors[i] = <<Key(solutions[i]), i>>
      BY DEF ErrorsIndexSolutions
  <2>1. \A b \in Branches : b # Nobody
      BY DEF Branches, Nobody
  <2>2. \A b \in Branches : pc[b] # "ranking"
      BY <2>1 DEF Inv, LockInv, Holding
  <2>3. DOMAIN errors = DOMAIN solutions
      BY <2>2 DEF Inv, ListInv
  <2> QED BY <2>3 DEF RankInv
<1>3. Inv /\ Inv' /\ RankInv /\ [Next]_vars => RankInv'
    BY RankInvStep
<1> QED BY <1>1, <1>2, <1>3, InvInvariant, PTL DEF Spec

\* No two candidates are the same, nor is one the same as what is about to be
\* listed: the lock is held from the test to the push.
UniqueInv ==
  /\ CandidatesDistinct
  /\ \A b \in Branches : pc[b] = "pushing" => UniqueSolution(found[b])

\* Being the same configuration is symmetric.
LEMMA SameSymmetric ==
  ASSUME NEW a \in Full, NEW b \in Full
  PROVE  Same(a, b) <=> Same(b, a)
<1>1. \A i \in DOMAIN a : a[i] \in Int /\ b[i] \in Int
    BY DEF Full
<1>2. \A x, y \in Int : x - y \in -SameTol..SameTol <=> y - x \in -SameTol..SameTol
    BY SameTolAssumption
<1> QED BY <1>1, <1>2 DEF Same, Full

\* Nothing is listed between the test of a candidate and its push.
LEMMA UniqueInvStep ==
  ASSUME Inv, UniqueInv, [Next]_vars
  PROVE  UniqueInv'
<1>1. ASSUME UNCHANGED <<solutions, pc, found>> PROVE UniqueInv'
    BY <1>1 DEF UniqueInv, CandidatesDistinct, UniqueSolution
<1>2. ASSUME NEW b \in Branches, solutions' = solutions,
             NEW label \in Labels \ {"pushing"}, pc' = [pc EXCEPT ![b] = label],
             \A a \in Branches \ {b} : found'[a] = found[a]
      PROVE  UniqueInv'
  <2>1. \A a \in Branches : pc'[a] = "pushing" => a # b /\ pc[a] = "pushing"
      BY <1>2 DEF Inv, ScalarInv
  <2> QED BY <1>2, <2>1 DEF UniqueInv, CandidatesDistinct, UniqueSolution
<1>3. ASSUME NEW q \in Queries, Call(q) PROVE UniqueInv'
  <2>1. solutions' = <<>> /\ \A b \in Branches : pc'[b] # "pushing"
      BY <1>3 DEF Call
  <2> QED BY <2>1 DEF UniqueInv, CandidatesDistinct
<1>4. ASSUME NEW q \in Queries, Refuse(q) PROVE UniqueInv'
    BY <1>1, <1>4 DEF Refuse, listVars
<1>5. ASSUME NEW b \in Branches, Find(b) PROVE UniqueInv'
  <2>1. \A a \in Branches \ {b} : found'[a] = found[a]
      BY <1>5 DEF Find, Inv, ScalarInv
  <2> QED BY <1>2, <1>5, <2>1 DEF Find, Goto, listVars, Labels
<1>6. ASSUME NEW b \in Branches, Peek(b) PROVE UniqueInv'
  <2>1. \A a \in Branches \ {b} : found'[a] = found[a]
      BY <1>6 DEF Peek, Inv, ScalarInv
  <2> QED BY <1>2, <1>6, <2>1 DEF Peek, Goto, listVars, Labels
<1>7. ASSUME NEW b \in Branches,
             CheckTime(b) \/ EnterSolver(b) \/ GiveUp(b) \/ Acquire(b) \/ Rank(b) \/ Leave(b)
      PROVE  UniqueInv'
  <2>1. /\ solutions' = solutions /\ found' = found
        /\ \E label \in Labels \ {"pushing"} : pc' = [pc EXCEPT ![b] = label]
      BY <1>7 DEF CheckTime, EnterSolver, GiveUp, Acquire, Rank, Leave, Goto, listVars, Labels
  <2> QED BY <1>2, <2>1
<1>8. ASSUME NEW b \in Branches, TestUnique(b) PROVE UniqueInv'
  <2>1. /\ solutions' = solutions /\ found' = found
        /\ UniqueSolution(found[b]) \/ pc' = [pc EXCEPT ![b] = "peeking"]
        /\ \E label \in Labels : pc' = [pc EXCEPT ![b] = label]
      BY <1>8 DEF TestUnique, Goto, Labels
  <2>2. CASE pc' = [pc EXCEPT ![b] = "peeking"]
      BY <1>2, <2>1, <2>2 DEF Labels
  <2>3. CASE UniqueSolution(found[b])
    <3>1. \A a \in Branches : pc'[a] = "pushing" => a = b \/ pc[a] = "pushing"
        BY <2>1 DEF Inv, ScalarInv
    <3> QED BY <2>1, <2>3, <3>1 DEF UniqueInv, CandidatesDistinct, UniqueSolution
  <2> QED BY <2>1, <2>2, <2>3
<1>9. ASSUME NEW b \in Branches, Push(b) PROVE UniqueInv'
  <2>1. /\ pc[b] = "pushing" /\ solutions' = Append(solutions, found[b])
        /\ pc' = [pc EXCEPT ![b] = "ranking"]
      BY <1>9 DEF Push, Goto
  <2>2. found[b] \in Full /\ solutions \in Seq(Full)
      BY <2>1 DEF Inv, FoundInv, ListInv, Carrying, Holding
  <2> DEFINE n == Len(solutions)
  <2>3. /\ n \in Nat /\ DOMAIN solutions = 1..n /\ DOMAIN solutions' = 1..(n+1)
        /\ solutions'[n+1] = found[b]
        /\ \A k \in 1..n : solutions'[k] = solutions[k] /\ solutions[k] \in Full
      BY <2>1, <2>2
  <2> HIDE DEF n
  <2>4. \A k \in 1..n : ~Same(found[b], solutions[k]) /\ ~Same(solutions[k], found[b])
      BY <2>1, <2>2, <2>3, SameSymmetric DEF UniqueInv, UniqueSolution
  <2>5. ASSUME NEW i \in 1..(n+1), NEW j \in 1..(n+1), i # j
        PROVE  ~Same(solutions'[i], solutions'[j])
    <3>1. CASE i \in 1..n /\ j \in 1..n
        BY <2>3, <2>5, <3>1 DEF UniqueInv, CandidatesDistinct
    <3>2. CASE i = n + 1 /\ j \in 1..n
        BY <2>3, <2>4, <3>2
    <3>3. CASE j = n + 1 /\ i \in 1..n
        BY <2>3, <2>4, <3>3
    <3> QED BY <2>3, <2>5, <3>1, <3>2, <3>3
  <2>6. \A a \in Branches : pc'[a] # "pushing"
      BY <2>1, <1>9, HolderAlone DEF Inv, ScalarInv, Holding
  <2> QED BY <2>3, <2>5, <2>6 DEF UniqueInv, CandidatesDistinct
<1>10. CASE Tick
    BY <1>1, <1>10 DEF Tick, listVars
<1>11. CASE Return
    BY <1>1, <1>11 DEF Return
<1>12. CASE UNCHANGED vars
    BY <1>1, <1>12 DEF vars, listVars
<1> QED BY <1>3, <1>4, <1>5, <1>6, <1>7, <1>8, <1>9, <1>10, <1>11, <1>12 DEF Next, Run

\* The two threads never list one configuration twice.
THEOREM NoDuplicates == Spec => []CandidatesDistinct
<1>1. Init => UniqueInv
    BY DEF Init, UniqueInv, CandidatesDistinct
<1>2. Inv /\ UniqueInv /\ [Next]_vars => UniqueInv'
    BY UniqueInvStep
<1>3. UniqueInv => CandidatesDistinct
    BY DEF UniqueInv
<1> QED BY <1>1, <1>2, <1>3, InvInvariant, PTL DEF Spec

-----------------------------------------------------------------------------
(* Stopping.                                                               *)

\* The labels from which a thread can still list a candidate without looking
\* at the list first.
Searching == {"checking", "entering", "solving", "locking", "testing", "pushing"}

\* Under Speed each candidate has put one thread past its search: a thread that
\* finds the list empty, or misses the other's first candidate, goes back to
\* it, but in the second case the other one is past it.
SpeedInv ==
  running /\ query.solve_type = "Speed" =>
    /\ Len(solutions) <= 2
    /\ (\E b \in Branches : pc[b] \in Searching) => Len(solutions) <= 1
    /\ (\A b \in Branches : pc[b] \in Searching) => Len(solutions) = 0

\* A thread leaves when its time is up or, under Speed, there is a candidate,
\* and so a flag it sets is justified.
AbortInv ==
  running => \A b \in Branches :
    aborted[b] \/ pc[b] = "leaving" =>
      left = 0 \/ (query.solve_type = "Speed" /\ solutions # <<>>)

\* There are two branches.
LEMMA OtherBranch ==
  ASSUME NEW b \in Branches
  PROVE  Other(b) \in Branches /\ Other(b) # b /\ Branches = {b, Other(b)}
BY DEF Branches, Other

\* They count as two.
LEMMA TwoBranches == Cardinality(Branches) = 2
<1>1. Cardinality({"KDL"}) = 1 /\ IsFiniteSet({"KDL"})
    BY FS_Singleton
<1>2. Cardinality({"KDL"} \cup {"NLOPT"}) = 2
    BY <1>1, FS_AddElement
<1>3. Branches = {"KDL"} \cup {"NLOPT"}
    BY DEF Branches
<1> QED BY <1>2, <1>3

\* Only Push lists a candidate and only Peek sends a thread back to its search.
LEMMA SpeedInvStep ==
  ASSUME Inv, SpeedInv, [Next]_vars
  PROVE  SpeedInv'
<1> USE DEF Searching
\* A step that lists nothing and sends no thread back to its search.
<1>1. ASSUME UNCHANGED <<query, running, solutions>>,
             \A b \in Branches : pc'[b] \in Searching => pc[b] \in Searching
      PROVE  SpeedInv'
    BY <1>1 DEF SpeedInv
<1>2. ASSUME NEW b \in Branches, NEW label \in Labels, UNCHANGED <<query, running, solutions>>,
             pc' = [pc EXCEPT ![b] = label], pc[b] \in Searching \/ label \notin Searching
      PROVE  SpeedInv'
  <2>1. \A a \in Branches : pc'[a] \in Searching => pc[a] \in Searching
      BY <1>2 DEF Inv, ScalarInv
  <2> QED BY <1>1, <1>2, <2>1
<1>3. ASSUME NEW q \in Queries, Call(q) PROVE SpeedInv'
  <2>1. solutions' = <<>>
      BY <1>3 DEF Call
  <2> QED BY <2>1 DEF SpeedInv
<1>4. ASSUME NEW q \in Queries, Refuse(q) PROVE SpeedInv'
    BY <1>1, <1>4 DEF Refuse, listVars
<1>5. ASSUME NEW b \in Branches, CheckTime(b) \/ EnterSolver(b) \/ Find(b) \/ GiveUp(b)
                                 \/ Acquire(b) \/ TestUnique(b) \/ Rank(b) \/ Leave(b)
      PROVE  SpeedInv'
  <2>1. /\ UNCHANGED <<query, running, solutions>>
        /\ \E label \in Labels : /\ pc' = [pc EXCEPT ![b] = label]
                                 /\ pc[b] \in Searching \/ label \notin Searching
      BY <1>5 DEF CheckTime, EnterSolver, Find, GiveUp, Acquire, TestUnique, Rank, Leave, Goto,
                  callVars, listVars, Labels
  <2> QED BY <1>2, <2>1
<1>6. ASSUME NEW b \in Branches, Push(b) PROVE SpeedInv'
  <2>1. /\ pc[b] = "pushing" /\ pc' = [pc EXCEPT ![b] = "ranking"]
        /\ solutions' = Append(solutions, found[b])
        /\ UNCHANGED <<query, running>>
      BY <1>6 DEF Push, Goto, callVars
  <2>2. Len(solutions') = Len(solutions) + 1 /\ Len(solutions) \in Nat
      BY <2>1 DEF Inv, ListInv
  <2>3. pc'[b] \notin Searching /\ pc'[Other(b)] = pc[Other(b)]
      BY <2>1, OtherBranch DEF Inv, ScalarInv
  <2>4. CASE running /\ query.solve_type = "Speed"
    <3>1. Len(solutions) <= 1
        BY <2>1, <2>4 DEF SpeedInv
    <3>2. pc[Other(b)] \in Searching => Len(solutions) = 0
        BY <2>1, <2>4, OtherBranch DEF SpeedInv
    <3>3. Len(solutions') <= 2
        BY <2>2, <3>1
    <3>4. (\E a \in Branches : pc'[a] \in Searching) => Len(solutions') <= 1
        BY <2>2, <2>3, <3>2, OtherBranch
    <3>5. ~ \A a \in Branches : pc'[a] \in Searching
        BY <2>3
    <3> QED BY <3>3, <3>4, <3>5 DEF SpeedInv
  <2> QED BY <2>1, <2>4 DEF SpeedInv
<1>7. ASSUME NEW b \in Branches, Peek(b) PROVE SpeedInv'
  <2>1. UNCHANGED <<query, running, solutions>> /\ solutions \in Seq(Full)
      BY <1>7 DEF Peek, callVars, listVars, Inv, ListInv
  <2>2. CASE pc' = [pc EXCEPT ![b] = "leaving"]
      BY <1>2, <2>1, <2>2 DEF Labels
  <2>3. CASE query.solve_type # "Speed"
      BY <2>1, <2>3 DEF SpeedInv
  <2>4. CASE solutions = <<>>
      BY <2>1, <2>4 DEF SpeedInv
  <2>5. CASE PushUnpublished(b) /\ pc' = [pc EXCEPT ![b] = "checking"]
    <3>1. Len(solutions) = 1 /\ pc'[Other(b)] \notin Searching
        BY <2>5, OtherBranch DEF PushUnpublished, Inv, ScalarInv
    <3> QED BY <2>1, <3>1, OtherBranch DEF SpeedInv
  <2> QED BY <1>7, <2>2, <2>3, <2>4, <2>5 DEF Peek, StopsAtFirst, Goto
<1>8. CASE Tick
    BY <1>1, <1>8 DEF Tick, callVars, listVars
<1>9. CASE Return
    BY <1>9 DEF Return, SpeedInv
<1>10. CASE UNCHANGED vars
    BY <1>1, <1>10 DEF vars, callVars, listVars
<1> QED BY <1>3, <1>4, <1>5, <1>6, <1>7, <1>8, <1>9, <1>10 DEF Next, Run

\* A Speed call never collects more than one candidate for each thread.
THEOREM SpeedBounded == Spec => []SpeedStopsAtFirst
<1>1. Init => SpeedInv
    BY DEF Init, SpeedInv
<1>2. Inv /\ SpeedInv /\ [Next]_vars => SpeedInv'
    BY SpeedInvStep
<1>3. SpeedInv => SpeedStopsAtFirst
    BY TwoBranches DEF SpeedInv, SpeedStopsAtFirst
<1> QED BY <1>1, <1>2, <1>3, InvInvariant, PTL DEF Spec

\* Only CheckTime and Peek send a thread off, and only Leave sets a flag.
LEMMA AbortInvStep ==
  ASSUME Inv, AbortInv, [Next]_vars
  PROVE  AbortInv'
\* What justifies a flag lasts as long as the call.
<1>1. ASSUME NEW b \in Branches, NEW label \in Labels \ {"leaving"},
             pc' = [pc EXCEPT ![b] = label],
             UNCHANGED <<query, running, left, aborted>>,
             solutions # <<>> => solutions' # <<>>
      PROVE  AbortInv'
  <2>1. \A a \in Branches : pc'[a] = "leaving" => pc[a] = "leaving"
      BY <1>1 DEF Inv, ScalarInv
  <2> QED BY <1>1, <2>1 DEF AbortInv
<1>2. ASSUME NEW q \in Queries, Call(q) PROVE AbortInv'
  <2>1. \A b \in Branches : aborted'[b] = FALSE /\ pc'[b] # "leaving"
      BY <1>2 DEF Call, ResetSolvers
  <2> QED BY <2>1 DEF AbortInv
<1>3. ASSUME NEW q \in Queries, Refuse(q) PROVE AbortInv'
    BY <1>3 DEF Refuse, listVars, timeVars, AbortInv
<1>4. ASSUME NEW b \in Branches, CheckTime(b) PROVE AbortInv'
  <2>1. UNCHANGED <<query, running, solutions, left, aborted>>
      BY <1>4 DEF CheckTime, callVars, listVars
  <2>2. CASE left = 0
      BY <2>1, <2>2 DEF AbortInv
  <2>3. CASE left # 0
      BY <1>1, <1>4, <2>1, <2>3 DEF CheckTime, Goto, Labels
  <2> QED BY <2>2, <2>3
<1>5. ASSUME NEW b \in Branches, EnterSolver(b) \/ Find(b) \/ GiveUp(b) \/ Acquire(b)
                                 \/ TestUnique(b) \/ Rank(b)
      PROVE  AbortInv'
  <2>1. /\ UNCHANGED <<query, running, solutions, left, aborted>>
        /\ \E label \in Labels \ {"leaving"} : pc' = [pc EXCEPT ![b] = label]
      BY <1>5 DEF EnterSolver, Find, GiveUp, Acquire, TestUnique, Rank, Goto, Labels,
                  callVars, listVars, timeVars
  <2> QED BY <1>1, <2>1
<1>6. ASSUME NEW b \in Branches, Push(b) PROVE AbortInv'
  <2>1. /\ UNCHANGED <<query, running, left, aborted>>
        /\ solutions' = Append(solutions, found[b]) /\ pc' = [pc EXCEPT ![b] = "ranking"]
      BY <1>6 DEF Push, Goto, callVars, timeVars
  <2>2. solutions' # <<>>
      BY <2>1 DEF Inv, ListInv
  <2> QED BY <1>1, <2>1, <2>2 DEF Labels
<1>7. ASSUME NEW b \in Branches, Peek(b) PROVE AbortInv'
  <2>1. UNCHANGED <<query, running, solutions, left, aborted>>
      BY <1>7 DEF Peek, callVars, listVars, timeVars
  <2>2. CASE StopsAtFirst /\ solutions # <<>>
      BY <2>1, <2>2 DEF AbortInv, StopsAtFirst
  <2>3. CASE pc' = [pc EXCEPT ![b] = "checking"]
      BY <1>1, <2>1, <2>3 DEF Labels
  <2> QED BY <1>7, <2>2, <2>3 DEF Peek, Goto
<1>8. ASSUME NEW b \in Branches, Leave(b) PROVE AbortInv'
  <2>1. /\ UNCHANGED <<query, running, solutions, left>>
        /\ pc[b] = "leaving" /\ pc' = [pc EXCEPT ![b] = "joined"]
      BY <1>8 DEF Leave, Goto, callVars, listVars
  <2> QED BY <2>1 DEF AbortInv
<1>9. CASE Tick
  <2>1. /\ UNCHANGED <<query, running, solutions, aborted, pc>>
        /\ left = 0 => left' = 0
      BY <1>9 DEF Tick, callVars, listVars
  <2> QED BY <2>1 DEF AbortInv
<1>10. CASE Return
    BY <1>10 DEF Return, AbortInv
<1>11. CASE UNCHANGED vars
    BY <1>11 DEF vars, callVars, listVars, timeVars, AbortInv
<1> QED BY <1>2, <1>3, <1>4, <1>5, <1>6, <1>7, <1>8, <1>9, <1>10, <1>11 DEF Next, Run

\* An inner solver is aborted only in a call that is over for it.
THEOREM AbortsHaveReasons == Spec => []AbortsJustified
<1>1. Init => AbortInv
    BY DEF Init, AbortInv
<1>2. Inv /\ AbortInv /\ [Next]_vars => AbortInv'
    BY AbortInvStep
<1>3. AbortInv => AbortsJustified
    BY DEF AbortInv, AbortsJustified
<1> QED BY <1>1, <1>2, <1>3, InvInvariant, PTL DEF Spec

-----------------------------------------------------------------------------
(* The inner solvers outlive the call.                                     *)

\* The solvers are what a fresh build for the call's query would be.
SolverInv ==
  /\ solver = [lb |-> solver.lb, ub |-> solver.ub, eps |-> solver.eps]
  /\ NothingHidden

\* A reconfigured solver is a rebuilt one, as long as epsilon has no sign.
LEMMA ReconfiguredIsRebuilt ==
  ASSUME NEW s, s = [lb |-> s.lb, ub |-> s.ub, eps |-> s.eps],
         NEW lo, NEW hi, NEW epsilon \in Int, epsilon >= 0
  PROVE  Configured(s, lo, hi, epsilon) = Built(lo, hi, epsilon)
<1>1. Abs(epsilon) = epsilon
    BY DEF Abs
<1>2. [b \in Branches |-> Abs(epsilon)] = [KDL |-> epsilon, NLOPT |-> Abs(epsilon)]
    BY <1>1 DEF Branches
<1>3. CASE SameBounds(s.lb, lo) /\ SameBounds(s.ub, hi)
  <2>1. Configured(s, lo, hi, epsilon) = [s EXCEPT !.eps = [b \in Branches |-> Abs(epsilon)]]
      BY <1>3 DEF Configured
  <2>2. [s EXCEPT !.eps = [b \in Branches |-> Abs(epsilon)]]
        = [lb |-> s.lb, ub |-> s.ub, eps |-> [b \in Branches |-> Abs(epsilon)]]
      OBVIOUS
  <2> QED BY <1>2, <1>3, <2>1, <2>2 DEF SameBounds, Built
<1>4. CASE ~(SameBounds(s.lb, lo) /\ SameBounds(s.ub, hi))
    BY <1>4 DEF Configured
<1> QED BY <1>3, <1>4

\* When no epsilon is negative the threads solve with a function of the query.
THEOREM SolversAreOfTheQuery ==
  ASSUME \A q \in Queries : q.epsilon >= 0
  PROVE  Spec => []NothingHidden
<1>1. Init => SolverInv
    BY DEF Init, SolverInv, NothingHidden, Built
<1>2. Inv /\ SolverInv /\ [Next]_vars => SolverInv'
  <2> SUFFICES ASSUME Inv, SolverInv, [Next]_vars PROVE SolverInv'
      OBVIOUS
  <2>1. ASSUME UNCHANGED <<mech, solver, types, query, resolved, running>> PROVE SolverInv'
      BY <2>1 DEF SolverInv, NothingHidden
  <2>2. ASSUME NEW q \in Queries, Call(q) PROVE SolverInv'
    <3> DEFINE bounds == Resolve(mech, q)
    <3>1. /\ resolved' = [q_min |-> bounds.lb, q_max |-> bounds.ub] /\ query' = q /\ mech' = mech
          /\ solver' = Configured(solver, bounds.lb, bounds.ub, q.epsilon)
          /\ types' = Types(mech.kinds, bounds.lb, bounds.ub)
        BY <2>2 DEF Call
    <3> HIDE DEF bounds
    <3>2. q.epsilon \in Int
        BY QueriesAssumption DEF Askable
    <3>3. solver' = Built(bounds.lb, bounds.ub, q.epsilon)
        BY <3>1, <3>2, ReconfiguredIsRebuilt DEF SolverInv
    <3> QED BY <3>1, <3>3 DEF SolverInv, NothingHidden, Built
  <2>3. ASSUME NEW q \in Queries, Refuse(q) PROVE SolverInv'
      BY <2>1, <2>3 DEF Refuse, solverVars
  <2>4. ASSUME NEW b \in Branches, Run(b) PROVE SolverInv'
      BY <2>1, <2>4 DEF Run, CheckTime, EnterSolver, Find, GiveUp, Acquire, TestUnique, Push,
                        Rank, Peek, Leave, solverVars, callVars
  <2>5. CASE Tick
      BY <2>1, <2>5 DEF Tick, solverVars, callVars
  <2>6. CASE Return
      BY <2>6 DEF Return, solverVars, SolverInv, NothingHidden
  <2>7. CASE UNCHANGED vars
      BY <2>1, <2>7 DEF vars, solverVars, callVars
  <2> QED BY <2>2, <2>3, <2>4, <2>5, <2>6, <2>7 DEF Next
<1>3. SolverInv => NothingHidden
    BY DEF SolverInv
<1> QED BY <1>1, <1>2, <1>3, InvInvariant, PTL DEF Spec

=============================================================================
