---------------------------- MODULE KdlBranchProofs ----------------------------
(***************************************************************************)
(* The Newton branch is an inner solver, for every problem, every velocity *)
(* step and every seed.                                                    *)
(***************************************************************************)
EXTENDS KdlBranch, ChainLemmas

\* A joint is brought back inside limits of any width, however far it went.
LEMMA ConfinedInside ==
  ASSUME NEW type, NEW x \in Int, NEW l \in Int, NEW h \in Int, l <= h, NEW rev \in Nat \ {0}
  PROVE  Confine(type, x, l, h, rev) \in l..h
<1> DEFINE r == RaiseTo(type, x, l, h, rev)
<1>1. r \in Int /\ r >= l
  <2>1. CASE x >= l
      BY <2>1 DEF RaiseTo
  <2>2. CASE x < l
    <3>1. (l - x) % rev \in 0..(rev - 1)
        BY <2>2
    <3> QED BY <2>2, <3>1 DEF RaiseTo
  <2> QED BY <2>1, <2>2
<1> HIDE DEF r
<1>2. LowerTo(type, r, l, h, rev) \in l..h
  <2>1. CASE r <= h
      BY <1>1, <2>1 DEF LowerTo
  <2>2. CASE r > h
    <3>1. (r - h) % rev \in 0..(rev - 1)
        BY <1>1, <2>2
    <3> QED BY <1>1, <2>2, <3>1 DEF LowerTo
  <2> QED BY <1>1, <2>1, <2>2
<1> QED BY <1>2 DEF Confine, r

-----------------------------------------------------------------------------
Confs(p) == [Active(p.couplings) -> Int]

InsideLimits(p, c) ==
  \A i \in Inner!Limited(p) : p.lb[i] <= c[i] /\ c[i] <= p.ub[i]

\* The iterate has a position for each active joint, and it is inside the
\* limits but for a seed that has not been moved.
Inv ==
  /\ problem \in Problems
  /\ pc \in {"idle", "judging", "stepping", "stepped"}
  /\ left \in Nat
  /\ pc # "idle" => /\ seed \in [DOMAIN problem.kinds -> Int]
                    /\ q \in Confs(problem)
                    /\ rc = 0
  /\ pc = "judging" => q = Reduce(problem.couplings, seed) \/ InsideLimits(problem, q)
  /\ pc = "stepped" => InsideLimits(problem, q)

\* The operators InnerSolve brings are the ones of this module.
LEMMA SameOperators ==
  /\ \A d : Inner!Active(d) = Active(d)
  /\ \A d, full : Inner!RebuildMimicEntries(d, full) = RebuildMimicEntries(d, full)
BY DEF Inner!Active, Active, Inner!IsMimic, IsMimic, Inner!Own, Own,
       Inner!RebuildMimicEntries, RebuildMimicEntries, Inner!Expand, Expand,
       Inner!Reduce, Reduce, Inner!Couple, Couple

\* What the problems are.
LEMMA ProblemFacts ==
  ASSUME NEW p \in Problems
  PROVE  /\ p.kinds \in Seq({"Rot", "Trans"})
         /\ p.couplings \in Seq(Coupling) /\ Valid(p.couplings)
         /\ DOMAIN p.couplings = DOMAIN p.kinds
         /\ Active(p.couplings) \subseteq DOMAIN p.kinds
         /\ Inner!Limited(p) \subseteq Active(p.couplings)
         /\ \A i \in DOMAIN p.kinds :
              p.lb[i] \in Int /\ p.ub[i] \in Int /\ p.lb[i] <= p.ub[i] /\ p.rev[i] \in Nat \ {0}
BY ProblemsAssumption, SameOperators DEF Searchable, Active, Inner!Limited

\* A velocity step ends inside the limits.
LEMMA StepsInside ==
  ASSUME NEW p \in Problems, NEW raw \in Confs(p)
  PROVE  Confined(p, raw) \in Confs(p) /\ InsideLimits(p, Confined(p, raw))
<1> DEFINE c == Confined(p, raw)
<1>1. ASSUME NEW i \in Active(p.couplings)
      PROVE  /\ c[i] \in Int
             /\ i \in Inner!Limited(p) => p.lb[i] <= c[i] /\ c[i] <= p.ub[i]
  <2>1. /\ raw[i] \in Int /\ p.lb[i] \in Int /\ p.ub[i] \in Int /\ p.lb[i] <= p.ub[i]
        /\ p.rev[i] \in Nat \ {0}
      BY ProblemFacts DEF Confs
  <2>2. CASE Inner!Kinds(p)[i] = "Continuous"
      BY <2>1, <2>2 DEF Confined, Inner!Limited
  <2>3. CASE Inner!Kinds(p)[i] # "Continuous"
    <3>1. c[i] = Confine(Inner!Kinds(p)[i], raw[i], p.lb[i], p.ub[i], p.rev[i])
        BY <2>3 DEF Confined
    <3>2. c[i] \in p.lb[i]..p.ub[i]
        BY <2>1, <3>1, ConfinedInside
    <3> QED BY <2>1, <3>2
  <2> QED BY <2>2, <2>3
<1>2. c \in Confs(p)
    BY <1>1 DEF Confs, Confined
<1> QED BY <1>1, <1>2, ProblemFacts DEF InsideLimits

\* So does a restart, from anywhere.
LEMMA RestartsInside ==
  ASSUME NEW p \in Problems, NEW from \in Confs(p), NEW c \in Restarts(p, from)
  PROVE  c \in Confs(p) /\ InsideLimits(p, c)
<1>1. ASSUME NEW i \in Active(p.couplings)
      PROVE  /\ c[i] \in Int
             /\ i \in Inner!Limited(p) => p.lb[i] <= c[i] /\ c[i] <= p.ub[i]
  <2>1. /\ from[i] \in Int /\ p.lb[i] \in Int /\ p.ub[i] \in Int /\ p.rev[i] \in Nat \ {0}
      BY ProblemFacts DEF Confs
  <2>2. c[i] \in Sample(p, i, from[i])
      BY DEF Restarts
  <2> QED BY <2>1, <2>2 DEF Sample, Inner!Limited
<1>2. c \in Confs(p)
    BY <1>1 DEF Confs, Restarts
<1> QED BY <1>1, <1>2, ProblemFacts DEF InsideLimits

-----------------------------------------------------------------------------
\* The invariant holds throughout.
LEMMA InvInvariant == SafeSpec => []Inv
<1>1. Init => Inv
    BY DEF Init, Inv
<1>2. Inv /\ [Next]_vars => Inv'
  <2> SUFFICES ASSUME Inv, [Next]_vars PROVE Inv'
      OBVIOUS
  <2>1. ASSUME NEW s \in [DOMAIN problem.kinds -> SeedPositions], Begin(s) PROVE Inv'
    <3>1. s \in [DOMAIN problem.kinds -> Int]
        BY SearchAssumption
    <3>2. Reduce(problem.couplings, s) \in Confs(problem)
        BY <3>1, ProblemFacts DEF Reduce, Confs, Inv
    <3> QED BY <2>1, <3>1, <3>2, SearchAssumption DEF Begin, Inv
  <2>2. CASE Judge
      BY <2>2 DEF Judge, Inv
  <2>3. CASE Step
    <3>1. PICK raw \in [Active(problem.couplings) -> Reach] :
            LET curr == Confined(problem, raw) IN
            IF curr = q THEN q' \in Restarts(problem, curr) ELSE q' = curr
        BY <2>3 DEF Step
    <3>2. raw \in Confs(problem)
        BY SearchAssumption DEF Confs
    <3>3. q' \in Confs(problem) /\ InsideLimits(problem, q')
        BY <3>1, <3>2, StepsInside, RestartsInside DEF Inv
    <3> QED BY <2>3, <3>3 DEF Step, Inv, InsideLimits
  <2>4. CASE Again
      BY <2>4 DEF Again, Inv, InsideLimits
  <2>5. CASE Tick
      BY <2>5 DEF Tick, Inv, InsideLimits
  <2>6. CASE Abort \/ Reset \/ UNCHANGED vars
      BY <2>6 DEF Abort, Reset, vars, Inv, InsideLimits
  <2> QED BY <2>1, <2>2, <2>3, <2>4, <2>5, <2>6 DEF Next, Loop
<1> QED BY <1>1, <1>2, PTL DEF SafeSpec

\* Only the seed is ever judged outside the limits.
THEOREM OnlySeedOutside == SafeSpec => []IteratesInside
<1>1. Inv => IteratesInside
    BY DEF Inv, IteratesInside, InsideLimits
<1> QED BY <1>1, InvInvariant, PTL

-----------------------------------------------------------------------------
\* Writing the mimic entries back into an expanded configuration is idle.
LEMMA Rebuilt ==
  ASSUME NEW p \in Problems, NEW r \in Confs(p)
  PROVE  LET c == Expand(p.couplings, r) IN
         /\ c \in [DOMAIN p.kinds -> Int]
         /\ Reduce(p.couplings, c) = r
         /\ RebuildMimicEntries(p.couplings, c) = c
<1> DEFINE d == p.couplings
           c == Expand(d, r)
<1>1. c \in [DOMAIN p.kinds -> Int]
    BY ProblemFacts, ExpandTyped DEF Confs
<1>2. \A i \in Active(d) : c[i] = r[i]
    BY DEF Expand, Active
<1>3. Reduce(d, c) = r
    BY <1>2 DEF Reduce, Confs
<1>4. RebuildMimicEntries(d, c) = c
    BY <1>3 DEF RebuildMimicEntries
<1> QED BY <1>1, <1>3, <1>4

\* An iterate that reaches the goal is an answer.
LEMMA JudgedAnswers ==
  ASSUME Inv, pc = "judging", Reaches(problem, q)
  PROVE  Expand(problem.couplings, q) \in Inner!Answers(problem, seed)
<1> DEFINE c == Expand(problem.couplings, q)
<1>1. /\ problem \in Problems /\ q \in Confs(problem)
      /\ q = Reduce(problem.couplings, seed) \/ InsideLimits(problem, q)
    BY DEF Inv
<1>2. /\ c \in [DOMAIN problem.kinds -> Int]
      /\ RebuildMimicEntries(problem.couplings, c) = c
    BY <1>1, Rebuilt
<1>3. Residual(problem.goal, c) < problem.eps
    BY DEF Reaches
<1>4. CASE q = Reduce(problem.couplings, seed)
  <2>1. c = RebuildMimicEntries(problem.couplings, seed)
      BY <1>4 DEF RebuildMimicEntries
  <2> HIDE DEF c
  <2>2. c \in Inner!Answers(problem, seed)
      BY <1>2, <1>3, <2>1, SameOperators DEF Inner!Answers
  <2> QED BY <2>2 DEF c
<1>5. CASE InsideLimits(problem, q)
  <2>1. ASSUME NEW i \in Inner!Limited(problem)
        PROVE  problem.lb[i] <= c[i] /\ c[i] <= problem.ub[i] + 0
    <3>1. i \in Active(problem.couplings) /\ i \in DOMAIN problem.couplings
        BY <1>1, ProblemFacts
    <3>2. c[i] = q[i]
        BY <3>1 DEF Expand, Active
    <3>3. problem.ub[i] \in Int
        BY <1>1, <3>1, ProblemFacts
    <3> QED BY <1>5, <3>2, <3>3 DEF InsideLimits
  <2>2. Inner!WithinLimits(problem, 0, c)
      BY <2>1 DEF Inner!WithinLimits
  <2> HIDE DEF c
  <2>3. c \in Inner!Answers(problem, seed)
      BY <1>2, <1>3, <2>2, SameOperators DEF Inner!Answers
  <2> QED BY <2>3 DEF c
<1> QED BY <1>1, <1>4, <1>5

\* To the racer the Newton branch is an inner solver: what it returns answers
\* the problem, and it gives up only when its time is over or it was aborted.
THEOREM IsInnerSolver == SafeSpec => Implements
<1>1. Init => Inner!Init
    BY DEF Init, Inner!Init, Inner!Nothing
<1>2. Inv /\ [Next]_vars => [Inner!Next]_Inner!vars
  <2> SUFFICES ASSUME Inv, [Next]_vars PROVE [Inner!Next]_Inner!vars
      OBVIOUS
  <2> USE DEF Inner!Nothing
  <2>1. ASSUME NEW s \in [DOMAIN problem.kinds -> SeedPositions], Begin(s)
        PROVE  Inner!Begin \/ Inner!Refuse
    <3>1. s \in [DOMAIN problem.kinds -> Int]
        BY SearchAssumption
    <3>2. Inner!Seeded
        BY <2>1, <3>1, SearchAssumption DEF Begin, Inner!Seeded
    <3>3. CASE aborted
        BY <2>1, <3>2, <3>3 DEF Begin, Inner!Refuse
    <3>4. CASE ~aborted
        BY <2>1, <3>2, <3>4 DEF Begin, Inner!Begin
    <3> QED BY <3>3, <3>4
  <2>2. CASE Judge
    <3>1. CASE Reaches(problem, q)
      <4>1. q_out' \in Inner!Answers(problem, seed)
          BY <2>2, <3>1, JudgedAnswers DEF Judge
      <4>2. Inner!Succeed
          BY <2>2, <3>1, <4>1 DEF Judge, Inner!Succeed
      <4> QED BY <4>2 DEF Inner!Next
    <3>2. CASE ~Reaches(problem, q)
        BY <2>2, <3>2 DEF Judge, Inner!vars
    <3> QED BY <3>1, <3>2
  <2>3. CASE Step
      BY <2>3 DEF Step, Inner!vars
  <2>4. CASE Again
    <3>1. CASE left > 0 /\ ~aborted
        BY <2>4, <3>1 DEF Again, Inner!vars
    <3>2. CASE ~(left > 0 /\ ~aborted)
      <4>1. Inner!GiveUp
          BY <2>4, <3>2 DEF Again, Inv, Inner!GiveUp
      <4> QED BY <4>1 DEF Inner!Next
    <3> QED BY <3>1, <3>2
  <2>5. CASE Tick
      BY <2>5 DEF Tick, Inner!Tick, Inner!Next
  <2>6. CASE Abort
      BY <2>6 DEF Abort, Inner!Abort, Inner!Next
  <2>7. CASE Reset
      BY <2>7 DEF Reset, Inner!Reset, Inner!Next
  <2>8. CASE UNCHANGED vars
      BY <2>8 DEF vars, Inner!vars
  <2> QED BY <2>1, <2>2, <2>3, <2>4, <2>5, <2>6, <2>7, <2>8 DEF Next, Loop, Inner!Next
<1> QED BY <1>1, <1>2, InvInvariant, PTL DEF SafeSpec, Implements, Inner!Spec

=============================================================================
