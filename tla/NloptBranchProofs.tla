--------------------------- MODULE NloptBranchProofs ---------------------------
(***************************************************************************)
(* The optimising branch is an inner solver, for every problem, seed and   *)
(* every order in which NLopt evaluates its objective.                     *)
(***************************************************************************)
EXTENDS NloptBranch, ChainLemmas

Confs(p) == [Active(p.couplings) -> Int]

\* The operators InnerSolve brings are the ones of this module.
LEMMA SameOperators ==
  /\ \A d : Inner!Active(d) = Active(d)
  /\ \A d, full : Inner!RebuildMimicEntries(d, full) = RebuildMimicEntries(d, full)
BY DEF Inner!Active, Active, Inner!IsMimic, IsMimic, Inner!Own, Own,
       Inner!RebuildMimicEntries, RebuildMimicEntries, Inner!Expand, Expand,
       Inner!Reduce, Reduce, Inner!Couple, Couple

\* What the problems are.
LEMMA ProblemFacts ==
  ASSUME NEW p \in Problems
  PROVE  /\ p.couplings \in Seq(Coupling) /\ Valid(p.couplings)
         /\ DOMAIN p.couplings = DOMAIN p.kinds
         /\ Active(p.couplings) \subseteq DOMAIN p.kinds
         /\ Inner!Limited(p) \subseteq Active(p.couplings)
         /\ \A i \in DOMAIN p.kinds :
              p.lb[i] \in Int /\ p.ub[i] \in Int /\ p.lb[i] <= p.ub[i] /\ p.rev[i] \in Nat \ {0}
BY ProblemsAssumption, SameOperators DEF Searchable, Active, Inner!Limited

\* The larger and the smaller of two numbers.
LEMMA LargerSmaller ==
  ASSUME NEW a \in Int, NEW b \in Int
  PROVE  /\ Max({a, b}) \in {a, b} /\ Max({a, b}) >= a /\ Max({a, b}) >= b
         /\ Min({a, b}) \in {a, b} /\ Min({a, b}) <= a /\ Min({a, b}) <= b
<1>1. {a, b} = {a} \cup {b}
    OBVIOUS
<1>2. IsFiniteSet({a, b})
  <2>1. IsFiniteSet({a} \cup {b})
      BY FS_Singleton, FS_AddElement
  <2> QED BY <1>1, <2>1
<1>3. {a, b} \in SUBSET Int /\ {a, b} # {}
    OBVIOUS
<1> QED BY <1>2, <1>3, MaxProperty, MinProperty

\* A value from anywhere is brought inside limits of any width.
LEMMA BroughtInside ==
  ASSUME NEW type, NEW x \in Int, NEW l \in Int, NEW h \in Int, l <= h, NEW rev \in Nat \ {0}
  PROVE  /\ IntoLimits(type, x, l, h, rev) \in Int
         /\ type # "Continuous" => IntoLimits(type, x, l, h, rev) \in l..h
<1> DEFINE low == IF x > h THEN h + ((x - h) % rev) - rev ELSE x
           w   == NormalizeAngle(x, l, h, rev)
<1>1. low \in Int
    OBVIOUS
<1>2. w = IF low < l THEN l - ((l - low) % rev) + rev ELSE low
    BY DEF NormalizeAngle
<1> HIDE DEF low
<1>3. w \in Int /\ w >= l
  <2>1. CASE low < l
    <3>1. (l - low) % rev \in 0..(rev - 1)
        BY <1>1, <2>1
    <3> QED BY <1>1, <1>2, <2>1, <3>1
  <2>2. CASE ~(low < l)
      BY <1>1, <1>2, <2>2
  <2> QED BY <2>1, <2>2
<1> HIDE DEF w
<1>4. (h + l) \div 2 \in l..h
    OBVIOUS
<1>5. CASE type = "Continuous"
    BY <1>5 DEF IntoLimits
<1>6. CASE type = "Trans"
  <2> DEFINE clipped == Min({x, h})
             y   == Max({l, clipped})
  <2>1. clipped \in Int /\ clipped <= h
      BY LargerSmaller
  <2> HIDE DEF clipped
  <2>2. y \in {l, clipped} /\ y >= l
      BY <2>1, LargerSmaller
  <2>3. IntoLimits(type, x, l, h, rev) = y
      BY <1>6 DEF IntoLimits, clipped
  <2> HIDE DEF y
  <2> QED BY <2>1, <2>2, <2>3
<1>7. CASE type # "Continuous" /\ type # "Trans"
  <2>1. IntoLimits(type, x, l, h, rev) = IF w > h THEN (h + l) \div 2 ELSE w
      BY <1>7 DEF IntoLimits, w
  <2> QED BY <1>3, <1>4, <2>1
<1> QED BY <1>5, <1>6, <1>7

-----------------------------------------------------------------------------
\* A box of numbers, inside the limits, with a point in it.
GoodBox(p, b, x) ==
  /\ x \in Confs(p)
  /\ \A i \in Active(p.couplings) :
       /\ b[i].lo \in Int /\ b[i].hi \in Int
       /\ b[i].lo <= x[i] /\ x[i] <= b[i].hi
       /\ i \in Inner!Limited(p) => p.lb[i] <= b[i].lo /\ b[i].hi <= p.ub[i]

\* The start of a solve is inside the limits, and in the middle of its box.
LEMMA StartGood ==
  ASSUME NEW p \in Problems, NEW s \in [DOMAIN p.kinds -> Int]
  PROVE  GoodBox(p, BoxAround(p, StartFrom(p, s)), StartFrom(p, s))
<1> DEFINE x == StartFrom(p, s)
           b == BoxAround(p, x)
<1>1. ASSUME NEW i \in Active(p.couplings)
      PROVE  /\ x[i] \in Int
             /\ b[i].lo \in Int /\ b[i].hi \in Int
             /\ b[i].lo <= x[i] /\ x[i] <= b[i].hi
             /\ i \in Inner!Limited(p) => p.lb[i] <= b[i].lo /\ b[i].hi <= p.ub[i]
  <2> DEFINE type == Inner!Kinds(p)[i]
  <2>1. /\ s[i] \in Int /\ p.lb[i] \in Int /\ p.ub[i] \in Int /\ p.lb[i] <= p.ub[i]
        /\ p.rev[i] \in Nat \ {0}
      BY ProblemFacts
  <2>2. x[i] = IntoLimits(type, s[i], p.lb[i], p.ub[i], p.rev[i])
      BY DEF StartFrom
  <2>3. x[i] \in Int /\ (type # "Continuous" => x[i] \in p.lb[i]..p.ub[i])
      BY <2>1, <2>2, BroughtInside
  <2>4. b[i] = CASE type = "Continuous" -> [lo |-> x[i] - p.rev[i], hi |-> x[i] + p.rev[i]]
                 [] type = "Trans"      -> [lo |-> p.lb[i], hi |-> p.ub[i]]
                 [] OTHER               -> [lo |-> Max({p.lb[i], x[i] - p.rev[i]}),
                                            hi |-> Min({p.ub[i], x[i] + p.rev[i]})]
      BY DEF BoxAround
  <2>5. i \in Inner!Limited(p) => type # "Continuous"
      BY DEF Inner!Limited
  <2> HIDE DEF x, b, type
  <2>6. CASE type = "Continuous"
      BY <2>1, <2>3, <2>4, <2>5, <2>6
  <2>7. CASE type = "Trans"
      BY <2>1, <2>3, <2>4, <2>7
  <2>8. CASE type # "Continuous" /\ type # "Trans"
    <3>1. b[i].lo = Max({p.lb[i], x[i] - p.rev[i]}) /\ b[i].hi = Min({p.ub[i], x[i] + p.rev[i]})
        BY <2>4, <2>8
    <3>2. x[i] - p.rev[i] \in Int /\ x[i] + p.rev[i] \in Int
        BY <2>1, <2>3
    <3>3. /\ b[i].lo \in {p.lb[i], x[i] - p.rev[i]} /\ b[i].lo >= p.lb[i]
          /\ b[i].hi \in {p.ub[i], x[i] + p.rev[i]} /\ b[i].hi <= p.ub[i]
        BY <2>1, <3>1, <3>2, LargerSmaller
    <3> QED BY <2>1, <2>3, <2>8, <3>2, <3>3
  <2> QED BY <2>6, <2>7, <2>8
<1>2. x \in Confs(p)
    BY <1>1 DEF Confs, StartFrom
<1> QED BY <1>1, <1>2 DEF GoodBox

\* A point of a good box is one it is good for.
LEMMA PointGood ==
  ASSUME NEW p \in Problems, NEW b, NEW x, GoodBox(p, b, x), NEW y \in PointsOf(p, b)
  PROVE  GoodBox(p, b, y)
<1>1. ASSUME NEW i \in Active(p.couplings)
      PROVE  y[i] \in Int /\ b[i].lo <= y[i] /\ y[i] <= b[i].hi
    BY DEF GoodBox, PointsOf
<1>2. y \in Confs(p)
    BY <1>1 DEF Confs, PointsOf
<1> QED BY <1>1, <1>2 DEF GoodBox

InsideOver(p, c) ==
  \A i \in Inner!Limited(p) : p.lb[i] <= c[i] /\ c[i] <= p.ub[i] + Jump

\* The objective is evaluated inside the limits but for the jump.
LEMMA EvaluatedInside ==
  ASSUME NEW p \in Problems, NEW b, NEW x, GoodBox(p, b, x), NEW y \in Evaluated(p, b)
  PROVE  y \in Confs(p) /\ InsideOver(p, y)
<1>1. ASSUME NEW z \in PointsOf(p, b)
      PROVE  /\ z \in Confs(p)
             /\ \A i \in Inner!Limited(p) :
                  p.lb[i] <= z[i] /\ z[i] <= p.ub[i] /\ i \in Active(p.couplings)
                  /\ z[i] \in Int /\ p.lb[i] \in Int /\ p.ub[i] \in Int
  <2>1. GoodBox(p, b, z)
      BY PointGood
  <2> QED BY <2>1, ProblemFacts DEF GoodBox, Confs
<1>2. CASE y \in PointsOf(p, b)
    BY <1>1, <1>2, SearchAssumption DEF InsideOver
<1>3. ASSUME NEW z \in PointsOf(p, b), NEW k \in Active(p.couplings),
             y = [z EXCEPT ![k] = z[k] + Jump]
      PROVE  y \in Confs(p) /\ InsideOver(p, y)
  <2>1. y \in Confs(p)
      BY <1>1, <1>3, SearchAssumption DEF Confs
  <2>2. ASSUME NEW i \in Inner!Limited(p)
        PROVE  p.lb[i] <= y[i] /\ y[i] <= p.ub[i] + Jump
    <3>1. y[i] = z[i] \/ y[i] = z[i] + Jump
        BY <1>1, <1>3 DEF Confs
    <3> QED BY <1>1, <3>1, SearchAssumption
  <2> QED BY <2>1, <2>2 DEF InsideOver
<1> QED BY <1>2, <1>3 DEF Evaluated

-----------------------------------------------------------------------------
\* During a solve the box is a good one, and best_x answers once progress says
\* so.  That a pose was not a number is forgotten before the attempt is judged.
Inv ==
  /\ problem \in Problems
  /\ pc \in {"idle", "optimizing", "deciding"}
  /\ left \in Nat
  /\ progress \in {-3, -1, 1}
  /\ pc # "idle" => /\ seed \in [DOMAIN problem.kinds -> Int]
                    /\ best_x \in Confs(problem)
                    /\ GoodBox(problem, box, start)
                    /\ rc = 0
  /\ pc # "idle" /\ progress = 1 => Reaches(problem, best_x) /\ InsideOver(problem, best_x)
  /\ pc = "deciding" => progress # -1

\* The invariant holds throughout.
LEMMA InvInvariant == SafeSpec => []Inv
<1>1. Init => Inv
    BY DEF Init, Inv
<1>2. Inv /\ [Next]_vars => Inv'
  <2> SUFFICES ASSUME Inv, [Next]_vars PROVE Inv'
      OBVIOUS
  <2>1. ASSUME NEW s \in [DOMAIN problem.kinds -> SeedPositions], Begin(s) PROVE Inv'
    <3>1. s \in [DOMAIN problem.kinds -> Int]
        BY SearchAssumption
    <3>2. CASE Cardinality(Active(problem.couplings)) < 2
        BY <2>1, <3>2, SearchAssumption DEF Begin, searchVars, Inv
    <3>3. CASE ~(Cardinality(Active(problem.couplings)) < 2)
      <4>1. GoodBox(problem, BoxAround(problem, StartFrom(problem, s)), StartFrom(problem, s))
          BY <3>1, StartGood DEF Inv
      <4>2. GoodBox(problem, box', start') /\ best_x' \in Confs(problem)
          BY <2>1, <3>3, <4>1 DEF Begin, GoodBox
      <4> QED BY <2>1, <3>1, <3>3, <4>2, SearchAssumption DEF Begin, Inv
    <3> QED BY <3>2, <3>3
  <2>2. CASE Stop
      BY <2>2 DEF Stop, Unmoved, Inv, InsideOver, Reaches
  <2>3. CASE NotANumber
      BY <2>3 DEF NotANumber, Unmoved, Searching, Inv
  <2>4. CASE Hit
    <3>1. PICK x \in Evaluated(problem, box) : Reaches(problem, x) /\ best_x' = x
        BY <2>4 DEF Hit
    <3>2. GoodBox(problem, box, start)
        BY <2>4 DEF Hit, Inv
    <3>3. x \in Confs(problem) /\ InsideOver(problem, x)
        BY <3>2, EvaluatedInside DEF Inv
    <3> QED BY <2>4, <3>1, <3>3 DEF Hit, Unmoved, Inv
  <2>5. CASE Optimized
      BY <2>5 DEF Optimized, Inv
  <2>6. CASE Decide
    <3>1. CASE left > 0 /\ ~aborted /\ progress < 0
      <4>1. GoodBox(problem, box, start')
          BY <2>6, <3>1, PointGood DEF Decide, Inv
      <4> QED BY <2>6, <3>1, <4>1 DEF Decide, Inv
    <3>2. CASE ~(left > 0 /\ ~aborted /\ progress < 0)
        BY <2>6, <3>2 DEF Decide, Inv
    <3> QED BY <3>1, <3>2
  <2>7. CASE Tick
      BY <2>7 DEF Tick, searchVars, Inv
  <2>8. CASE Abort \/ Reset
      BY <2>8 DEF Abort, Reset, searchVars, Inv
  <2>9. CASE UNCHANGED vars
      BY <2>9 DEF vars, searchVars, Inv
  <2> QED BY <2>1, <2>2, <2>3, <2>4, <2>5, <2>6, <2>7, <2>8, <2>9 DEF Next
<1> QED BY <1>1, <1>2, PTL DEF SafeSpec

\* No start NLopt is given lies outside the box it was given.
THEOREM StartsInside == SafeSpec => []StartsInBox
<1>1. Inv => StartsInBox
    BY DEF Inv, StartsInBox, GoodBox
<1> QED BY <1>1, InvInvariant, PTL

\* Once the objective has reached the goal, its point is what the solve returns.
THEOREM HitIsKept == SafeSpec => HitKept
<1>1. Inv /\ [Next]_vars =>
        (pc # "idle" /\ progress = 1 =>
           progress' = 1 /\ best_x' = best_x /\ (pc' = "idle" => rc' = 1))
  <2> SUFFICES ASSUME Inv, [Next]_vars, pc # "idle", progress = 1
               PROVE  progress' = 1 /\ best_x' = best_x /\ (pc' = "idle" => rc' = 1)
      OBVIOUS
  <2>1. CASE \E s \in [DOMAIN problem.kinds -> SeedPositions] : Begin(s)
      BY <2>1 DEF Begin
  <2>2. CASE Stop \/ NotANumber \/ Hit
      BY <2>2 DEF Stop, NotANumber, Hit, Searching, Unmoved
  <2>3. CASE Optimized \/ Decide
      BY <2>3 DEF Optimized, Decide
  <2>4. CASE Tick \/ Abort \/ Reset
      BY <2>4 DEF Tick, Abort, Reset, searchVars
  <2>5. CASE UNCHANGED vars
      BY <2>5 DEF vars, searchVars
  <2> QED BY <2>1, <2>2, <2>3, <2>4, <2>5 DEF Next
<1> QED BY <1>1, InvInvariant, PTL DEF SafeSpec, HitKept

\* No retry begins with the code or the flag that ended the attempt before.
THEOREM RetriesAfresh == SafeSpec => RetriesSearch
<1>1. Inv /\ [Next]_vars =>
        (pc = "deciding" /\ pc' = "optimizing" => progress' = -3 /\ ~stopped')
  <2> SUFFICES ASSUME Inv, [Next]_vars, pc = "deciding", pc' = "optimizing"
               PROVE  progress' = -3 /\ ~stopped'
      OBVIOUS
  <2>1. CASE Decide
      BY <2>1 DEF Decide, Inv
  <2>2. CASE Tick \/ Abort \/ Reset \/ UNCHANGED vars
      BY <2>2 DEF Tick, Abort, Reset, vars
  <2>3. CASE Stop \/ NotANumber \/ Hit \/ Optimized
      BY <2>3 DEF Stop, NotANumber, Hit, Optimized
  <2>4. CASE \E s \in [DOMAIN problem.kinds -> SeedPositions] : Begin(s)
      BY <2>4 DEF Begin
  <2> QED BY <2>1, <2>2, <2>3, <2>4 DEF Next
<1> QED BY <1>1, InvInvariant, PTL DEF SafeSpec, RetriesSearch

-----------------------------------------------------------------------------
\* What a solve that has hit returns is an answer.
LEMMA HitAnswers ==
  ASSUME Inv, pc # "idle", progress = 1
  PROVE  Expand(problem.couplings, best_x) \in Inner!Answers(problem, seed)
<1> DEFINE c == Expand(problem.couplings, best_x)
<1>1. /\ problem \in Problems /\ best_x \in Confs(problem)
      /\ InsideOver(problem, best_x) /\ Reaches(problem, best_x)
    BY DEF Inv
<1>2. c \in [DOMAIN problem.kinds -> Int]
    BY <1>1, ProblemFacts, ExpandTyped DEF Confs
<1>3. \A i \in Active(problem.couplings) : c[i] = best_x[i]
    BY DEF Expand, Active
<1>4. Reduce(problem.couplings, c) = best_x
    BY <1>1, <1>3 DEF Reduce, Confs
<1>5. RebuildMimicEntries(problem.couplings, c) = c
    BY <1>4 DEF RebuildMimicEntries
<1>6. Residual(problem.goal, c) < problem.eps
    BY <1>1 DEF Reaches
<1> HIDE DEF c
<1>7. Inner!WithinLimits(problem, Jump, c)
    BY <1>1, <1>3, ProblemFacts DEF InsideOver, Inner!WithinLimits
<1>8. c \in Inner!Answers(problem, seed)
    BY <1>2, <1>5, <1>6, <1>7, SameOperators DEF Inner!Answers
<1> QED BY <1>8 DEF c

\* To the racer the optimising branch is an inner solver: what it returns
\* answers the problem, and it gives up only when its time is over or it was
\* aborted.
THEOREM IsInnerSolver == SafeSpec => Implements
<1>1. Init => Inner!Init
    BY DEF Init, Inner!Init, Inner!Nothing
<1>2. Inv /\ [Next]_vars => [Inner!Next]_Inner!vars
  <2> SUFFICES ASSUME Inv, [Next]_vars PROVE [Inner!Next]_Inner!vars
      OBVIOUS
  <2> USE DEF Inner!Nothing
  <2>1. ASSUME NEW s \in [DOMAIN problem.kinds -> SeedPositions], Begin(s)
        PROVE  Inner!Begin \/ Inner!Refuse
    <3>1. s \in [DOMAIN problem.kinds -> Int]
        BY SearchAssumption
    <3>2. Inner!Seeded
        BY <2>1, <3>1, SearchAssumption DEF Begin, Inner!Seeded
    <3>3. CASE Cardinality(Active(problem.couplings)) < 2
      <4>1. Inner!Cardinality(Inner!Active(problem.couplings)) < 2
          BY <3>3, SameOperators DEF Inner!Cardinality, Cardinality
      <4> QED BY <2>1, <3>2, <3>3, <4>1 DEF Begin, searchVars, Inner!Refuse
    <3>4. CASE ~(Cardinality(Active(problem.couplings)) < 2)
        BY <2>1, <3>2, <3>4 DEF Begin, Inner!Begin
    <3> QED BY <3>3, <3>4
  <2>2. CASE Stop \/ NotANumber
      BY <2>2 DEF Stop, NotANumber, Unmoved, Inner!vars
  <2>3. CASE Hit
      BY <2>3 DEF Hit, Unmoved, Inner!vars
  <2>4. CASE Optimized
      BY <2>4 DEF Optimized, Inner!vars
  <2>5. CASE Decide
    <3>1. CASE left > 0 /\ ~aborted /\ progress < 0
        BY <2>5, <3>1 DEF Decide, Inv, Inner!vars
    <3>2. CASE progress = 1
      <4>1. Inner!Succeed
          BY <2>5, <3>2, HitAnswers DEF Decide, Inner!Succeed
      <4> QED BY <4>1 DEF Inner!Next
    <3>3. CASE progress = -3 /\ ~(left > 0 /\ ~aborted)
      <4>1. Inner!GiveUp
          BY <2>5, <3>3 DEF Decide, Inv, Inner!GiveUp
      <4> QED BY <4>1 DEF Inner!Next
    <3> QED BY <2>5, <3>1, <3>2, <3>3 DEF Decide, Inv
  <2>6. CASE Tick
      BY <2>6 DEF Tick, searchVars, Inner!Tick, Inner!Next
  <2>7. CASE Abort
      BY <2>7 DEF Abort, searchVars, Inner!Abort, Inner!Next
  <2>8. CASE Reset
      BY <2>8 DEF Reset, searchVars, Inner!Reset, Inner!Next
  <2>9. CASE UNCHANGED vars
      BY <2>9 DEF vars, searchVars, Inner!vars
  <2> QED BY <2>1, <2>2, <2>3, <2>4, <2>5, <2>6, <2>7, <2>8, <2>9 DEF Next, Inner!Next
<1> QED BY <1>1, <1>2, InvInvariant, PTL DEF SafeSpec, Implements, Inner!Spec

=============================================================================
