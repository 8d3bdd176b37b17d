------------------------------- MODULE ChainLemmas -------------------------------
(***************************************************************************)
(* Facts about the operators of JointCouplings and Angles, for every chain *)
(* and every joint: what the modules prove about their states rests on.    *)
(***************************************************************************)
EXTENDS JointCouplings, Angles, FiniteSetTheorems, WellFoundedInduction, TLAPS

\* Of a family of subsets of a finite set one is smallest.
LEMMA SmallestSubset ==
  ASSUME NEW S, IsFiniteSet(S), NEW B \in SUBSET (SUBSET S), B # {}
  PROVE  \E T \in B : IsFiniteSet(T) /\ \A a \in T : T \ {a} \notin B
<1>1. B \subseteq FiniteSubsetsOf(S)
    BY FS_Subset DEF FiniteSubsetsOf
<1>2. PICK T \in B : \A U \in B : ~(<<U, T>> \in StrictSubsetOrdering(S))
    BY <1>1, FS_StrictSubsetOrderingWellFounded, WFMin, Zenon
<1>3. ASSUME NEW a \in T PROVE T \ {a} \notin B
    BY <1>2, FS_Subset DEF StrictSubsetOrdering
<1> QED BY <1>2, <1>3, FS_Subset

(***************************************************************************)
(* A finite nonempty set of integers has a maximum (s = 1) and a minimum   *)
(* (s = -1).  Were there one without, a smallest such set by inclusion     *)
(* would, after losing any one element, have an extreme or be empty.       *)
(***************************************************************************)
LEMMA ExtremeExists ==
  ASSUME NEW S \in SUBSET Int, IsFiniteSet(S), S # {}, NEW s \in {-1, 1}
  PROVE  \E x \in S : \A y \in S : s*x >= s*y
<1> DEFINE Bad == {T \in SUBSET S : T # {} /\ ~ \E x \in T : \A y \in T : s*x >= s*y}
<1>1. Bad = {}
  <2> SUFFICES ASSUME Bad # {} PROVE FALSE
      OBVIOUS
  <2>1. PICK T \in Bad : \A a \in T : T \ {a} \notin Bad
    <3>1. Bad \in SUBSET (SUBSET S)
        OBVIOUS
    <3> HIDE DEF Bad
    <3> QED BY <3>1, SmallestSubset, Zenon
  <2>2. PICK a \in T : TRUE
      OBVIOUS
  <2> DEFINE U == T \ {a}
  <2>4. U # {} => \E x \in U : \A y \in U : s*x >= s*y
      BY <2>1, <2>2
  <2>5. T \subseteq Int
      OBVIOUS
  <2>6. CASE U = {}
      BY <2>2, <2>5, <2>6
  <2>7. CASE U # {}
    <3>1. PICK x \in U : \A y \in U : s*x >= s*y
        BY <2>4, <2>7
    <3>2. x \in Int /\ a \in Int /\ \A y \in T : y \in Int /\ (y = a \/ y \in U)
        BY <2>2, <2>5
    <3>3. CASE s*x >= s*a
        BY <3>1, <3>2, <3>3
    <3>4. CASE ~(s*x >= s*a)
      <4>1. \A y \in T : s*a >= s*y
          BY <3>1, <3>2, <3>4
      <4> QED BY <4>1, <2>2
    <3> QED BY <3>3, <3>4
  <2> QED BY <2>6, <2>7
<1> QED BY <1>1

\* What Max and Min choose is an element, and the largest or the smallest one.
LEMMA MaxProperty ==
  ASSUME NEW S \in SUBSET Int, IsFiniteSet(S), S # {}
  PROVE  Max(S) \in S /\ \A y \in S : Max(S) >= y
<1>1. \E x \in S : \A y \in S : 1*x >= 1*y
    BY ExtremeExists
<1>2. \E x \in S : \A y \in S : x >= y
    BY <1>1
<1> QED BY <1>2, Zenon DEF Max

\* The same of the smallest element.
LEMMA MinProperty ==
  ASSUME NEW S \in SUBSET Int, IsFiniteSet(S), S # {}
  PROVE  Min(S) \in S /\ \A y \in S : Min(S) <= y
<1>1. \E x \in S : \A y \in S : (-1)*x >= (-1)*y
    BY ExtremeExists
<1>2. \E x \in S : \A y \in S : x <= y
    BY <1>1
<1> QED BY <1>2, Zenon DEF Min

\* A pair is a finite set.
LEMMA PairFinite ==
  ASSUME NEW x, NEW y PROVE IsFiniteSet({x, y})
<1>1. {x, y} = {x} \cup {y}
    OBVIOUS
<1>2. IsFiniteSet({x}) /\ IsFiniteSet({y})
    BY FS_Singleton
<1> QED BY <1>1, <1>2, FS_Union

\* A function on the first n numbers is a sequence of length n.
LEMMA FunctionIsSequence ==
  ASSUME NEW S, NEW n \in Nat, NEW f \in [1..n -> S]
  PROVE  f \in Seq(S) /\ Len(f) = n /\ DOMAIN f = 1..n
<1>1. f = [i \in 1..n |-> f[i]] /\ \A i \in 1..n : f[i] \in S
    OBVIOUS
<1> QED BY <1>1

\* The largest of two sets together is the larger of what is largest in each.
LEMMA MaxJoined ==
  ASSUME NEW S \in SUBSET Int, IsFiniteSet(S), S # {}, NEW T \in SUBSET Int, IsFiniteSet(T)
  PROVE  Max({Max(S)} \cup T) = Max(S \cup T)
<1> DEFINE a == Max(S)
           b == Max({a} \cup T)
           e == Max(S \cup T)
<1>1. a \in S /\ \A y \in S : a >= y
    BY MaxProperty
<1>2. b \in {a} \cup T /\ \A y \in {a} \cup T : b >= y
  <2>1. {a} \cup T \in SUBSET Int /\ IsFiniteSet({a} \cup T) /\ {a} \cup T # {}
      BY <1>1, FS_Singleton, FS_Union
  <2> QED BY <2>1, MaxProperty
<1>3. e \in S \cup T /\ \A y \in S \cup T : e >= y
  <2>1. S \cup T \in SUBSET Int /\ IsFiniteSet(S \cup T) /\ S \cup T # {}
      BY FS_Union
  <2> QED BY <2>1, MaxProperty
<1> HIDE DEF a, b, e
<1>4. a \in Int /\ b \in Int /\ e \in Int /\ b >= e /\ e >= b
    BY <1>1, <1>2, <1>3
<1> QED BY <1>4 DEF a, b, e

\* The same of the smallest.
LEMMA MinJoined ==
  ASSUME NEW S \in SUBSET Int, IsFiniteSet(S), S # {}, NEW T \in SUBSET Int, IsFiniteSet(T)
  PROVE  Min({Min(S)} \cup T) = Min(S \cup T)
<1> DEFINE a == Min(S)
           b == Min({a} \cup T)
           e == Min(S \cup T)
<1>1. a \in S /\ \A y \in S : a <= y
    BY MinProperty
<1>2. b \in {a} \cup T /\ \A y \in {a} \cup T : b <= y
  <2>1. {a} \cup T \in SUBSET Int /\ IsFiniteSet({a} \cup T) /\ {a} \cup T # {}
      BY <1>1, FS_Singleton, FS_Union
  <2> QED BY <2>1, MinProperty
<1>3. e \in S \cup T /\ \A y \in S \cup T : e <= y
  <2>1. S \cup T \in SUBSET Int /\ IsFiniteSet(S \cup T) /\ S \cup T # {}
      BY FS_Union
  <2> QED BY <2>1, MinProperty
<1> HIDE DEF a, b, e
<1>4. a \in Int /\ b \in Int /\ e \in Int /\ b >= e /\ e >= b
    BY <1>1, <1>2, <1>3
<1> QED BY <1>4 DEF a, b, e

\* The two ends of a preimage and of an image are integers.
LEMMA MappedBounds ==
  ASSUME NEW c \in Coupling, NEW lo \in Int, NEW hi \in Int, ~Pins(c)
  PROVE  /\ Preimage(c, lo, hi) \in Int \X Int
         /\ Image(c, lo, hi) \in Int \X Int
<1> USE BoundAssumption
<1>1. c.multiplier \in Int /\ c.offset \in Int /\ c.multiplier # 0
    BY DEF Coupling, Pins
<1>2. Sign(c.multiplier) * c.multiplier \in Nat \ {0}
    BY <1>1 DEF Sign
<1>3. ASSUME NEW x \in Int
      PROVE  UncoupleBound(c, x) \in Int /\ CoupleBound(c, x) \in Int
  <2>1. Sign(c.multiplier) \in Int
      BY DEF Sign
  <2>2. Sign(c.multiplier) * x \in Int /\ Sign(c.multiplier) * (x - c.offset) \in Int
      BY <1>1, <2>1
  <2>3. \A p \in Int, q \in Nat \ {0} : p \div q \in Int
      OBVIOUS
  <2> QED BY <1>1, <1>2, <2>2, <2>3 DEF UncoupleBound, CoupleBound, Couple
<1> QED BY <1>3 DEF Preimage, Image, Ordered

-----------------------------------------------------------------------------
\* The followers of a joint, and the ends they contribute, are finitely many.
LEMMA EndsLeftFinite ==
  ASSUME NEW d \in Seq(Coupling), NEW m, NEW lo \in [DOMAIN d -> Int],
         NEW hi \in [DOMAIN d -> Int], NEW k \in {1, 2}
  PROVE  EndsLeft(d, lo, hi, m, k) \in SUBSET Int /\ IsFiniteSet(EndsLeft(d, lo, hi, m, k))
<1> DEFINE B == Binding(d, m)
           End(i) == Preimage(d[i], lo[i], hi[i])[k]
           E == {End(i) : i \in B}
<1>1. B \subseteq 1..Len(d) /\ B \subseteq DOMAIN d
    BY DEF Binding, Followers, Mimics
<1>2. IsFiniteSet(1..Len(d))
    BY FS_Interval
<1>3. IsFiniteSet(B)
    BY <1>1, <1>2, FS_Subset
<1>4. E \subseteq Int
    BY <1>1, MappedBounds DEF Binding
<1>5. [i \in B |-> End(i)] \in Surjection(B, E)
    BY DEF Surjection
<1>6. IsFiniteSet(E)
    BY <1>3, <1>5, FS_Surjection
<1> QED BY <1>4, <1>6 DEF EndsLeft

\* The interval left to a joint is the intersection of its own with what each
\* binding mimic joint leaves it, and its ends are integers.
LEMMA LowerUpper ==
  ASSUME NEW d \in Seq(Coupling), NEW m \in DOMAIN d,
         NEW lo \in [DOMAIN d -> Int], NEW hi \in [DOMAIN d -> Int]
  PROVE  /\ Lower(d, lo, hi, m) \in Int /\ Upper(d, lo, hi, m) \in Int
         /\ lo[m] <= Lower(d, lo, hi, m) /\ Upper(d, lo, hi, m) <= hi[m]
         /\ \A i \in Binding(d, m) :
              /\ Preimage(d[i], lo[i], hi[i])[1] <= Lower(d, lo, hi, m)
              /\ Upper(d, lo, hi, m) <= Preimage(d[i], lo[i], hi[i])[2]
         /\ Lower(d, lo, hi, m) \in {lo[m]} \cup EndsLeft(d, lo, hi, m, 1)
         /\ Upper(d, lo, hi, m) \in {hi[m]} \cup EndsLeft(d, lo, hi, m, 2)
<1> DEFINE L == {lo[m]} \cup EndsLeft(d, lo, hi, m, 1)
           U == {hi[m]} \cup EndsLeft(d, lo, hi, m, 2)
<1>1. lo[m] \in Int /\ hi[m] \in Int
    OBVIOUS
<1>2. L \in SUBSET Int /\ IsFiniteSet(L) /\ L # {}
    BY <1>1, EndsLeftFinite, FS_Singleton, FS_Union
<1>3. U \in SUBSET Int /\ IsFiniteSet(U) /\ U # {}
    BY <1>1, EndsLeftFinite, FS_Singleton, FS_Union
<1>4. Max(L) \in L /\ \A y \in L : Max(L) >= y
    BY <1>2, MaxProperty
<1>5. Min(U) \in U /\ \A y \in U : Min(U) <= y
    BY <1>3, MinProperty
<1>6. Lower(d, lo, hi, m) = Max(L) /\ Upper(d, lo, hi, m) = Min(U)
    BY DEF Lower, Upper
<1> HIDE DEF L, U
<1>7. Lower(d, lo, hi, m) \in Int /\ Upper(d, lo, hi, m) \in Int
    BY <1>2, <1>3, <1>4, <1>5, <1>6
<1>8. /\ \A y \in L : y <= Lower(d, lo, hi, m)
      /\ \A y \in U : Upper(d, lo, hi, m) <= y
    BY <1>2, <1>3, <1>4, <1>5, <1>6, <1>7
<1>9. Lower(d, lo, hi, m) \in L /\ Upper(d, lo, hi, m) \in U
    BY <1>4, <1>5, <1>6
<1> QED BY <1>7, <1>8, <1>9 DEF L, U, EndsLeft

\* Effective bounds are integers, one pair per joint.
THEOREM TightenTyped ==
  ASSUME NEW d \in Seq(Coupling), NEW lb \in Seq(Int), NEW ub \in Seq(Int),
         Tighten(d, lb, ub).ok
  PROVE  /\ Valid(d)
         /\ Tighten(d, lb, ub).lb \in [DOMAIN d -> Int]
         /\ Tighten(d, lb, ub).ub \in [DOMAIN d -> Int]
<1> USE BoundAssumption
<1> DEFINE lo == [i \in DOMAIN lb |-> AsBound(lb[i])]
           hi == [i \in DOMAIN ub |-> AsBound(ub[i])]
<1>1. Valid(d) /\ DOMAIN lb = DOMAIN d /\ DOMAIN ub = DOMAIN d
    BY DEF Tighten
<1>2. lo \in [DOMAIN d -> Int] /\ hi \in [DOMAIN d -> Int]
    BY <1>1 DEF AsBound
<1>3. ASSUME NEW i \in DOMAIN d
      PROVE  /\ Effective(d, lo, hi, i)[1] \in Int
             /\ Effective(d, lo, hi, i)[2] \in Int
  <2>1. d[i] \in Coupling
      OBVIOUS
  <2>2. CASE ~IsMimic(d, i)
      BY <1>2, <2>2, LowerUpper DEF Effective
  <2>3. CASE IsMimic(d, i) /\ Pins(d[i])
      BY <2>1, <2>3 DEF Effective, Coupling
  <2>4. CASE IsMimic(d, i) /\ ~Pins(d[i])
    <3> DEFINE m == d[i].mimicked
    <3>1. m \in DOMAIN d
        BY <1>1, <2>4 DEF Valid
    <3>2. Lower(d, lo, hi, m) \in Int /\ Upper(d, lo, hi, m) \in Int
        BY <1>2, <3>1, LowerUpper
    <3>3. Image(d[i], Lower(d, lo, hi, m), Upper(d, lo, hi, m)) \in Int \X Int
        BY <2>1, <2>4, <3>2, MappedBounds
    <3> QED BY <2>4, <3>3 DEF Effective
  <2> QED BY <2>2, <2>3, <2>4
<1>4. /\ Tighten(d, lb, ub).lb = [i \in DOMAIN d |-> AsStored(Effective(d, lo, hi, i)[1])]
      /\ Tighten(d, lb, ub).ub = [i \in DOMAIN d |-> AsStored(Effective(d, lo, hi, i)[2])]
    BY DEF Tighten
<1>5. \A x \in Int : AsStored(x) \in Int
    BY DEF AsStored
<1> HIDE DEF lo, hi
<1>6. \A i \in DOMAIN d : /\ AsStored(Effective(d, lo, hi, i)[1]) \in Int
                          /\ AsStored(Effective(d, lo, hi, i)[2]) \in Int
    BY <1>3, <1>5
<1>7. Tighten(d, lb, ub).lb \in [DOMAIN d -> Int]
    BY <1>4, <1>6
<1>8. Tighten(d, lb, ub).ub \in [DOMAIN d -> Int]
    BY <1>4, <1>6
<1> QED BY <1>1, <1>7, <1>8

\* They leave every joint something, mimic joints included.
LEMMA TightenOrdered ==
  ASSUME NEW d \in Seq(Coupling), NEW lb \in Seq(Int), NEW ub \in Seq(Int),
         Tighten(d, lb, ub).ok, NEW i \in DOMAIN d
  PROVE  Tighten(d, lb, ub).lb[i] <= Tighten(d, lb, ub).ub[i]
<1> USE BoundAssumption
<1> DEFINE lo == [k \in DOMAIN lb |-> AsBound(lb[k])]
           hi == [k \in DOMAIN ub |-> AsBound(ub[k])]
           e  == Effective(d, lo, hi, i)
<1>1. /\ Valid(d) /\ DOMAIN lb = DOMAIN d /\ DOMAIN ub = DOMAIN d /\ Satisfiable(d, lo, hi)
      /\ Tighten(d, lb, ub).lb[i] = AsStored(e[1]) /\ Tighten(d, lb, ub).ub[i] = AsStored(e[2])
    BY DEF Tighten
<1>2. lo \in [DOMAIN d -> Int] /\ hi \in [DOMAIN d -> Int]
    BY <1>1 DEF AsBound
<1> HIDE DEF lo, hi
<1>3. d[i] \in Coupling
    OBVIOUS
<1>4. e[1] \in Int /\ e[2] \in Int /\ e[1] <= e[2]
  <2>1. CASE ~IsMimic(d, i)
      BY <1>1, <1>2, <2>1, LowerUpper DEF Effective, Satisfiable, Active
  <2>2. CASE IsMimic(d, i) /\ Pins(d[i])
      BY <1>3, <2>2 DEF Effective, Coupling
  <2>3. CASE IsMimic(d, i) /\ ~Pins(d[i])
    <3> DEFINE a == CoupleBound(d[i], Lower(d, lo, hi, d[i].mimicked))
               b == CoupleBound(d[i], Upper(d, lo, hi, d[i].mimicked))
    <3>1. d[i].mimicked \in DOMAIN d
        BY <1>1, <2>3 DEF Valid
    <3>2. Lower(d, lo, hi, d[i].mimicked) \in Int /\ Upper(d, lo, hi, d[i].mimicked) \in Int
        BY <1>2, <3>1, LowerUpper
    <3>3. a \in Int /\ b \in Int
      <4>1. d[i].multiplier \in Int /\ d[i].offset \in Int /\ Sign(d[i].multiplier) \in Int
          BY <1>3 DEF Coupling, Sign
      <4>2. ASSUME NEW x \in Int PROVE CoupleBound(d[i], x) \in Int
        <5>1. Sign(d[i].multiplier) * x \in Int /\ d[i].multiplier * x \in Int
            BY <4>1
        <5> QED BY <4>1, <5>1 DEF CoupleBound, Couple
      <4> QED BY <3>2, <4>2
    <3>4. e = IF a <= b THEN <<a, b>> ELSE <<b, a>>
        BY <2>3 DEF Effective, Image, Ordered
    <3> HIDE DEF a, b, e
    <3> QED BY <3>3, <3>4
  <2> QED BY <2>1, <2>2, <2>3
<1> HIDE DEF e
<1>5. AsStored(e[1]) <= AsStored(e[2])
    BY <1>4 DEF AsStored
<1> QED BY <1>1, <1>5

\* A full configuration rebuilt from its active joints has one position for
\* each joint of the chain.
LEMMA ExpandTyped ==
  ASSUME NEW d \in Seq(Coupling), Valid(d), NEW r, \A i \in Active(d) : r[i] \in Int
  PROVE  Expand(d, r) \in [DOMAIN d -> Int]
<1>1. ASSUME NEW i \in DOMAIN d, IsMimic(d, i)
      PROVE  Couple(d[i], r[d[i].mimicked]) \in Int
  <2>1. d[i] \in Coupling
      OBVIOUS
  <2>2. d[i].mimicked \in Active(d)
      BY <1>1 DEF Valid, Active
  <2> QED BY <2>1, <2>2 DEF Couple, Coupling
<1>2. ASSUME NEW i \in DOMAIN d, ~IsMimic(d, i)
      PROVE  r[i] \in Int
    BY <1>2 DEF Active
<1> QED BY <1>1, <1>2 DEF Expand

\* The same of a full configuration whose mimic entries are rebuilt.
LEMMA ReduceTyped ==
  ASSUME NEW d \in Seq(Coupling), NEW full \in [DOMAIN d -> Int]
  PROVE  \A i \in Active(d) : Reduce(d, full)[i] \in Int
BY DEF Reduce, Active

\* The mimic entries are computed from the others, ...
LEMMA ReduceExpand ==
  ASSUME NEW d, NEW r
  PROVE  Reduce(d, Expand(d, r)) = [i \in Active(d) |-> r[i]]
BY DEF Reduce, Expand, Active

\* ... and from nothing else, so computing them twice is computing them once.
LEMMA ExpandTwice ==
  ASSUME NEW d, Valid(d), NEW r
  PROVE  Expand(d, Reduce(d, Expand(d, r))) = Expand(d, r)
<1>1. \A i \in DOMAIN d : /\ IsMimic(d, i) => d[i].mimicked \in Active(d)
                          /\ ~IsMimic(d, i) => i \in Active(d)
    BY DEF Valid, Active
<1>2. \A i \in Active(d) : Reduce(d, Expand(d, r))[i] = r[i]
    BY ReduceExpand
<1> QED BY <1>1, <1>2 DEF Expand

-----------------------------------------------------------------------------
(***************************************************************************)
(* What tightening keeps and drops.  Bounds are the numbers the stored     *)
(* ones stand for; a preimage that is not a whole number of ticks is       *)
(* excluded, since the code computes it exactly.                           *)
(***************************************************************************)

\* Multiplying by a number keeps the order of two others, or reverses it.
LEMMA Multiply ==
  ASSUME NEW a \in Int, NEW x \in Int, NEW y \in Int, x <= y
  PROVE  /\ a >= 0 => a * x <= a * y
         /\ a <= 0 => a * y <= a * x
<1>1. a * (y - x) = a * y - a * x /\ a * x \in Int /\ a * y \in Int
    OBVIOUS
<1>2. y - x \in Nat
    OBVIOUS
<1>3. a >= 0 => a * (y - x) >= 0
    BY <1>2
<1>4. a <= 0 => a * (y - x) <= 0
    BY <1>2
<1> QED BY <1>1, <1>3, <1>4

\* Multiplying by a nonzero number is strictly monotonic, or strictly antitonic.
LEMMA MultiplyStrictly ==
  ASSUME NEW a \in Int, NEW x \in Int, NEW y \in Int, a # 0
  PROVE  /\ a > 0 => (a * x <= a * y <=> x <= y)
         /\ a < 0 => (a * x <= a * y <=> y <= x)
<1>1. a * (y - x) = a * y - a * x /\ a * x \in Int /\ a * y \in Int
    OBVIOUS
<1>2. CASE a > 0
  <2>1. x <= y => a * x <= a * y
      BY <1>2, Multiply
  <2>2. ASSUME y < x PROVE a * y < a * x
    <3>1. a * (y + 1) <= a * x
        BY <1>2, <2>2, Multiply
    <3> QED BY <1>2, <3>1
  <2> QED BY <1>1, <1>2, <2>1, <2>2
<1>3. CASE a < 0
  <2>1. y <= x => a * x <= a * y
      BY <1>3, Multiply
  <2>2. ASSUME x < y PROVE a * y < a * x
    <3>1. a * y <= a * (x + 1)
        BY <1>3, <2>2, Multiply
    <3> QED BY <1>3, <3>1
  <2> QED BY <1>1, <1>3, <2>1, <2>2
<1> QED BY <1>2, <1>3

\* A coupled position is on one side of a bound exactly when the position is
\* on the same, or with a negative multiplier the other, side of its preimage.
LEMMA EndExact ==
  ASSUME NEW c \in Coupling, ~Pins(c), NEW y \in Bound, Exact(c, y),
         NEW x \in Position, Couple(c, x) \in Position
  PROVE  /\ c.multiplier > 0 => /\ y <= Couple(c, x) <=> UncoupleBound(c, y) <= x
                                /\ Couple(c, x) <= y <=> x <= UncoupleBound(c, y)
         /\ c.multiplier < 0 => /\ y <= Couple(c, x) <=> x <= UncoupleBound(c, y)
                                /\ Couple(c, x) <= y <=> UncoupleBound(c, y) <= x
<1> USE BoundAssumption
<1>1. c.multiplier \in Int /\ c.offset \in Int /\ c.multiplier # 0
    BY DEF Coupling, Pins
<1>2. CASE Infinite(y)
  <2>1. UncoupleBound(c, y) = IF c.multiplier < 0 THEN -y ELSE y
      BY <1>1, <1>2 DEF UncoupleBound, Sign, Infinite
  <2> QED BY <1>1, <1>2, <2>1 DEF Infinite, Position
<1>3. CASE ~Infinite(y)
  <2> DEFINE u == UncoupleBound(c, y)
  <2>1. u \in Int /\ y = c.multiplier * u + c.offset
      BY <1>3 DEF Exact, Couple, Position
  <2>2. Couple(c, x) = c.multiplier * x + c.offset
      BY DEF Couple
  <2> HIDE DEF u
  <2>3. x \in Int /\ c.multiplier * u \in Int /\ c.multiplier * x \in Int
      BY <1>1, <2>1 DEF Position
  <2>4. /\ y <= Couple(c, x) <=> c.multiplier * u <= c.multiplier * x
        /\ Couple(c, x) <= y <=> c.multiplier * x <= c.multiplier * u
      BY <1>1, <2>1, <2>2, <2>3
  <2>5. /\ c.multiplier > 0 => /\ y <= Couple(c, x) <=> u <= x
                               /\ Couple(c, x) <= y <=> x <= u
        /\ c.multiplier < 0 => /\ y <= Couple(c, x) <=> x <= u
                               /\ Couple(c, x) <= y <=> u <= x
      BY <1>1, <2>1, <2>3, <2>4, MultiplyStrictly
  <2> QED BY <2>5 DEF u
<1> QED BY <1>2, <1>3

\* The preimages of two bounds are ordered as the bounds are, or reversed.
LEMMA EndsOrdered ==
  ASSUME NEW c \in Coupling, ~Pins(c), NEW lo \in Bound, NEW hi \in Bound, lo <= hi,
         Exact(c, lo), Exact(c, hi)
  PROVE  /\ c.multiplier > 0 => UncoupleBound(c, lo) <= UncoupleBound(c, hi)
         /\ c.multiplier < 0 => UncoupleBound(c, hi) <= UncoupleBound(c, lo)
<1> USE BoundAssumption
<1> DEFINE a == UncoupleBound(c, lo)
           b == UncoupleBound(c, hi)
<1>1. c.multiplier \in Int /\ c.offset \in Int /\ c.multiplier # 0
    BY DEF Coupling, Pins
<1>2. ASSUME NEW y \in Bound, Infinite(y)
      PROVE  UncoupleBound(c, y) = IF c.multiplier < 0 THEN -y ELSE y
    BY <1>1, <1>2 DEF UncoupleBound, Sign, Infinite
<1>3. CASE Infinite(lo) \/ Infinite(hi)
  <2>1. a \in Bound /\ b \in Bound
      BY <1>2 DEF Exact, Bound, Infinite
  <2> HIDE DEF a, b
  <2>2. CASE Infinite(lo)
    <3>1. a = IF c.multiplier < 0 THEN -lo ELSE lo
        BY <1>2, <2>2 DEF a
    <3>2. Infinite(hi) => b = IF c.multiplier < 0 THEN -hi ELSE hi
        BY <1>2 DEF b
    <3> QED BY <1>1, <2>1, <2>2, <3>1, <3>2 DEF Bound, Position, Infinite, a, b
  <2>3. CASE Infinite(hi) /\ ~Infinite(lo)
    <3>1. b = IF c.multiplier < 0 THEN -hi ELSE hi
        BY <1>2, <2>3 DEF b
    <3> QED BY <1>1, <2>1, <2>3, <3>1 DEF Bound, Position, Infinite, a, b
  <2> QED BY <1>3, <2>2, <2>3
<1>4. CASE ~Infinite(lo) /\ ~Infinite(hi)
  <2>1. /\ a \in Int /\ lo = c.multiplier * a + c.offset
        /\ b \in Int /\ hi = c.multiplier * b + c.offset
      BY <1>4 DEF Exact, Couple, Position
  <2> HIDE DEF a, b
  <2>2. c.multiplier * a <= c.multiplier * b
      BY <1>1, <2>1
  <2>3. /\ c.multiplier > 0 => a <= b
        /\ c.multiplier < 0 => b <= a
      BY <1>1, <2>1, <2>2, MultiplyStrictly
  <2> QED BY <2>3 DEF a, b
<1> QED BY <1>3, <1>4

\* A position is inside the preimage of an interval exactly when the position
\* coupled to it is inside the interval.
LEMMA PreimageExact ==
  ASSUME NEW c \in Coupling, ~Pins(c), NEW lo \in Bound, NEW hi \in Bound, lo <= hi,
         Exact(c, lo), Exact(c, hi), NEW x \in Position, Couple(c, x) \in Position
  PROVE  (lo <= Couple(c, x) /\ Couple(c, x) <= hi)
         <=> (Preimage(c, lo, hi)[1] <= x /\ x <= Preimage(c, lo, hi)[2])
<1> USE BoundAssumption
<1>1. c.multiplier \in Int /\ c.multiplier # 0
    BY DEF Coupling, Pins
<1>2. UncoupleBound(c, lo) \in Int /\ UncoupleBound(c, hi) \in Int
  <2>1. \A y \in Bound : Infinite(y) => UncoupleBound(c, y) \in Int
      BY <1>1 DEF UncoupleBound, Sign, Infinite, Bound
  <2> QED BY <2>1 DEF Exact, Position
<1>3. CASE c.multiplier > 0
  <2>1. Preimage(c, lo, hi) = <<UncoupleBound(c, lo), UncoupleBound(c, hi)>>
      BY <1>2, <1>3, EndsOrdered DEF Preimage, Ordered
  <2> QED BY <1>3, <2>1, EndExact
<1>4. CASE c.multiplier < 0
  <2>1. Preimage(c, lo, hi) = <<UncoupleBound(c, hi), UncoupleBound(c, lo)>>
      BY <1>2, <1>4, EndsOrdered DEF Preimage, Ordered
  <2> QED BY <1>4, <2>1, EndExact
<1> QED BY <1>1, <1>3, <1>4

\* A configuration's positions, and what judging each joint against its own
\* bounds means for it.
HasPositions(d, r) == /\ \A m \in Active(d) : r[m] \in Position
                      /\ \A i \in DOMAIN d : Expand(d, r)[i] \in Position
AllInside(d, lo, hi, r) == \A i \in DOMAIN d : Inside(Expand(d, r)[i], lo[i], hi[i])

PinsHold(d, lo, hi) == \A i \in Mimics(d) : Pins(d[i]) => Inside(d[i].offset, lo[i], hi[i])

\* Every joint holds its own bounds exactly when each active joint is inside
\* the interval left to it and the pinned joints are where they may be.
LEMMA ConfigurationsKept ==
  ASSUME NEW d \in Seq(Coupling), Valid(d), NEW lo, NEW hi, ExactBounds(d, lo, hi),
         NEW r, HasPositions(d, r)
  PROVE  AllInside(d, lo, hi, r)
         <=> /\ PinsHold(d, lo, hi)
             /\ \A m \in Active(d) : Inside(r[m], Lower(d, lo, hi, m), Upper(d, lo, hi, m))
<1> USE BoundAssumption
<1>1. Bound \subseteq Int /\ Position \subseteq Int
    BY DEF Bound, Position
<1>2. lo \in [DOMAIN d -> Int] /\ hi \in [DOMAIN d -> Int]
    BY <1>1 DEF ExactBounds
<1>3. \A m \in Active(d) : m \in DOMAIN d /\ r[m] \in Position /\ Expand(d, r)[m] = r[m]
    BY DEF Active, Expand, HasPositions
<1>4. ASSUME NEW i \in Mimics(d), Pins(d[i])
      PROVE  Expand(d, r)[i] = d[i].offset
  <2>1. i \in DOMAIN d /\ d[i] \in Coupling /\ d[i].mimicked \in Active(d)
      BY <1>4 DEF Mimics, Valid, Active
  <2>2. Expand(d, r)[i] = Couple(d[i], r[d[i].mimicked])
      BY <1>4, <2>1 DEF Expand, Mimics
  <2>3. r[d[i].mimicked] \in Int /\ d[i].offset \in Int /\ d[i].multiplier = 0
      BY <1>1, <1>3, <1>4, <2>1 DEF Coupling, Pins
  <2> QED BY <2>2, <2>3 DEF Couple
<1>5. ASSUME NEW i \in Mimics(d), ~Pins(d[i])
      PROVE  /\ d[i].mimicked \in Active(d) /\ i \in Binding(d, d[i].mimicked)
             /\ Inside(Expand(d, r)[i], lo[i], hi[i])
                <=> Inside(r[d[i].mimicked], Preimage(d[i], lo[i], hi[i])[1],
                                             Preimage(d[i], lo[i], hi[i])[2])
  <2>1. i \in DOMAIN d /\ d[i] \in Coupling /\ d[i].mimicked \in Active(d)
      BY <1>5 DEF Mimics, Valid, Active
  <2>2. Expand(d, r)[i] = Couple(d[i], r[d[i].mimicked])
      BY <1>5, <2>1 DEF Expand, Mimics
  <2>3. /\ lo[i] \in Bound /\ hi[i] \in Bound /\ lo[i] <= hi[i]
        /\ Exact(d[i], lo[i]) /\ Exact(d[i], hi[i])
      BY <1>5, <2>1 DEF ExactBounds
  <2>4. r[d[i].mimicked] \in Position /\ Couple(d[i], r[d[i].mimicked]) \in Position
      BY <1>3, <2>1, <2>2 DEF HasPositions
  <2>5. i \in Binding(d, d[i].mimicked)
      BY <1>5 DEF Binding, Followers
  <2> QED BY <1>5, <2>1, <2>2, <2>3, <2>4, <2>5, PreimageExact DEF Inside
<1>6. ASSUME NEW m \in Active(d), NEW i \in Binding(d, m)
      PROVE  /\ i \in Mimics(d) /\ ~Pins(d[i]) /\ d[i].mimicked = m
             /\ Preimage(d[i], lo[i], hi[i]) \in Int \X Int
  <2>1. i \in DOMAIN d /\ d[i] \in Coupling /\ i \in Mimics(d) /\ ~Pins(d[i]) /\ d[i].mimicked = m
      BY DEF Binding, Followers, Mimics
  <2> QED BY <1>2, <2>1, MappedBounds
<1>7. ASSUME AllInside(d, lo, hi, r)
      PROVE  /\ PinsHold(d, lo, hi)
             /\ \A m \in Active(d) : Inside(r[m], Lower(d, lo, hi, m), Upper(d, lo, hi, m))
  <2>1. PinsHold(d, lo, hi)
      BY <1>4, <1>7 DEF PinsHold, AllInside, Mimics
  <2>2. ASSUME NEW m \in Active(d)
        PROVE  Inside(r[m], Lower(d, lo, hi, m), Upper(d, lo, hi, m))
    <3>1. Inside(r[m], lo[m], hi[m])
        BY <1>3, <1>7 DEF AllInside
    <3>2. \A i \in Binding(d, m) : Inside(r[m], Preimage(d[i], lo[i], hi[i])[1],
                                                Preimage(d[i], lo[i], hi[i])[2])
      <4> SUFFICES ASSUME NEW i \in Binding(d, m)
                   PROVE  Inside(r[m], Preimage(d[i], lo[i], hi[i])[1],
                                       Preimage(d[i], lo[i], hi[i])[2])
          OBVIOUS
      <4>1. i \in Mimics(d) /\ ~Pins(d[i]) /\ d[i].mimicked = m
          BY <1>6
      <4>2. Inside(Expand(d, r)[i], lo[i], hi[i])
          BY <1>7, <4>1 DEF AllInside, Mimics
      <4> QED BY <1>5, <4>1, <4>2
    <3>3. /\ Lower(d, lo, hi, m) \in {lo[m]} \cup EndsLeft(d, lo, hi, m, 1)
          /\ Upper(d, lo, hi, m) \in {hi[m]} \cup EndsLeft(d, lo, hi, m, 2)
        BY <1>2, <1>3, LowerUpper
    <3> QED BY <3>1, <3>2, <3>3 DEF EndsLeft, Inside
  <2> QED BY <2>1, <2>2
<1>8. ASSUME PinsHold(d, lo, hi),
             \A m \in Active(d) : Inside(r[m], Lower(d, lo, hi, m), Upper(d, lo, hi, m)),
             NEW i \in DOMAIN d
      PROVE  Inside(Expand(d, r)[i], lo[i], hi[i])
  <2>1. CASE i \in Active(d)
    <3>1. /\ lo[i] \in Int /\ hi[i] \in Int /\ r[i] \in Int
          /\ Lower(d, lo, hi, i) \in Int /\ Upper(d, lo, hi, i) \in Int
          /\ lo[i] <= Lower(d, lo, hi, i) /\ Upper(d, lo, hi, i) <= hi[i]
        BY <1>1, <1>2, <1>3, <2>1, LowerUpper
    <3>2. Inside(r[i], Lower(d, lo, hi, i), Upper(d, lo, hi, i)) /\ Expand(d, r)[i] = r[i]
        BY <1>3, <1>8, <2>1
    <3> QED BY <3>1, <3>2 DEF Inside
  <2>2. CASE i \in Mimics(d) /\ Pins(d[i])
      BY <1>4, <1>8, <2>2 DEF PinsHold
  <2>3. CASE i \in Mimics(d) /\ ~Pins(d[i])
    <3> DEFINE m == d[i].mimicked
    <3>1. m \in Active(d) /\ i \in Binding(d, m)
        BY <1>5, <2>3
    <3>2. /\ Lower(d, lo, hi, m) \in Int /\ Upper(d, lo, hi, m) \in Int
          /\ Preimage(d[i], lo[i], hi[i])[1] <= Lower(d, lo, hi, m)
          /\ Upper(d, lo, hi, m) <= Preimage(d[i], lo[i], hi[i])[2]
        BY <1>2, <1>3, <3>1, LowerUpper
    <3>3. Preimage(d[i], lo[i], hi[i]) \in Int \X Int /\ r[m] \in Int
        BY <1>1, <1>3, <1>6, <3>1
    <3>4. Inside(r[m], Lower(d, lo, hi, m), Upper(d, lo, hi, m))
        BY <1>8, <3>1
    <3>5. Inside(r[m], Preimage(d[i], lo[i], hi[i])[1], Preimage(d[i], lo[i], hi[i])[2])
        BY <3>2, <3>3, <3>4 DEF Inside
    <3> QED BY <1>5, <2>3, <3>5
  <2> QED BY <2>1, <2>2, <2>3 DEF Active, Mimics
<1> QED BY <1>7, <1>8 DEF AllInside

\* Storing a bound and reading it back moves no position to its other side.
LEMMA StoredExactly ==
  ASSUME NEW e \in Int, NEW x \in Position
  PROVE  /\ AsBound(AsStored(e)) <= x <=> e <= x
         /\ x <= AsBound(AsStored(e)) <=> x <= e
<1> DEFINE s == AsStored(e)
<1>1. /\ e >= Sentinel => s = Sentinel
      /\ e <= -Sentinel => s = -Sentinel
      /\ -Sentinel < e /\ e < Sentinel => s = e
    BY BoundAssumption DEF AsStored
<1>2. s \in Int /\ (s = Sentinel \/ s = -Sentinel \/ (-Sentinel < s /\ s < Sentinel))
    BY <1>1, BoundAssumption
<1> HIDE DEF s
<1>3. /\ s = Sentinel => AsBound(s) = Infinity
      /\ s = -Sentinel => AsBound(s) = -Infinity
      /\ -Sentinel < s /\ s < Sentinel => AsBound(s) = s
    BY <1>2, BoundAssumption DEF AsBound
<1> QED BY <1>1, <1>2, <1>3, BoundAssumption DEF Position, s

\* A stored bound is on one side of a position exactly when the number it
\* stands for is.
LEMMA ReadExactly ==
  ASSUME NEW s \in Int, NEW x \in Position
  PROVE  /\ AsBound(s) \in Bound
         /\ AsBound(s) <= x <=> s <= x
         /\ x <= AsBound(s) <=> x <= s
<1>1. /\ s >= Sentinel => AsBound(s) = Infinity
      /\ s <= -Sentinel => AsBound(s) = -Infinity
      /\ -Sentinel < s /\ s < Sentinel => AsBound(s) = s
    BY BoundAssumption DEF AsBound
<1> QED BY <1>1, BoundAssumption DEF Position, Bound

\* tighten keeps exactly the configurations the mechanism can hold: to judge
\* the active joints against the effective bounds is to judge every joint
\* against its own, and a refusal means that no configuration is left.
THEOREM TightenKeepsExactly ==
  ASSUME NEW d \in Seq(Coupling), Valid(d), NEW lb \in Seq(Int), NEW ub \in Seq(Int),
         Len(lb) = Len(d), Len(ub) = Len(d),
         NEW lo, lo = [i \in DOMAIN lb |-> AsBound(lb[i])],
         NEW hi, hi = [i \in DOMAIN ub |-> AsBound(ub[i])],
         ExactBounds(d, lo, hi), NEW r, HasPositions(d, r)
  PROVE  LET t == Tighten(d, lb, ub) IN
         /\ t.ok => (AllInside(d, lo, hi, r)
                     <=> \A m \in Active(d) : Inside(r[m], AsBound(t.lb[m]), AsBound(t.ub[m])))
         /\ AllInside(d, lo, hi, r) => t.ok
<1> USE BoundAssumption
<1> DEFINE t == Tighten(d, lb, ub)
<1>1. t.ok <=> Satisfiable(d, lo, hi)
    BY DEF Tighten
<1>2. Satisfiable(d, lo, hi)
      <=> /\ PinsHold(d, lo, hi)
          /\ \A m \in Active(d) : Lower(d, lo, hi, m) <= Upper(d, lo, hi, m)
    BY DEF Satisfiable, PinsHold, Inside
<1>3. ASSUME NEW m \in Active(d)
      PROVE  /\ Lower(d, lo, hi, m) \in Int /\ Upper(d, lo, hi, m) \in Int
             /\ r[m] \in Position /\ r[m] \in Int
  <2>1. lo \in [DOMAIN d -> Int] /\ hi \in [DOMAIN d -> Int]
      BY DEF ExactBounds, Bound, Position
  <2> QED BY <2>1, LowerUpper DEF Active, HasPositions, Position
<1>4. ASSUME t.ok, NEW m \in Active(d)
      PROVE  Inside(r[m], AsBound(t.lb[m]), AsBound(t.ub[m]))
             <=> Inside(r[m], Lower(d, lo, hi, m), Upper(d, lo, hi, m))
  <2>1. /\ t.lb[m] = AsStored(Effective(d, lo, hi, m)[1])
        /\ t.ub[m] = AsStored(Effective(d, lo, hi, m)[2])
      BY <1>4 DEF Tighten, Active
  <2>2. Effective(d, lo, hi, m) = <<Lower(d, lo, hi, m), Upper(d, lo, hi, m)>>
      BY DEF Effective, Active
  <2> HIDE DEF t
  <2>3. /\ t.lb[m] = AsStored(Lower(d, lo, hi, m))
        /\ t.ub[m] = AsStored(Upper(d, lo, hi, m))
      BY <2>1, <2>2
  <2>4. /\ AsBound(t.lb[m]) <= r[m] <=> Lower(d, lo, hi, m) <= r[m]
        /\ r[m] <= AsBound(t.ub[m]) <=> r[m] <= Upper(d, lo, hi, m)
      BY <1>3, <2>3, StoredExactly
  <2> QED BY <2>4 DEF Inside
<1> HIDE DEF t
<1>5. AllInside(d, lo, hi, r)
      <=> /\ PinsHold(d, lo, hi)
          /\ \A m \in Active(d) : Inside(r[m], Lower(d, lo, hi, m), Upper(d, lo, hi, m))
    BY ConfigurationsKept
<1>6. t.ok => (AllInside(d, lo, hi, r)
               <=> \A m \in Active(d) : Inside(r[m], AsBound(t.lb[m]), AsBound(t.ub[m])))
    BY <1>1, <1>2, <1>4, <1>5
<1>7. ASSUME AllInside(d, lo, hi, r) PROVE t.ok
  <2>1. ASSUME NEW m \in Active(d) PROVE Lower(d, lo, hi, m) <= Upper(d, lo, hi, m)
    <3>1. Inside(r[m], Lower(d, lo, hi, m), Upper(d, lo, hi, m))
        BY <1>5, <1>7
    <3>2. /\ Lower(d, lo, hi, m) \in Int /\ Upper(d, lo, hi, m) \in Int /\ r[m] \in Int
        BY <1>3
    <3>3. Lower(d, lo, hi, m) <= r[m] /\ r[m] <= Upper(d, lo, hi, m)
        BY <3>1 DEF Inside
    <3> QED BY <3>2, <3>3
  <2> QED BY <1>1, <1>2, <1>5, <1>7, <2>1
<1> QED BY <1>6, <1>7 DEF t

-----------------------------------------------------------------------------
(***************************************************************************)
(* Tightening what has been tightened.  No rounding matters here: the ends *)
(* of a mimic joint's effective bounds are positions of the joint it       *)
(* follows, coupled.                                                       *)
(***************************************************************************)

\* No end leaves the positions that are stored as they are.
Storable(d, lo, hi) ==
  /\ \A m \in Active(d) : \A e \in {Lower(d, lo, hi, m), Upper(d, lo, hi, m)} :
       /\ e \in Bound
       /\ e \in Position => \A i \in Followers(d, m) : Couple(d[i], e) \in Position
  /\ \A i \in Mimics(d) : Pins(d[i]) => d[i].offset \in Position

\* A stored bound compares with a position as the bound it spells does.
LEMMA StoredCompares ==
  ASSUME NEW e \in Int, NEW x \in Position
  PROVE  /\ AsStored(e) \in Int
         /\ AsStored(e) <= x <=> e <= x
         /\ x <= AsStored(e) <=> x <= e
<1>1. AsStored(e) \in Int
    BY BoundAssumption DEF AsStored
<1> QED BY <1>1, ReadExactly, StoredExactly

\* The ends that tightenThroughCoupling intersects, and the intersection.
LEMMA ThroughEnds ==
  ASSUME NEW c \in Coupling, ~Pins(c), NEW mlo \in Int, NEW mhi \in Int,
         NEW lo \in Int, NEW hi \in Int
  PROVE  LET back == Preimage(c, mlo, mhi) IN
         /\ back[1] \in Int /\ back[2] \in Int
         /\ Max({lo, back[1]}) \in Int /\ Min({hi, back[2]}) \in Int
         /\ \A x \in Int : /\ Max({lo, back[1]}) <= x <=> lo <= x /\ back[1] <= x
                           /\ x <= Min({hi, back[2]}) <=> x <= hi /\ x <= back[2]
<1> DEFINE a == Preimage(c, mlo, mhi)[1]
           b == Preimage(c, mlo, mhi)[2]
<1>1. a \in Int /\ b \in Int
    BY MappedBounds
<1> HIDE DEF a, b
<1>2. Max({lo, a}) \in {lo, a} /\ \A y \in {lo, a} : Max({lo, a}) >= y
  <2>1. {lo, a} \in SUBSET Int /\ IsFiniteSet({lo, a}) /\ {lo, a} # {}
      BY <1>1, PairFinite
  <2> QED BY <2>1, MaxProperty
<1>3. Min({hi, b}) \in {hi, b} /\ \A y \in {hi, b} : Min({hi, b}) <= y
  <2>1. {hi, b} \in SUBSET Int /\ IsFiniteSet({hi, b}) /\ {hi, b} # {}
      BY <1>1, PairFinite
  <2> QED BY <2>1, MinProperty
<1>4. Max({lo, a}) \in Int /\ Min({hi, b}) \in Int
    BY <1>1, <1>2, <1>3
<1>5. \A x \in Int : /\ Max({lo, a}) <= x <=> lo <= x /\ a <= x
                     /\ x <= Min({hi, b}) <=> x <= hi /\ x <= b
    BY <1>1, <1>2, <1>3, <1>4
<1> QED BY <1>1, <1>4, <1>5 DEF a, b

\* What tightenThroughCoupling returns are integers.
LEMMA ThroughTyped ==
  ASSUME NEW c \in Coupling, NEW mlb \in Int, NEW mub \in Int, NEW lb \in Int, NEW ub \in Int
  PROVE  /\ TightenThroughCoupling(c, mlb, mub, lb, ub).lb \in Int
         /\ TightenThroughCoupling(c, mlb, mub, lb, ub).ub \in Int
<1> DEFINE t == TightenThroughCoupling(c, mlb, mub, lb, ub)
           back == Preimage(c, AsBound(mlb), AsBound(mub))
           lo == Max({AsBound(lb), back[1]})
           hi == Min({AsBound(ub), back[2]})
<1>1. \A s \in Int : AsBound(s) \in Int /\ AsStored(s) \in Int
    BY BoundAssumption DEF AsBound, AsStored
<1>2. ~Pins(c) => lo \in Int /\ hi \in Int
    BY <1>1, ThroughEnds
<1>3. t.lb \in {lb, AsStored(lo)} /\ t.ub \in {ub, AsStored(hi)}
      /\ (Pins(c) => t.lb = lb /\ t.ub = ub)
    BY DEF TightenThroughCoupling
<1> HIDE DEF lo, hi, t
<1>4. ~Pins(c) => AsStored(lo) \in Int /\ AsStored(hi) \in Int
    BY <1>1, <1>2
<1> QED BY <1>3, <1>4 DEF t

\* Of the positions a joint has, it keeps exactly those that put the joint
\* following it inside its own bounds, and refuses only if it keeps none.
LEMMA ThroughExact ==
  ASSUME NEW c \in Coupling, c.finite, NEW mlb \in Int, NEW mub \in Int,
         NEW lb \in Int, NEW ub \in Int,
         ~Pins(c) => /\ AsBound(mlb) <= AsBound(mub)
                     /\ Exact(c, AsBound(mlb)) /\ Exact(c, AsBound(mub)),
         NEW x \in Position, Couple(c, x) \in Position
  PROVE  LET t == TightenThroughCoupling(c, mlb, mub, lb, ub)
             kept == Inside(x, lb, ub) /\ Inside(Couple(c, x), AsBound(mlb), AsBound(mub))
         IN  /\ t.ok => (Inside(x, lb, ub) /\ Inside(x, t.lb, t.ub) <=> kept)
             /\ kept => t.ok
<1> DEFINE t == TightenThroughCoupling(c, mlb, mub, lb, ub)
           mlo == AsBound(mlb)
           mhi == AsBound(mub)
           back == Preimage(c, mlo, mhi)
           lo == Max({AsBound(lb), back[1]})
           hi == Min({AsBound(ub), back[2]})
           kept == Inside(x, lb, ub) /\ Inside(Couple(c, x), mlo, mhi)
<1>1. /\ mlo \in Bound /\ mhi \in Bound /\ mlo \in Int /\ mhi \in Int /\ x \in Int
      /\ AsBound(lb) \in Int /\ AsBound(ub) \in Int
      /\ AsBound(lb) <= x <=> lb <= x
      /\ x <= AsBound(ub) <=> x <= ub
    BY ReadExactly, BoundAssumption DEF Bound, Position
<1>2. CASE Pins(c)
  <2>1. (t.ok <=> Inside(c.offset, mlo, mhi)) /\ t.lb = lb /\ t.ub = ub
      BY <1>2 DEF TightenThroughCoupling, Inside
  <2>2. Couple(c, x) = c.offset
      BY <1>1, <1>2 DEF Pins, Couple, Coupling
  <2> HIDE DEF t, mlo, mhi
  <2>3. /\ t.ok => (Inside(x, lb, ub) /\ Inside(x, t.lb, t.ub) <=> kept)
        /\ kept => t.ok
      BY <2>1, <2>2
  <2> QED BY <2>3 DEF t, mlo, mhi
<1>3. CASE ~Pins(c)
  <2>1. (t.ok <=> lo <= hi) /\ (t.ok => t.lb = AsStored(lo) /\ t.ub = AsStored(hi))
      BY <1>3 DEF TightenThroughCoupling
  <2>2. /\ lo \in Int /\ hi \in Int /\ back[1] \in Int /\ back[2] \in Int
        /\ lo <= x <=> AsBound(lb) <= x /\ back[1] <= x
        /\ x <= hi <=> x <= AsBound(ub) /\ x <= back[2]
      BY <1>1, <1>3, ThroughEnds
  <2>3. Inside(Couple(c, x), mlo, mhi) <=> back[1] <= x /\ x <= back[2]
      BY <1>1, <1>3, PreimageExact DEF Inside
  <2> HIDE DEF lo, hi, back, t, mlo, mhi
  <2>4. kept <=> lo <= x /\ x <= hi
      BY <1>1, <2>2, <2>3 DEF Inside
  <2>5. /\ AsStored(lo) <= x <=> lo <= x
        /\ x <= AsStored(hi) <=> x <= hi
      BY <2>2, StoredCompares
  <2>6. t.ok => (Inside(x, t.lb, t.ub) <=> lo <= x /\ x <= hi)
      BY <2>1, <2>5 DEF Inside
  <2>7. kept => lo <= hi
      BY <1>1, <2>2, <2>4
  <2>8. kept => Inside(x, lb, ub)
      OBVIOUS
  <2>9. /\ t.ok => (Inside(x, lb, ub) /\ Inside(x, t.lb, t.ub) <=> kept)
        /\ kept => t.ok
      BY <2>1, <2>4, <2>6, <2>7, <2>8
  <2> QED BY <2>9 DEF t, mlo, mhi
<1> QED BY <1>2, <1>3

\* The image of an interval has what its positions are coupled to.
LEMMA ImageContains ==
  ASSUME NEW c \in Coupling, ~Pins(c), NEW lo \in Int, NEW hi \in Int,
         NEW x \in Position, Inside(x, lo, hi), Couple(c, x) \in Position
  PROVE  Inside(Couple(c, x), Image(c, lo, hi)[1], Image(c, lo, hi)[2])
<1> USE BoundAssumption
<1>1. c.multiplier \in Int /\ c.offset \in Int /\ c.multiplier # 0
    BY DEF Coupling, Pins
<1>2. x \in Int /\ lo <= x /\ x <= hi /\ -Sentinel < x /\ x < Sentinel
    BY DEF Inside, Position
<1> DEFINE y == Couple(c, x)
           a == CoupleBound(c, lo)
           b == CoupleBound(c, hi)
<1>3. y \in Int /\ -Sentinel < y /\ y < Sentinel
    BY DEF Position
<1>4. a \in Int /\ b \in Int
    BY <1>1 DEF CoupleBound, Couple, Sign
<1>5. CASE c.multiplier > 0
  <2>1. a <= y
    <3>1. CASE Infinite(lo)
      <4>1. lo = -Infinity /\ a = lo
          BY <1>1, <1>2, <1>5, <3>1 DEF Infinite, CoupleBound, Sign
      <4> QED BY <1>3, <4>1
    <3>2. CASE ~Infinite(lo)
      <4>1. c.multiplier * lo <= c.multiplier * x
          BY <1>1, <1>2, <1>5, Multiply
      <4> QED BY <1>1, <1>2, <3>2, <4>1 DEF CoupleBound, Couple
    <3> QED BY <3>1, <3>2
  <2>2. y <= b
    <3>1. CASE Infinite(hi)
      <4>1. hi = Infinity /\ b = hi
          BY <1>1, <1>2, <1>5, <3>1 DEF Infinite, CoupleBound, Sign
      <4> QED BY <1>3, <4>1
    <3>2. CASE ~Infinite(hi)
      <4>1. c.multiplier * x <= c.multiplier * hi
          BY <1>1, <1>2, <1>5, Multiply
      <4> QED BY <1>1, <1>2, <3>2, <4>1 DEF CoupleBound, Couple
    <3> QED BY <3>1, <3>2
  <2> HIDE DEF a, b, y
  <2>3. Inside(y, Ordered(a, b)[1], Ordered(a, b)[2])
      BY <1>3, <1>4, <2>1, <2>2 DEF Ordered, Inside
  <2> QED BY <2>3 DEF a, b, y, Image
<1>6. CASE c.multiplier < 0
  <2>1. y <= a
    <3>1. CASE Infinite(lo)
      <4>1. a = Infinity
          BY <1>1, <1>2, <1>6, <3>1 DEF Infinite, CoupleBound, Sign
      <4> QED BY <1>3, <4>1
    <3>2. CASE ~Infinite(lo)
      <4>1. c.multiplier * x <= c.multiplier * lo
          BY <1>1, <1>2, <1>6, Multiply
      <4> QED BY <1>1, <1>2, <3>2, <4>1 DEF CoupleBound, Couple
    <3> QED BY <3>1, <3>2
  <2>2. b <= y
    <3>1. CASE Infinite(hi)
      <4>1. b = -Infinity
          BY <1>1, <1>2, <1>6, <3>1 DEF Infinite, CoupleBound, Sign
      <4> QED BY <1>3, <4>1
    <3>2. CASE ~Infinite(hi)
      <4>1. c.multiplier * hi <= c.multiplier * x
          BY <1>1, <1>2, <1>6, Multiply
      <4> QED BY <1>1, <1>2, <3>2, <4>1 DEF CoupleBound, Couple
    <3> QED BY <3>1, <3>2
  <2> HIDE DEF a, b, y
  <2>3. Inside(y, Ordered(a, b)[1], Ordered(a, b)[2])
      BY <1>3, <1>4, <2>1, <2>2 DEF Ordered, Inside
  <2> QED BY <2>3 DEF a, b, y, Image
<1> QED BY <1>1, <1>5, <1>6

\* So effective bounds that hold the active joints hold the mimic joints too.
THEOREM TightenKeepsMimics ==
  ASSUME NEW d \in Seq(Coupling), NEW lb \in Seq(Int), NEW ub \in Seq(Int),
         Tighten(d, lb, ub).ok, NEW r, HasPositions(d, r)
  PROVE  LET t == Tighten(d, lb, ub)
             c == Expand(d, r)
         IN  (\A m \in Active(d) : Inside(r[m], t.lb[m], t.ub[m]))
             <=> \A i \in DOMAIN d : Inside(c[i], t.lb[i], t.ub[i])
<1> DEFINE lo == [i \in DOMAIN lb |-> AsBound(lb[i])]
           hi == [i \in DOMAIN ub |-> AsBound(ub[i])]
           t == Tighten(d, lb, ub)
           c == Expand(d, r)
<1>1. Valid(d) /\ DOMAIN lb = DOMAIN d /\ DOMAIN ub = DOMAIN d
    BY DEF Tighten
<1>2. lo \in [DOMAIN d -> Int] /\ hi \in [DOMAIN d -> Int]
    BY <1>1, BoundAssumption DEF AsBound
<1>3. \A i \in DOMAIN d : /\ t.lb[i] = AsStored(Effective(d, lo, hi, i)[1])
                          /\ t.ub[i] = AsStored(Effective(d, lo, hi, i)[2])
    BY DEF Tighten
<1> HIDE DEF lo, hi, t
<1>4. \A m \in Active(d) : m \in DOMAIN d /\ ~IsMimic(d, m) /\ c[m] = r[m] /\ r[m] \in Position
    BY DEF Active, Expand, HasPositions
<1>5. ASSUME \A m \in Active(d) : Inside(r[m], t.lb[m], t.ub[m]), NEW i \in DOMAIN d
      PROVE  Inside(c[i], t.lb[i], t.ub[i])
  <2>1. c[i] \in Position /\ c[i] \in Int
      BY DEF HasPositions, Position
  <2>2. CASE ~IsMimic(d, i)
      BY <1>4, <1>5, <2>2 DEF Active
  <2>3. CASE IsMimic(d, i)
    <3> DEFINE m == d[i].mimicked
               L == Lower(d, lo, hi, m)
               U == Upper(d, lo, hi, m)
    <3>1. m \in Active(d) /\ m \in DOMAIN d /\ ~IsMimic(d, m) /\ d[i] \in Coupling
        BY <1>1, <2>3 DEF Valid, Active
    <3>2. c[i] = Couple(d[i], r[m]) /\ r[m] \in Position
        BY <1>4, <2>3, <3>1 DEF Expand
    <3>3. L \in Int /\ U \in Int
        BY <1>2, <3>1, LowerUpper
    <3>4. Inside(r[m], L, U)
      <4>1. t.lb[m] = AsStored(L) /\ t.ub[m] = AsStored(U)
          BY <1>3, <3>1 DEF Effective
      <4> HIDE DEF L, U
      <4>2. Inside(r[m], AsStored(L), AsStored(U))
          BY <1>5, <3>1, <4>1
      <4> QED BY <3>2, <3>3, <4>2, StoredCompares DEF Inside
    <3>5. Effective(d, lo, hi, i) = IF Pins(d[i]) THEN <<d[i].offset, d[i].offset>>
                                                  ELSE Image(d[i], L, U)
        BY <2>3 DEF Effective
    <3> HIDE DEF L, U, m
    <3>6. CASE Pins(d[i])
      <4>1. c[i] = d[i].offset
        <5>1. d[i].multiplier = 0 /\ d[i].offset \in Int /\ r[m] \in Int
            BY <3>1, <3>2, <3>6 DEF Pins, Coupling, Position
        <5>2. d[i].multiplier * r[m] + d[i].offset = d[i].offset
            BY <5>1
        <5> QED BY <3>2, <5>2 DEF Couple
      <4>2. t.lb[i] = AsStored(c[i]) /\ t.ub[i] = AsStored(c[i])
          BY <1>3, <3>5, <3>6, <4>1
      <4> QED BY <2>1, <4>2, StoredCompares DEF Inside
    <3>7. CASE ~Pins(d[i])
      <4>1. Inside(c[i], Image(d[i], L, U)[1], Image(d[i], L, U)[2])
          BY <2>1, <3>1, <3>2, <3>3, <3>4, <3>7, ImageContains
      <4>2. Image(d[i], L, U)[1] \in Int /\ Image(d[i], L, U)[2] \in Int
          BY <3>1, <3>3, <3>7, MappedBounds
      <4>3. t.lb[i] = AsStored(Image(d[i], L, U)[1]) /\ t.ub[i] = AsStored(Image(d[i], L, U)[2])
          BY <1>3, <3>5, <3>7
      <4> QED BY <2>1, <4>1, <4>2, <4>3, StoredCompares DEF Inside
    <3> QED BY <3>6, <3>7
  <2> QED BY <2>2, <2>3
<1>6. ASSUME \A i \in DOMAIN d : Inside(c[i], t.lb[i], t.ub[i]), NEW m \in Active(d)
      PROVE  Inside(r[m], t.lb[m], t.ub[m])
    BY <1>4, <1>6
<1>7. (\A m \in Active(d) : Inside(r[m], t.lb[m], t.ub[m]))
      <=> \A i \in DOMAIN d : Inside(c[i], t.lb[i], t.ub[i])
    BY <1>5, <1>6
<1> QED BY <1>7 DEF t

\* Bounds as tighten reads them.
AsBounds(s) == [i \in DOMAIN s |-> AsBound(s[i])]

\* Put together: to judge every joint against the tightened bounds, as they are
\* stored, is to judge every joint against its own.
THEOREM TightenAdmits ==
  ASSUME NEW d \in Seq(Coupling), Valid(d), NEW lb \in Seq(Int), NEW ub \in Seq(Int),
         Len(lb) = Len(d), Len(ub) = Len(d),
         NEW lo, lo = AsBounds(lb), NEW hi, hi = AsBounds(ub),
         ExactBounds(d, lo, hi), NEW r, HasPositions(d, r), NEW t, t = Tighten(d, lb, ub)
  PROVE  /\ t.ok => (AllInside(d, lo, hi, r)
                     <=> \A i \in DOMAIN d : Inside(Expand(d, r)[i], t.lb[i], t.ub[i]))
         /\ AllInside(d, lo, hi, r) => t.ok
<1>1. /\ t.ok => (AllInside(d, lo, hi, r)
                  <=> \A m \in Active(d) : Inside(r[m], AsBound(t.lb[m]), AsBound(t.ub[m])))
      /\ AllInside(d, lo, hi, r) => t.ok
    BY TightenKeepsExactly DEF AsBounds
<1>2. ASSUME t.ok
      PROVE  (\A m \in Active(d) : Inside(r[m], AsBound(t.lb[m]), AsBound(t.ub[m])))
             <=> \A i \in DOMAIN d : Inside(Expand(d, r)[i], t.lb[i], t.ub[i])
  <2>1. ASSUME NEW m \in Active(d)
        PROVE  Inside(r[m], AsBound(t.lb[m]), AsBound(t.ub[m])) <=> Inside(r[m], t.lb[m], t.ub[m])
    <3>1. t.lb[m] \in Int /\ t.ub[m] \in Int /\ r[m] \in Position
        BY <1>2, TightenTyped DEF HasPositions, Active
    <3> QED BY <3>1, ReadExactly DEF Inside
  <2>2. (\A m \in Active(d) : Inside(r[m], t.lb[m], t.ub[m]))
        <=> \A i \in DOMAIN d : Inside(Expand(d, r)[i], t.lb[i], t.ub[i])
      BY <1>2, TightenKeepsMimics
  <2> QED BY <2>1, <2>2
<1> QED BY <1>1, <1>2

\* A bound that is stored and read again is the same bound.
LEMMA StoredBack == ASSUME NEW e \in Bound PROVE AsBound(AsStored(e)) = e
<1> USE BoundAssumption
<1>1. CASE e \in Position
    BY <1>1 DEF Position, AsStored, AsBound
<1>2. CASE e = Infinity
  <2>1. AsStored(e) = Sentinel
      BY <1>2 DEF AsStored
  <2> QED BY <1>2, <2>1 DEF AsBound
<1>3. CASE e = -Infinity
  <2>1. AsStored(e) = -Sentinel
      BY <1>3 DEF AsStored
  <2> QED BY <1>3, <2>1 DEF AsBound
<1> QED BY <1>1, <1>2, <1>3 DEF Bound

\* A multiple divided is the number it is a multiple of.
LEMMA DivideBack ==
  ASSUME NEW k \in Nat \ {0}, NEW x \in Int
  PROVE  (k * x) \div k = x
OBVIOUS

\* The preimage of a coupled bound is the bound.
LEMMA UncoupledBack ==
  ASSUME NEW c \in Coupling, ~Pins(c), NEW e \in Bound, e \in Position => Couple(c, e) \in Position
  PROVE  CoupleBound(c, e) \in Bound /\ UncoupleBound(c, CoupleBound(c, e)) = e
<1> USE BoundAssumption
<1> DEFINE s == Sign(c.multiplier)
<1>1. c.multiplier \in Int /\ c.offset \in Int /\ c.multiplier # 0
    BY DEF Coupling, Pins
<1>2. s \in {-1, 1} /\ s * c.multiplier \in Nat \ {0}
    BY <1>1 DEF Sign
<1> HIDE DEF s
<1>3. CASE Infinite(e)
  <2>1. CoupleBound(c, e) = s * e
      BY <1>3 DEF CoupleBound, s
  <2>2. Infinite(s * e) /\ s * (s * e) = e
      BY <1>2, <1>3 DEF Infinite
  <2> QED BY <2>1, <2>2 DEF UncoupleBound, Bound, Infinite, s
<1>4. CASE ~Infinite(e)
  <2>1. e \in Int /\ e \in Position
      BY <1>4 DEF Bound, Position, Infinite
  <2>2. CoupleBound(c, e) = c.multiplier * e + c.offset /\ CoupleBound(c, e) \in Position
      BY <1>4, <2>1 DEF CoupleBound, Couple
  <2>3. ~Infinite(CoupleBound(c, e))
      BY <2>2 DEF Position, Infinite
  <2>4. UncoupleBound(c, CoupleBound(c, e))
        = (s * (CoupleBound(c, e) - c.offset)) \div (s * c.multiplier)
      BY <2>3 DEF UncoupleBound, s
  <2>5. s * (CoupleBound(c, e) - c.offset) = (s * c.multiplier) * e
    <3>1. c.multiplier * e \in Int
        BY <1>1, <2>1
    <3>2. CoupleBound(c, e) - c.offset = c.multiplier * e
        BY <1>1, <2>2, <3>1
    <3>3. s * (c.multiplier * e) = (s * c.multiplier) * e
        BY <1>1, <1>2, <2>1
    <3> QED BY <3>2, <3>3
  <2> QED BY <1>2, <2>1, <2>2, <2>4, <2>5, DivideBack DEF Bound
<1> QED BY <1>3, <1>4

\* An interval mapped onto a mimic joint and back is the interval.
LEMMA ImageBack ==
  ASSUME NEW c \in Coupling, ~Pins(c), NEW lo \in Bound, NEW hi \in Bound, lo <= hi,
         lo \in Position => Couple(c, lo) \in Position,
         hi \in Position => Couple(c, hi) \in Position
  PROVE  /\ Image(c, lo, hi)[1] \in Bound /\ Image(c, lo, hi)[2] \in Bound
         /\ Preimage(c, Image(c, lo, hi)[1], Image(c, lo, hi)[2]) = <<lo, hi>>
<1> DEFINE a == CoupleBound(c, lo)
           b == CoupleBound(c, hi)
<1>1. /\ a \in Bound /\ UncoupleBound(c, a) = lo
      /\ b \in Bound /\ UncoupleBound(c, b) = hi
    BY UncoupledBack
<1>2. Image(c, lo, hi) = <<a, b>> \/ Image(c, lo, hi) = <<b, a>>
    BY DEF Image, Ordered
<1>3. lo \in Int /\ hi \in Int
    BY BoundAssumption DEF Bound, Position
<1> HIDE DEF a, b
<1>4. Ordered(lo, hi) = <<lo, hi>> /\ Ordered(hi, lo) = <<lo, hi>>
    BY <1>3 DEF Ordered
<1>5. Preimage(c, a, b) = <<lo, hi>> /\ Preimage(c, b, a) = <<lo, hi>>
    BY <1>1, <1>4 DEF Preimage
<1> QED BY <1>1, <1>2, <1>5

\* The ends of the effective bounds, as numbers.
EndsOf(d, lo, hi, k) == [i \in DOMAIN d |-> Effective(d, lo, hi, i)[k]]

\* Effective bounds leave each active joint the interval it has.
LEMMA IntervalsKept ==
  ASSUME NEW d \in Seq(Coupling), Valid(d),
         NEW lo \in [DOMAIN d -> Int], NEW hi \in [DOMAIN d -> Int],
         Satisfiable(d, lo, hi), Storable(d, lo, hi), NEW m \in Active(d)
  PROVE  /\ Lower(d, EndsOf(d, lo, hi, 1), EndsOf(d, lo, hi, 2), m) = Lower(d, lo, hi, m)
         /\ Upper(d, EndsOf(d, lo, hi, 1), EndsOf(d, lo, hi, 2), m) = Upper(d, lo, hi, m)
<1> DEFINE L == Lower(d, lo, hi, m)
           U == Upper(d, lo, hi, m)
           elo == EndsOf(d, lo, hi, 1)
           ehi == EndsOf(d, lo, hi, 2)
<1>1. m \in DOMAIN d /\ L \in Bound /\ U \in Bound /\ L <= U
    BY DEF Storable, Satisfiable, Active
<1>2. elo[m] = L /\ ehi[m] = U
    BY <1>1 DEF EndsOf, Effective, Active
<1>3. ASSUME NEW i \in Binding(d, m)
      PROVE  Preimage(d[i], elo[i], ehi[i]) = <<L, U>>
  <2>1. /\ i \in DOMAIN d /\ i \in Followers(d, m) /\ IsMimic(d, i) /\ d[i].mimicked = m
        /\ d[i] \in Coupling /\ ~Pins(d[i])
      BY DEF Binding, Followers, Mimics
  <2>2. /\ L \in Position => Couple(d[i], L) \in Position
        /\ U \in Position => Couple(d[i], U) \in Position
      BY <2>1 DEF Storable
  <2>3. elo[i] = Image(d[i], L, U)[1] /\ ehi[i] = Image(d[i], L, U)[2]
      BY <2>1 DEF EndsOf, Effective
  <2> HIDE DEF L, U, elo, ehi
  <2> QED BY <1>1, <2>1, <2>2, <2>3, ImageBack
<1>4. EndsLeft(d, elo, ehi, m, 1) \subseteq {L} /\ EndsLeft(d, elo, ehi, m, 2) \subseteq {U}
    BY <1>3 DEF EndsLeft
<1>5. Max({L}) = L /\ Min({U}) = U
  <2>1. L \in Int /\ U \in Int
      BY <1>1, BoundAssumption DEF Bound, Position
  <2> HIDE DEF L, U
  <2>2. \A x \in Int : {x} \in SUBSET Int /\ IsFiniteSet({x}) /\ {x} # {}
      BY FS_Singleton
  <2>3. Max({L}) \in {L} /\ Min({U}) \in {U}
      BY <2>1, <2>2, MaxProperty, MinProperty
  <2> QED BY <2>3
<1>6. {elo[m]} \cup EndsLeft(d, elo, ehi, m, 1) = {L}
      /\ {ehi[m]} \cup EndsLeft(d, elo, ehi, m, 2) = {U}
    BY <1>2, <1>4
<1> HIDE DEF L, U, elo, ehi
<1>7. Lower(d, elo, ehi, m) = L /\ Upper(d, elo, ehi, m) = U
    BY <1>5, <1>6 DEF Lower, Upper
<1> QED BY <1>7 DEF L, U, elo, ehi

\* ... so they are the effective bounds of themselves, and as satisfiable.
LEMMA EffectiveKept ==
  ASSUME NEW d \in Seq(Coupling), Valid(d),
         NEW lo \in [DOMAIN d -> Int], NEW hi \in [DOMAIN d -> Int],
         Satisfiable(d, lo, hi), Storable(d, lo, hi)
  PROVE  /\ Satisfiable(d, EndsOf(d, lo, hi, 1), EndsOf(d, lo, hi, 2))
         /\ \A i \in DOMAIN d :
              Effective(d, EndsOf(d, lo, hi, 1), EndsOf(d, lo, hi, 2), i) = Effective(d, lo, hi, i)
<1> DEFINE elo == EndsOf(d, lo, hi, 1)
           ehi == EndsOf(d, lo, hi, 2)
<1>1. \A m \in Active(d) : /\ Lower(d, elo, ehi, m) = Lower(d, lo, hi, m)
                           /\ Upper(d, elo, ehi, m) = Upper(d, lo, hi, m)
    BY IntervalsKept
<1>2. ASSUME NEW i \in Mimics(d), Pins(d[i])
      PROVE  elo[i] <= d[i].offset /\ d[i].offset <= ehi[i]
  <2>1. Effective(d, lo, hi, i) = <<d[i].offset, d[i].offset>> /\ i \in DOMAIN d
      BY <1>2 DEF Effective, Mimics
  <2>2. elo[i] = d[i].offset /\ ehi[i] = d[i].offset
      BY <2>1 DEF EndsOf
  <2>3. d[i].offset \in Int
    <3>1. d[i] \in Coupling
        BY <2>1
    <3> QED BY <3>1 DEF Coupling
  <2> QED BY <2>2, <2>3
<1> HIDE DEF elo, ehi
<1>3. Satisfiable(d, elo, ehi)
    BY <1>1, <1>2 DEF Satisfiable
<1>4. ASSUME NEW i \in DOMAIN d
      PROVE  Effective(d, elo, ehi, i) = Effective(d, lo, hi, i)
  <2>1. IsMimic(d, i) => d[i].mimicked \in Active(d)
      BY DEF Valid, Active
  <2>2. ~IsMimic(d, i) => i \in Active(d)
      BY DEF Active
  <2> QED BY <1>1, <2>1, <2>2 DEF Effective
<1> QED BY <1>3, <1>4 DEF elo, ehi

\* Effective bounds are bounds.
LEMMA EndsAreBounds ==
  ASSUME NEW d \in Seq(Coupling), Valid(d), NEW lo, NEW hi,
         Satisfiable(d, lo, hi), Storable(d, lo, hi), NEW i \in DOMAIN d, NEW k \in {1, 2}
  PROVE  Effective(d, lo, hi, i)[k] \in Bound
<1>1. CASE ~IsMimic(d, i)
    BY <1>1 DEF Effective, Storable, Active
<1>2. CASE IsMimic(d, i) /\ Pins(d[i])
    BY <1>2 DEF Effective, Storable, Mimics, Bound
<1>3. CASE IsMimic(d, i) /\ ~Pins(d[i])
  <2> DEFINE m == d[i].mimicked
             L == Lower(d, lo, hi, m)
             U == Upper(d, lo, hi, m)
  <2>1. m \in Active(d) /\ i \in Followers(d, m) /\ d[i] \in Coupling
      BY <1>3 DEF Valid, Active, Followers, Mimics
  <2>2. /\ L \in Bound /\ U \in Bound /\ L <= U
        /\ L \in Position => Couple(d[i], L) \in Position
        /\ U \in Position => Couple(d[i], U) \in Position
      BY <2>1 DEF Storable, Satisfiable
  <2>3. Effective(d, lo, hi, i) = Image(d[i], L, U)
      BY <1>3 DEF Effective
  <2> HIDE DEF L, U
  <2> QED BY <1>3, <2>1, <2>2, <2>3, ImageBack
<1> QED BY <1>1, <1>2, <1>3

\* Tightened bounds, tightened again, stay as they are: a caller may hand a
\* solver's own limits back as a query's bounds.
THEOREM TightenOnce ==
  ASSUME NEW d \in Seq(Coupling), NEW lb \in Seq(Int), NEW ub \in Seq(Int),
         NEW lo, lo = [i \in DOMAIN lb |-> AsBound(lb[i])],
         NEW hi, hi = [i \in DOMAIN ub |-> AsBound(ub[i])],
         Storable(d, lo, hi), Tighten(d, lb, ub).ok
  PROVE  LET t == Tighten(d, lb, ub) IN Tighten(d, t.lb, t.ub) = t
<1> DEFINE t   == Tighten(d, lb, ub)
           elo == EndsOf(d, lo, hi, 1)
           ehi == EndsOf(d, lo, hi, 2)
<1>1. /\ Valid(d) /\ DOMAIN lb = DOMAIN d /\ DOMAIN ub = DOMAIN d
      /\ Satisfiable(d, lo, hi)
    BY DEF Tighten
<1>2. lo \in [DOMAIN d -> Int] /\ hi \in [DOMAIN d -> Int]
    BY <1>1, BoundAssumption DEF AsBound
<1>3. /\ t = [ok |-> TRUE, lb |-> t.lb, ub |-> t.ub]
      /\ t.lb = [i \in DOMAIN d |-> AsStored(elo[i])]
      /\ t.ub = [i \in DOMAIN d |-> AsStored(ehi[i])]
    BY DEF Tighten, EndsOf
<1>4. /\ Len(t.lb) = Len(d) /\ Len(t.ub) = Len(d)
      /\ DOMAIN t.lb = DOMAIN d /\ DOMAIN t.ub = DOMAIN d
    BY TightenTyped
<1>5. \A i \in DOMAIN d : elo[i] \in Bound /\ ehi[i] \in Bound
    BY <1>1, EndsAreBounds DEF EndsOf
<1>6. /\ Satisfiable(d, elo, ehi)
      /\ \A i \in DOMAIN d : Effective(d, elo, ehi, i) = Effective(d, lo, hi, i)
    BY <1>1, <1>2, EffectiveKept
<1>7. /\ elo = [i \in DOMAIN d |-> elo[i]] /\ ehi = [i \in DOMAIN d |-> ehi[i]]
      /\ \A i \in DOMAIN d : /\ elo[i] = Effective(d, lo, hi, i)[1]
                             /\ ehi[i] = Effective(d, lo, hi, i)[2]
    BY DEF EndsOf
<1> HIDE DEF t, elo, ehi
<1>8. /\ [i \in DOMAIN t.lb |-> AsBound(t.lb[i])] = elo
      /\ [i \in DOMAIN t.ub |-> AsBound(t.ub[i])] = ehi
  <2>1. \A i \in DOMAIN d : AsBound(t.lb[i]) = elo[i] /\ AsBound(t.ub[i]) = ehi[i]
      BY <1>3, <1>5, StoredBack
  <2> QED BY <1>4, <1>7, <2>1
<1>9. Tighten(d, t.lb, t.ub)
      = [ok |-> TRUE, lb |-> [i \in DOMAIN d |-> AsStored(Effective(d, elo, ehi, i)[1])],
                      ub |-> [i \in DOMAIN d |-> AsStored(Effective(d, elo, ehi, i)[2])]]
    BY <1>1, <1>4, <1>6, <1>8 DEF Tighten
<1>10. /\ [i \in DOMAIN d |-> AsStored(Effective(d, elo, ehi, i)[1])] = t.lb
       /\ [i \in DOMAIN d |-> AsStored(Effective(d, elo, ehi, i)[2])] = t.ub
  <2>1. \A i \in DOMAIN d : /\ Effective(d, elo, ehi, i)[1] = elo[i]
                            /\ Effective(d, elo, ehi, i)[2] = ehi[i]
      BY <1>6, <1>7
  <2> QED BY <1>3, <2>1
<1>11. Tighten(d, t.lb, t.ub) = t
    BY <1>3, <1>9, <1>10
<1> QED BY <1>11 DEF t

-----------------------------------------------------------------------------
(***************************************************************************)
(* What the operators of Angles do to a joint, for every revolution,       *)
(* value, target and pair of limits.                                       *)
(***************************************************************************)

\* Quotient and remainder.
LEMMA Division ==
  ASSUME NEW a \in Int, NEW b \in Nat \ {0}
  PROVE  /\ a % b \in 0..(b-1)
         /\ a \div b \in Int
         /\ a = b * (a \div b) + (a % b)
OBVIOUS

\* A multiple lies at least one multiple away from a larger or smaller one.
LEMMA Apart ==
  ASSUME NEW b \in Nat \ {0}, NEW k \in Int
  PROVE  /\ b * k \in Int
         /\ k >= 1 => b * k >= b
         /\ k <= -1 => b * k <= -b
         /\ k = 0 => b * k = 0
OBVIOUS

\* A multiple leaves no remainder.
LEMMA Multiples ==
  ASSUME NEW b \in Nat \ {0}, NEW k \in Int
  PROVE  (b * k) % b = 0
<1> DEFINE q == (b*k) \div b
           r == (b*k) % b
<1>1. b*k \in Int
    OBVIOUS
<1>2. r \in 0..(b-1) /\ q \in Int /\ b*k = b*q + r
    BY <1>1, Division
<1> HIDE DEF q, r
<1>3. r = b * (k - q) /\ k - q \in Int
    BY <1>2
<1>4. k - q = 0
    BY <1>2, <1>3, Apart
<1> QED BY <1>2, <1>3, <1>4 DEF r

-----------------------------------------------------------------------------
\* x and y are the same angle.
SameAngle(x, y, b) == \E k \in Int : y = x + b * k

\* Where a value above max, and one below min, is turned to.
Down(v, high, b) == high + ((v - high) % b) - b
Up(v, low, b)    == low - ((low - v) % b) + b

\* A turn by revolutions can be undone, ...
LEMMA SameAngleSymmetric ==
  ASSUME NEW b \in Nat \ {0}, NEW x \in Int, NEW y \in Int, SameAngle(x, y, b)
  PROVE  SameAngle(y, x, b)
<1>1. PICK k \in Int : y = x + b * k
    BY DEF SameAngle
<1>2. x = y + b * (-k) /\ -k \in Int
    BY <1>1
<1> QED BY <1>2 DEF SameAngle

\* ... and two of them are one.
LEMMA SameAngleTransitive ==
  ASSUME NEW b \in Nat \ {0}, NEW x \in Int, NEW y \in Int, NEW z \in Int,
         SameAngle(x, y, b), SameAngle(y, z, b)
  PROVE  SameAngle(x, z, b)
<1>1. PICK k \in Int : y = x + b * k
    BY DEF SameAngle
<1>2. PICK j \in Int : z = y + b * j
    BY DEF SameAngle
<1>3. z = x + b * (k + j) /\ k + j \in Int
    BY <1>1, <1>2
<1> QED BY <1>3 DEF SameAngle

\* A value turned down is the largest equal angle below the upper end.
LEMMA TurnedDown ==
  ASSUME NEW b \in Nat \ {0}, NEW v \in Int, NEW high \in Int
  PROVE  /\ Down(v, high, b) \in Int
         /\ high - b <= Down(v, high, b) /\ Down(v, high, b) < high
         /\ SameAngle(v, Down(v, high, b), b)
         /\ \A x \in Int : SameAngle(v, x, b) /\ x < high => x <= Down(v, high, b)
<1> DEFINE q == (v - high) \div b
           r == (v - high) % b
<1>1. r \in 0..(b-1) /\ q \in Int /\ v - high = b*q + r
    BY Division
<1>2. Down(v, high, b) = high + r - b
    BY DEF Down
<1> HIDE DEF q, r
<1>3. Down(v, high, b) = v + b * (-q - 1) /\ -q - 1 \in Int
    BY <1>1, <1>2
<1>4. ASSUME NEW x \in Int, SameAngle(v, x, b), x < high
      PROVE  x <= Down(v, high, b)
  <2>1. PICK k \in Int : x = v + b * k
      BY <1>4 DEF SameAngle
  <2>2. x = high + r + b * (q + k) /\ q + k \in Int
      BY <1>1, <2>1
  <2>3. q + k <= -1
      BY <1>1, <1>4, <2>2, Apart
  <2> QED BY <1>1, <1>2, <2>2, <2>3, Apart
<1> QED BY <1>1, <1>2, <1>3, <1>4 DEF SameAngle

\* A value turned up is the smallest equal angle above the lower end.
LEMMA TurnedUp ==
  ASSUME NEW b \in Nat \ {0}, NEW v \in Int, NEW low \in Int
  PROVE  /\ Up(v, low, b) \in Int
         /\ low < Up(v, low, b) /\ Up(v, low, b) <= low + b
         /\ SameAngle(v, Up(v, low, b), b)
         /\ \A x \in Int : SameAngle(v, x, b) /\ low < x => Up(v, low, b) <= x
<1> DEFINE q == (low - v) \div b
           r == (low - v) % b
<1>1. r \in 0..(b-1) /\ q \in Int /\ low - v = b*q + r
    BY Division
<1>2. Up(v, low, b) = low - r + b
    BY DEF Up
<1> HIDE DEF q, r
<1>3. Up(v, low, b) = v + b * (q + 1) /\ q + 1 \in Int
    BY <1>1, <1>2
<1>4. ASSUME NEW x \in Int, SameAngle(v, x, b), low < x
      PROVE  Up(v, low, b) <= x
  <2>1. PICK k \in Int : x = v + b * k
      BY <1>4 DEF SameAngle
  <2>2. x = low - r + b * (k - q) /\ k - q \in Int
      BY <1>1, <2>1
  <2>3. k - q >= 1
      BY <1>1, <1>4, <2>2, Apart
  <2> QED BY <1>1, <1>2, <2>2, <2>3, Apart
<1> QED BY <1>1, <1>2, <1>3, <1>4 DEF SameAngle

Lowered(v, hi, b) == IF v > hi THEN Down(v, hi, b) ELSE v

\* NormalizeAngle in terms of the two turns: the second sees what the first
\* one left.
LEMMA InTwoTurns ==
  ASSUME NEW b \in Nat \ {0}, NEW v \in Int, NEW lo \in Int, NEW hi \in Int
  PROVE  /\ NormalizeAngle(v, lo, hi, b) = IF Lowered(v, hi, b) < lo
                                           THEN Up(Lowered(v, hi, b), lo, b)
                                           ELSE Lowered(v, hi, b)
         /\ Lowered(v, hi, b) \in Int /\ SameAngle(v, Lowered(v, hi, b), b)
<1>1. v = v + b * 0 /\ 0 \in Int
    OBVIOUS
<1>2. Lowered(v, hi, b) \in Int /\ SameAngle(v, Lowered(v, hi, b), b)
    BY <1>1, TurnedDown DEF SameAngle, Lowered
<1> QED BY <1>2 DEF NormalizeAngle, Lowered, Down, Up

\* It turns by revolutions, and into an interval a revolution fits in.
LEMMA AngleNormalized ==
  ASSUME NEW b \in Nat \ {0}, NEW v \in Int, NEW lo \in Int, NEW hi \in Int
  PROVE  /\ NormalizeAngle(v, lo, hi, b) \in Int
         /\ SameAngle(v, NormalizeAngle(v, lo, hi, b), b)
         /\ hi - lo >= b => /\ lo <= NormalizeAngle(v, lo, hi, b)
                            /\ NormalizeAngle(v, lo, hi, b) <= hi
<1> DEFINE y == NormalizeAngle(v, lo, hi, b)
           w == Lowered(v, hi, b)
<1>1. /\ y = IF w < lo THEN Up(w, lo, b) ELSE w
      /\ w \in Int /\ SameAngle(v, w, b)
    BY InTwoTurns
<1> HIDE DEF y, w
<1>2. /\ Up(w, lo, b) \in Int /\ SameAngle(w, Up(w, lo, b), b)
      /\ lo < Up(w, lo, b) /\ Up(w, lo, b) <= lo + b
    BY <1>1, TurnedUp
<1>3. y \in Int /\ SameAngle(v, y, b)
    BY <1>1, <1>2, SameAngleTransitive
<1>4. w <= hi
  <2>1. Down(v, hi, b) < hi /\ Down(v, hi, b) \in Int
      BY TurnedDown
  <2> QED BY <2>1 DEF Lowered, w
<1>5. hi - lo >= b => lo <= y /\ y <= hi
    BY <1>1, <1>2, <1>4
<1> QED BY <1>3, <1>5 DEF y

\* A value that is inside stays.
LEMMA Stays ==
  ASSUME NEW b \in Nat \ {0}, NEW v \in Int, NEW lo \in Int, NEW hi \in Int,
         lo <= v, v <= hi
  PROVE  NormalizeAngle(v, lo, hi, b) = v
<1>1. ~(v > hi) /\ ~(v < lo)
    OBVIOUS
<1>2. Lowered(v, hi, b) = v
    BY <1>1 DEF Lowered
<1> QED BY <1>1, <1>2, InTwoTurns

\* A value past the upper end is turned down, but not below the lower end.
LEMMA ComesDown ==
  ASSUME NEW b \in Nat \ {0}, NEW v \in Int, NEW lo \in Int, NEW hi \in Int,
         v > hi, v > lo
  PROVE  /\ NormalizeAngle(v, lo, hi, b) <= v
         /\ ~(Down(v, hi, b) < lo) => NormalizeAngle(v, lo, hi, b) = Down(v, hi, b)
<1> DEFINE y == NormalizeAngle(v, lo, hi, b)
           w == Down(v, hi, b)
<1>1. y = IF w < lo THEN Up(w, lo, b) ELSE w
    BY InTwoTurns DEF Lowered
<1>2. w \in Int /\ w < hi /\ SameAngle(v, w, b)
    BY TurnedDown
<1> HIDE DEF y, w
<1>3. SameAngle(w, v, b)
    BY <1>2, SameAngleSymmetric
<1>4. Up(w, lo, b) <= v
    BY <1>2, <1>3, TurnedUp
<1>5. y <= v
    BY <1>1, <1>2, <1>4
<1> QED BY <1>1, <1>5 DEF y, w

\* A value past the lower end is turned up.
LEMMA ComesUp ==
  ASSUME NEW b \in Nat \ {0}, NEW v \in Int, NEW lo \in Int, NEW hi \in Int,
         v <= hi, v < lo
  PROVE  /\ NormalizeAngle(v, lo, hi, b) = Up(v, lo, b)
         /\ NormalizeAngle(v, lo, hi, b) > v
<1>1. ~(v > hi)
    OBVIOUS
<1>2. Lowered(v, hi, b) = v
    BY <1>1 DEF Lowered
<1>3. NormalizeAngle(v, lo, hi, b) = Up(v, lo, b)
    BY <1>2, InTwoTurns
<1>4. lo < Up(v, lo, b) /\ Up(v, lo, b) \in Int
    BY TurnedUp
<1> QED BY <1>3, <1>4

-----------------------------------------------------------------------------
\* Normalising a limited joint turns it by revolutions, into limits that span
\* one, or that held both the value found and the target.
LEMMA TurnedIntoLimits ==
  ASSUME NEW b \in Nat \ {0}, NEW v \in Int, NEW t \in Int, NEW lo \in Int, NEW hi \in Int
  PROVE  LET y == NormalizeInto(v, t, lo, hi, b) IN
         /\ y \in Int /\ SameAngle(v, y, b)
         /\ hi - lo >= b => lo <= y /\ y <= hi
         /\ lo <= v /\ v <= hi /\ lo <= t /\ t <= hi => lo <= y /\ y <= hi
<1> DEFINE h == b \div 2
           near == NormalizeNear(v, t, b)
           y == NormalizeInto(v, t, lo, hi, b)
<1>1. h \in Nat
    OBVIOUS
<1> HIDE DEF h
<1> DEFINE bottom == t - h
           top == t + h
<1>2. near = NormalizeAngle(v, bottom, top, b)
    BY DEF NormalizeNear, h
<1>3. y = NormalizeAngle(near, lo, hi, b)
    BY DEF NormalizeInto
<1>4. bottom \in Int /\ top \in Int /\ bottom <= t /\ t <= top
    BY <1>1
<1> HIDE DEF near, y, bottom, top
<1>5. near \in Int /\ SameAngle(v, near, b)
    BY <1>2, <1>4, AngleNormalized
<1>6. y \in Int /\ SameAngle(near, y, b)
    BY <1>3, <1>5, AngleNormalized
<1>7. SameAngle(v, y, b) /\ SameAngle(near, v, b)
    BY <1>5, <1>6, SameAngleSymmetric, SameAngleTransitive
<1>8. hi - lo >= b => lo <= y /\ y <= hi
    BY <1>3, <1>5, AngleNormalized
\* A value inside is turned toward the target, at most past it.
<1>9. /\ v > top => near <= v
      /\ v <= top /\ v < bottom => near > v
      /\ v <= top /\ bottom <= v => near = v
  <2>1. v > top => v > bottom
      BY <1>4
  <2> QED BY <1>2, <1>4, <2>1, Stays, ComesDown, ComesUp
<1>10. ASSUME lo <= v, v <= hi, lo <= t, t <= hi
       PROVE  lo <= y /\ y <= hi
  <2>1. CASE lo <= near /\ near <= hi
      BY <1>3, <1>5, <2>1, Stays
  \* Past the upper end it came from below the target, and there is room.
  <2>2. CASE near > hi
    <3>1. v < hi
        BY <1>4, <1>5, <1>9, <1>10, <2>2
    <3>2. v <= Down(near, hi, b) /\ Down(near, hi, b) < hi /\ Down(near, hi, b) \in Int
        BY <1>5, <1>7, <3>1, TurnedDown
    <3>3. ~(Down(near, hi, b) < lo)
        BY <1>10, <3>2
    <3>5. near > lo
        BY <1>5, <1>10, <2>2
    <3>4. y = Down(near, hi, b)
        BY <1>3, <1>5, <2>2, <3>1, <3>3, <3>5, ComesDown
    <3> QED BY <1>10, <3>2, <3>4
  <2>3. CASE near < lo
    <3>1. lo < v
        BY <1>4, <1>5, <1>9, <1>10, <2>3
    <3>2. Up(near, lo, b) <= v /\ lo < Up(near, lo, b) /\ Up(near, lo, b) \in Int
        BY <1>5, <1>7, <3>1, TurnedUp
    <3>3. near <= hi
        BY <1>5, <1>10, <2>3
    <3>4. y = Up(near, lo, b)
        BY <1>3, <1>5, <2>3, <3>3, ComesUp
    <3> QED BY <1>10, <3>2, <3>4
  <2> QED BY <1>5, <2>1, <2>2, <2>3
<1> QED BY <1>6, <1>7, <1>8, <1>10 DEF y

-----------------------------------------------------------------------------
\* Equal angles that differ are a revolution apart.
LEMMA RevolutionApart ==
  ASSUME NEW b \in Nat \ {0}, NEW x \in Int, NEW y \in Int, SameAngle(x, y, b), x < y
  PROVE  x + b <= y
<1>1. PICK k \in Int : y = x + b * k
    BY DEF SameAngle
<1>2. k >= 1
    BY <1>1, Apart
<1> QED BY <1>1, <1>2, Apart

\* A value turned into an interval around t and then into limits around t stays,
\* when the first spans one revolution and the second at least that.
LEMMA TurnedOnce ==
  ASSUME NEW b \in Nat \ {0}, NEW v \in Int, NEW t \in Int,
         NEW bottom \in Int, NEW top \in Int, top - bottom = b, bottom <= t, t <= top,
         NEW lo \in Int, NEW hi \in Int, hi - lo >= b, lo <= t, t <= hi
  PROVE  LET y == NormalizeAngle(NormalizeAngle(v, bottom, top, b), lo, hi, b)
         IN  NormalizeAngle(NormalizeAngle(y, bottom, top, b), lo, hi, b) = y
<1> DEFINE near == NormalizeAngle(v, bottom, top, b)
           y == NormalizeAngle(near, lo, hi, b)
           again == NormalizeAngle(y, bottom, top, b)
           last == NormalizeAngle(again, lo, hi, b)
<1>2. near \in Int /\ bottom <= near /\ near <= top
    BY AngleNormalized
<1>4. near = NormalizeAngle(v, bottom, top, b) /\ y = NormalizeAngle(near, lo, hi, b)
    OBVIOUS
<1>5. again = NormalizeAngle(y, bottom, top, b) /\ last = NormalizeAngle(again, lo, hi, b)
    OBVIOUS
<1> HIDE DEF near, y, again, last
<1>3. y \in Int /\ SameAngle(near, y, b) /\ lo <= y /\ y <= hi
    BY <1>2, <1>4, AngleNormalized
<1>6. again \in Int /\ SameAngle(y, again, b) /\ bottom <= again /\ again <= top
    BY <1>3, <1>5, AngleNormalized
<1>7. SameAngle(near, again, b) /\ SameAngle(y, near, b) /\ SameAngle(again, y, b)
    BY <1>2, <1>3, <1>6, SameAngleTransitive, SameAngleSymmetric
\* A value the limits turned down was above them, one turned up below.
<1>8. ASSUME near > hi PROVE y = Down(near, hi, b)
  <2>1. hi - b <= Down(near, hi, b) /\ Down(near, hi, b) \in Int
      BY <1>2, TurnedDown
  <2>2. near > lo /\ ~(Down(near, hi, b) < lo)
      BY <1>2, <1>8, <2>1
  <2> QED BY <1>2, <1>4, <1>8, <2>2, ComesDown
<1>9. ASSUME near < lo PROVE y = Up(near, lo, b)
  <2>1. near <= hi
      BY <1>2, <1>9
  <2> QED BY <1>2, <1>4, <1>9, <2>1, ComesUp
<1>10. lo <= near /\ near <= hi => y = near
    BY <1>2, <1>4, Stays
<1>11. ASSUME bottom <= y /\ y <= top PROVE last = y
  <2>1. again = y
      BY <1>3, <1>5, <1>11, Stays
  <2> QED BY <1>3, <1>5, <2>1, Stays
<1>12. ASSUME y > top PROVE last = y
  <2>1. near < lo /\ y = Up(near, lo, b)
    <3>1. near > hi => y < hi
        BY <1>2, <1>8, TurnedDown
    <3>2. ~(near > hi)
        BY <1>2, <1>3, <1>7, <1>8, <1>12, <3>1, TurnedDown
    <3> QED BY <1>2, <1>3, <1>9, <1>10, <1>12, <3>2
  <2>2. again < top
    <3>1. Down(y, top, b) < top /\ top - b <= Down(y, top, b) /\ Down(y, top, b) \in Int
        BY <1>3, TurnedDown
    <3>2. y > bottom /\ ~(Down(y, top, b) < bottom)
        BY <1>3, <1>12, <3>1
    <3>3. again = Down(y, top, b)
        BY <1>3, <1>5, <1>12, <3>2, ComesDown
    <3> QED BY <3>1, <3>3
  <2>3. ~(again > lo)
    <3>1. again > lo => y <= again
        BY <1>2, <1>6, <1>7, <2>1, TurnedUp
    <3> QED BY <1>3, <1>6, <1>12, <2>2, <3>1
  <2>4. again # lo
    <3>1. again = lo => near + b <= again
        BY <1>2, <1>6, <1>7, <2>1, RevolutionApart
    <3> QED BY <1>2, <1>6, <2>2, <3>1
  <2>5. last = Up(again, lo, b)
    <3>1. again < lo /\ again <= hi
        BY <1>6, <2>3, <2>4
    <3> QED BY <1>5, <1>6, <3>1, ComesUp
  <2>6. /\ lo < Up(again, lo, b) /\ Up(again, lo, b) \in Int /\ SameAngle(again, Up(again, lo, b), b)
        /\ lo < Up(near, lo, b)
      BY <1>2, <1>6, TurnedUp
  <2>7. SameAngle(near, Up(again, lo, b), b)
      BY <1>2, <1>6, <1>7, <2>6, SameAngleTransitive
  <2>8. y <= Up(again, lo, b)
      BY <1>2, <2>1, <2>6, <2>7, TurnedUp
  <2>9. Up(again, lo, b) <= y
      BY <1>3, <1>6, <1>7, <2>1, <2>6, TurnedUp
  <2> QED BY <1>3, <2>5, <2>6, <2>8, <2>9
<1>13. ASSUME y < bottom PROVE last = y
  <2>1. near > hi /\ y = Down(near, hi, b)
    <3>1. near < lo => lo < y
        BY <1>2, <1>9, TurnedUp
    <3>2. ~(near < lo)
        BY <1>2, <1>3, <1>7, <1>9, <1>13, <3>1, TurnedUp
    <3> QED BY <1>2, <1>3, <1>8, <1>10, <1>13, <3>2
  <2>2. bottom < again
    <3>1. y <= top
        BY <1>3, <1>13
    <3>2. again = Up(y, bottom, b)
        BY <1>3, <1>5, <1>13, <3>1, ComesUp
    <3> QED BY <1>3, <3>2, TurnedUp
  <2>3. ~(again < hi)
    <3>1. again < hi => again <= y
        BY <1>2, <1>6, <1>7, <2>1, TurnedDown
    <3> QED BY <1>3, <1>6, <1>13, <2>2, <3>1
  <2>4. again # hi
    <3>1. again = hi => again + b <= near
        BY <1>2, <1>6, <1>7, <2>1, SameAngleSymmetric, RevolutionApart
    <3> QED BY <1>2, <1>6, <2>2, <3>1
  <2>5. /\ Down(again, hi, b) < hi /\ hi - b <= Down(again, hi, b) /\ Down(again, hi, b) \in Int
        /\ SameAngle(again, Down(again, hi, b), b)
        /\ Down(near, hi, b) < hi
      BY <1>2, <1>6, TurnedDown
  <2>6. last = Down(again, hi, b)
    <3>1. again > hi /\ again > lo /\ ~(Down(again, hi, b) < lo)
        BY <1>6, <2>3, <2>4, <2>5
    <3>2. NormalizeAngle(again, lo, hi, b) = Down(again, hi, b)
        BY <1>6, <3>1, ComesDown
    <3> QED BY <1>5, <3>2
  <2>7. SameAngle(near, Down(again, hi, b), b)
      BY <1>2, <1>6, <1>7, <2>5, SameAngleTransitive
  <2>8. Down(again, hi, b) <= y
      BY <1>2, <2>1, <2>5, <2>7, TurnedDown
  <2>9. y <= Down(again, hi, b)
      BY <1>3, <1>6, <1>7, <2>1, <2>5, TurnedDown
  <2> QED BY <1>3, <2>5, <2>6, <2>8, <2>9
<1> QED BY <1>3, <1>11, <1>12, <1>13 DEF last, again, y, near

\* A target inside limits that span a revolution: once normalised, a joint
\* stays.  Half a revolution has to be a whole number of ticks.
LEMMA StaysNormalized ==
  ASSUME NEW b \in Nat \ {0}, b % 2 = 0, NEW v \in Int, NEW t \in Int,
         NEW lo \in Int, NEW hi \in Int, hi - lo >= b, lo <= t, t <= hi
  PROVE  LET y == NormalizeInto(v, t, lo, hi, b) IN NormalizeInto(y, t, lo, hi, b) = y
<1> DEFINE h == b \div 2
<1>1. h \in Nat /\ b = 2 * h
    BY Division
<1> HIDE DEF h
<1>2. t - h \in Int /\ t + h \in Int /\ (t + h) - (t - h) = b /\ t - h <= t /\ t <= t + h
    BY <1>1
<1> DEFINE Turn(x) == NormalizeAngle(NormalizeAngle(x, t - h, t + h, b), lo, hi, b)
           y == NormalizeInto(v, t, lo, hi, b)
<1>3. y = Turn(v) /\ NormalizeInto(y, t, lo, hi, b) = Turn(y)
    BY DEF NormalizeInto, NormalizeNear, h
<1>4. Turn(Turn(v)) = Turn(v)
    BY <1>1, <1>2, TurnedOnce
<1> HIDE DEF Turn
<1> QED BY <1>3, <1>4

-----------------------------------------------------------------------------
(* Sums over a finite set.  The library's sum adds the elements up in the  *)
(* order CHOOSE takes them; these facts say that the order is immaterial.  *)
(* Each is proved on a smallest subset on which it would fail.             *)

\* The function the library's sum of h over S is defined by.
Adds(f, h, S) ==
  f = [s \in SUBSET S |-> IF s = {} THEN 0
                          ELSE h[CHOOSE x \in s : TRUE] + f[s \ {CHOOSE x \in s : TRUE}]]

\* Two such functions agree where both are defined, and their values are integers.
LEMMA AddsUnique ==
  ASSUME NEW h, NEW S, IsFiniteSet(S), \A i \in S : h[i] \in Int,
         NEW U, S \subseteq U, NEW f, NEW g, Adds(f, h, U), Adds(g, h, S)
  PROVE  f[S] = g[S] /\ g[S] \in Int
<1> DEFINE B == {T \in SUBSET S : ~(f[T] = g[T] /\ g[T] \in Int)}
<1>1. SUFFICES ASSUME B # {} PROVE FALSE
    OBVIOUS
<1>2. PICK T \in B : \A a \in T : T \ {a} \notin B
    BY <1>1, SmallestSubset, Zenon
<1> DEFINE c == CHOOSE x \in T : TRUE
<1>3. CASE T = {}
    BY <1>2, <1>3 DEF Adds
<1>4. CASE T # {}
  <2>1. c \in T /\ h[c] \in Int
      BY <1>4
  <2>2. f[T \ {c}] = g[T \ {c}] /\ g[T \ {c}] \in Int
      BY <1>2, <2>1
  <2>3. f[T] = h[c] + f[T \ {c}] /\ g[T] = h[c] + g[T \ {c}]
      BY <1>4 DEF Adds
  <2> QED BY <1>2, <2>1, <2>2, <2>3
<1> QED BY <1>3, <1>4

\* Whatever such function there is, the sum is its value.
LEMMA SumIsAdded ==
  ASSUME NEW h, NEW S, IsFiniteSet(S), \A i \in S : h[i] \in Int,
         NEW U, S \subseteq U, NEW g, Adds(g, h, U)
  PROVE  SumFunctionOnSet(h, S) = g[S] /\ g[S] \in Int
<1> DEFINE f == CHOOSE f : Adds(f, h, S)
           k == [s \in SUBSET S |-> g[s]]
<1>1. Adds(k, h, S)
  <2>1. \A s \in SUBSET S : s # {} => s \ {CHOOSE x \in s : TRUE} \in SUBSET S
      OBVIOUS
  <2> QED BY <2>1 DEF Adds
<1>2. Adds(f, h, S)
  <2> HIDE DEF k
  <2> QED BY <1>1, Zenon
<1>3. SumFunctionOnSet(h, S) = f[S]
    BY DEF SumFunctionOnSet, FoldFunctionOnSet, MapThenFoldSet, Adds
<1> HIDE DEF f, k
<1>4. g[S] = f[S] /\ f[S] \in Int
    BY <1>2, AddsUnique
<1> QED BY <1>3, <1>4

\* There is one for every finite set.
LEMMA AddsExists ==
  ASSUME NEW h, NEW S, IsFiniteSet(S), \A i \in S : h[i] \in Int
  PROVE  \E f : Adds(f, h, S)
<1> DEFINE B == {T \in SUBSET S : ~ \E f : Adds(f, h, T)}
<1>1. SUFFICES ASSUME B # {} PROVE FALSE
    OBVIOUS
<1>2. PICK T \in B : IsFiniteSet(T) /\ \A a \in T : T \ {a} \notin B
    BY <1>1, SmallestSubset, Zenon
<1> DEFINE Next(s) == h[CHOOSE x \in s : TRUE] + SumFunctionOnSet(h, s \ {CHOOSE x \in s : TRUE})
           g == [s \in SUBSET T |-> IF s = {} THEN 0 ELSE Next(s)]
<1>3. ASSUME NEW s \in SUBSET T, s # T, s # {} PROVE SumFunctionOnSet(h, s) = Next(s)
  <2>1. PICK a \in T : s \subseteq T \ {a}
      BY <1>3
  <2>2. PICK f : Adds(f, h, T \ {a})
      BY <1>2
  <2> DEFINE c == CHOOSE x \in s : TRUE
  <2>3. c \in s /\ s \in SUBSET (T \ {a}) /\ s \ {c} \in SUBSET (T \ {a})
      BY <1>3, <2>1
  <2>4. IsFiniteSet(s) /\ IsFiniteSet(s \ {c}) /\ \A i \in s : h[i] \in Int
      BY <1>2, FS_Subset
  <2>5. SumFunctionOnSet(h, s) = f[s]
      BY <2>2, <2>3, <2>4, SumIsAdded
  <2>6. SumFunctionOnSet(h, s \ {c}) = f[s \ {c}]
      BY <2>2, <2>3, <2>4, SumIsAdded
  <2>7. f[s] = h[c] + f[s \ {c}]
      BY <1>3, <2>2, <2>3 DEF Adds
  <2> QED BY <2>5, <2>6, <2>7
<1>4. SumFunctionOnSet(h, {}) = 0
  <2> DEFINE e == [s \in SUBSET {} |-> 0]
  <2>1. Adds(e, h, {})
      BY DEF Adds
  <2>2. SumFunctionOnSet(h, {}) = e[{}]
    <3> HIDE DEF e
    <3> QED BY <2>1, FS_EmptySet, SumIsAdded
  <2> QED BY <2>2
<1>5. ASSUME NEW s \in SUBSET T, s # {}
      PROVE  g[s] = h[CHOOSE x \in s : TRUE] + g[s \ {CHOOSE x \in s : TRUE}]
  <2> DEFINE c == CHOOSE x \in s : TRUE
             u == s \ {c}
  <2>1. c \in s /\ u \in SUBSET T /\ u # T
      BY <1>5
  <2>2. g[u] = SumFunctionOnSet(h, u)
    <3>1. CASE u = {}
        BY <3>1, <1>4, <2>1
    <3>2. CASE u # {}
      <4> HIDE DEF Next
      <4> QED BY <3>2, <1>3, <2>1
    <3> QED BY <3>1, <3>2
  <2> QED BY <1>5, <2>2
<1>6. Adds(g, h, T)
  <2>1. g[{}] = 0
      OBVIOUS
  <2>2. DOMAIN g = SUBSET T /\ g = [s \in SUBSET T |-> g[s]]
      OBVIOUS
  <2> HIDE DEF g
  <2> QED BY <1>5, <2>1, <2>2 DEF Adds
<1> QED BY <1>2, <1>6

\* The sum over no joint is zero, and each element of a set adds its share.
LEMMA SumOverSet ==
  ASSUME NEW h, NEW S, IsFiniteSet(S), \A i \in S : h[i] \in Int
  PROVE  /\ SumFunctionOnSet(h, S) \in Int
         /\ S = {} => SumFunctionOnSet(h, S) = 0
         /\ \A a \in S : SumFunctionOnSet(h, S) = h[a] + SumFunctionOnSet(h, S \ {a})
<1>1. PICK f : Adds(f, h, S)
    BY AddsExists
<1>2. ASSUME NEW T \in SUBSET S
      PROVE  IsFiniteSet(T) /\ SumFunctionOnSet(h, T) = f[T] /\ f[T] \in Int
  <2>1. IsFiniteSet(T) /\ \A i \in T : h[i] \in Int
      BY FS_Subset
  <2> QED BY <1>1, <2>1, SumIsAdded
<1>3. f[{}] = 0
    BY <1>1 DEF Adds
<1> DEFINE B == {T \in SUBSET S : ~ \A a \in T : f[T] = h[a] + f[T \ {a}]}
<1>4. B = {}
  <2>1. SUFFICES ASSUME B # {} PROVE FALSE
      OBVIOUS
  <2>2. PICK T \in B : \A a \in T : T \ {a} \notin B
      BY <2>1, SmallestSubset, Zenon
  <2>3. PICK a \in T : f[T] # h[a] + f[T \ {a}]
      BY <2>2
  <2> DEFINE c == CHOOSE x \in T : TRUE
  <2>4. c \in T /\ f[T] = h[c] + f[T \ {c}]
      BY <1>1, <2>3 DEF Adds
  <2>5. c # a
      BY <2>3, <2>4
  <2> HIDE DEF c
  <2>6. f[T \ {c}] = h[a] + f[(T \ {c}) \ {a}]
      BY <2>2, <2>4, <2>5
  <2>7. f[T \ {a}] = h[c] + f[(T \ {a}) \ {c}]
      BY <2>2, <2>4, <2>5
  <2>8. (T \ {c}) \ {a} = (T \ {a}) \ {c}
      OBVIOUS
  <2>9. h[a] \in Int /\ h[c] \in Int /\ f[(T \ {a}) \ {c}] \in Int
      BY <1>2, <2>4
  <2>10. f[T] = h[c] + (h[a] + f[(T \ {a}) \ {c}])
      BY <2>4, <2>6, <2>8
  <2>11. f[T] # h[a] + (h[c] + f[(T \ {a}) \ {c}])
      BY <2>3, <2>7
  <2> QED BY <2>9, <2>10, <2>11
<1> HIDE DEF B
<1>5. \A a \in S : f[S] = h[a] + f[S \ {a}]
    BY <1>4 DEF B
<1> QED BY <1>2, <1>3, <1>5

\* The difference of two sums is the sum of the differences.
LEMMA SumOfDifferences ==
  ASSUME NEW S, IsFiniteSet(S), NEW h, NEW k, NEW x \in Int, NEW l,
         \A i \in S : h[i] \in Int /\ k[i] \in Int /\ l[i] \in Int /\ x * l[i] = h[i] - k[i]
  PROVE  x * SumFunctionOnSet(l, S) = SumFunctionOnSet(h, S) - SumFunctionOnSet(k, S)
<1> DEFINE Sum(f, T) == SumFunctionOnSet(f, T)
           B == {T \in SUBSET S : ~ x * Sum(l, T) = Sum(h, T) - Sum(k, T)}
<1>1. SUFFICES ASSUME B # {} PROVE FALSE
    OBVIOUS
<1>2. PICK T \in B : IsFiniteSet(T) /\ \A a \in T : T \ {a} \notin B
    BY <1>1, SmallestSubset, Zenon
<1>3. CASE T = {}
  <2>1. Sum(h, T) = 0 /\ Sum(k, T) = 0 /\ Sum(l, T) = 0
      BY <1>2, <1>3, SumOverSet
  <2> QED BY <1>2, <2>1
<1>4. CASE T # {}
  <2>1. PICK a \in T : TRUE
      BY <1>4
  <2>2. IsFiniteSet(T \ {a}) /\ T \ {a} \in SUBSET S
      BY <1>2, FS_Subset
  <2>3. ASSUME NEW f, \A i \in S : f[i] \in Int
        PROVE  Sum(f, T \ {a}) \in Int /\ Sum(f, T) = f[a] + Sum(f, T \ {a}) /\ f[a] \in Int
      BY <1>2, <2>1, <2>2, <2>3, SumOverSet
  <2>4. Sum(h, T) = h[a] + Sum(h, T \ {a}) /\ Sum(h, T \ {a}) \in Int /\ h[a] \in Int
      BY <2>3
  <2>5. Sum(k, T) = k[a] + Sum(k, T \ {a}) /\ Sum(k, T \ {a}) \in Int /\ k[a] \in Int
      BY <2>3
  <2>6. Sum(l, T) = l[a] + Sum(l, T \ {a}) /\ Sum(l, T \ {a}) \in Int /\ l[a] \in Int
      BY <2>3
  <2>7. x * Sum(l, T \ {a}) = Sum(h, T \ {a}) - Sum(k, T \ {a})
      BY <1>2, <2>1, <2>2
  <2>8. x * l[a] = h[a] - k[a]
      BY <2>1
  <2>9. x * Sum(l, T) # Sum(h, T) - Sum(k, T)
      BY <1>2
  <2> HIDE DEF Sum
  <2>10. x * Sum(l, T) = x * l[a] + x * Sum(l, T \ {a})
      BY <2>6
  <2> QED BY <2>4, <2>5, <2>6, <2>7, <2>8, <2>9, <2>10
<1> QED BY <1>3, <1>4

\* Elements that add nothing may be left out.
LEMMA SumWithoutZeros ==
  ASSUME NEW S, IsFiniteSet(S), NEW h, \A i \in S : h[i] \in Int,
         NEW F \in SUBSET S, \A i \in S \ F : h[i] = 0
  PROVE  SumFunctionOnSet(h, S) = SumFunctionOnSet(h, F)
<1> DEFINE B == {T \in SUBSET S : F \subseteq T /\ SumFunctionOnSet(h, T) # SumFunctionOnSet(h, F)}
<1>1. SUFFICES ASSUME B # {} PROVE FALSE
    OBVIOUS
<1>2. PICK T \in B : IsFiniteSet(T) /\ \A a \in T : T \ {a} \notin B
  <2>1. B \in SUBSET (SUBSET S)
      OBVIOUS
  <2> HIDE DEF B
  <2> QED BY <1>1, <2>1, SmallestSubset, Zenon
<1>3. PICK a \in T : a \notin F
    BY <1>2
<1>4. SumFunctionOnSet(h, T) = h[a] + SumFunctionOnSet(h, T \ {a})
    BY <1>2, <1>3, SumOverSet
<1>5. SumFunctionOnSet(h, T \ {a}) = SumFunctionOnSet(h, F)
    BY <1>2, <1>3
<1>6. IsFiniteSet(F) /\ SumFunctionOnSet(h, F) \in Int
  <2>1. IsFiniteSet(F)
      BY FS_Subset
  <2> QED BY <2>1, SumOverSet
<1> QED BY <1>2, <1>3, <1>4, <1>5, <1>6

\* Equal elements add up to equal sums.
LEMMA SumSame ==
  ASSUME NEW S, IsFiniteSet(S), NEW h, NEW k, \A i \in S : h[i] = k[i] /\ k[i] \in Int
  PROVE  SumFunctionOnSet(h, S) = SumFunctionOnSet(k, S)
<1> DEFINE z == [i \in S |-> 0]
<1>1. \A i \in S : h[i] \in Int /\ k[i] \in Int /\ z[i] \in Int /\ 0 * z[i] = h[i] - k[i]
    OBVIOUS
<1>2. 0 * SumFunctionOnSet(z, S) = SumFunctionOnSet(h, S) - SumFunctionOnSet(k, S)
  <2> HIDE DEF z
  <2> QED BY <1>1, SumOfDifferences
<1>3. /\ SumFunctionOnSet(z, S) \in Int /\ SumFunctionOnSet(h, S) \in Int
      /\ SumFunctionOnSet(k, S) \in Int
  <2> HIDE DEF z
  <2> QED BY <1>1, SumOverSet
<1> QED BY <1>2, <1>3

-----------------------------------------------------------------------------
\* The reduced column of a joint is its own and its followers', each scaled by
\* its multiplier, added up.
LEMMA FoldedColumn ==
  ASSUME NEW d \in Seq(Coupling), NEW jac \in [DOMAIN d -> Int], NEW m \in Active(d)
  PROVE  LET h == [i \in Followers(d, m) |-> d[i].multiplier * jac[i]]
         IN  /\ FoldJacobian(d, jac)[m] = jac[m] + SumFunctionOnSet(h, Followers(d, m))
             /\ SumFunctionOnSet(h, Followers(d, m)) \in Int
<1> DEFINE S == Followers(d, m)
           h == [i \in S |-> d[i].multiplier * jac[i]]
           P(f) == f = [s \in SUBSET S |->
                          IF s = {} THEN 0
                          ELSE LET x == CHOOSE x \in s : TRUE
                               IN  d[x].multiplier * jac[x] + f[s \ {x}]]
           f == CHOOSE f : P(f)
<1>1. S \subseteq DOMAIN d /\ IsFiniteSet(S)
  <2>1. S \subseteq 1..Len(d) /\ IsFiniteSet(1..Len(d))
      BY FS_Interval DEF Followers, Mimics
  <2> QED BY <2>1, FS_Subset
<1>2. ASSUME NEW i \in S PROVE h[i] \in Int
  <2>1. i \in DOMAIN d /\ d[i] \in Coupling
      BY <1>1
  <2>2. d[i].multiplier \in Int /\ jac[i] \in Int
      BY <2>1 DEF Coupling
  <2> QED BY <2>2
<1>3. ASSUME NEW g PROVE P(g) <=> Adds(g, h, S)
  <2>1. \A s \in SUBSET S : s # {} => (CHOOSE x \in s : TRUE) \in S
      OBVIOUS
  <2>2. \A i \in S : h[i] = d[i].multiplier * jac[i]
      OBVIOUS
  <2> HIDE DEF S, h
  <2> QED BY <2>1, <2>2 DEF Adds
<1>4. FoldJacobian(d, jac)[m] = jac[m] + f[S]
    BY DEF MapThenSumSet, MapThenFoldSet, FoldJacobian
<1> HIDE DEF S, h, P
<1>5. PICK g : P(g)
    BY <1>1, <1>2, <1>3, AddsExists
<1>6. P(f)
    BY <1>5, Zenon
<1>7. SumFunctionOnSet(h, S) = f[S] /\ f[S] \in Int
    BY <1>1, <1>2, <1>3, <1>6, SumIsAdded
<1> QED BY <1>4, <1>7 DEF S, h

(***************************************************************************)
(* The fold is the chain rule on every chain: whatever joint the solver    *)
(* moves, by whatever step and from whatever configuration, the tip moves  *)
(* by the joint's reduced column times the step, the joints that follow it *)
(* moving along.                                                           *)
(***************************************************************************)
THEOREM FoldIsDerivative ==
  ASSUME NEW d \in Seq(Coupling), Valid(d), NEW jac \in [DOMAIN d -> Int],
         NEW m \in Active(d), NEW r \in [Active(d) -> Int], NEW x \in Int
  PROVE  LET moved  == [r EXCEPT ![m] = @ + x]
             tip(q) == SumFunction([i \in DOMAIN d |-> jac[i] * Expand(d, q)[i]])
         IN  /\ tip(moved) - tip(r) = x * FoldJacobian(d, jac)[m]
             /\ FoldJacobian(d, jac)[m] \in Int
<1> DEFINE D == DOMAIN d
           S == Followers(d, m)
           moved == [r EXCEPT ![m] = @ + x]
           h == [i \in D |-> jac[i] * Expand(d, moved)[i]]
           k == [i \in D |-> jac[i] * Expand(d, r)[i]]
           c == [i \in S |-> d[i].multiplier * jac[i]]
           l == [i \in D |-> IF i = m THEN jac[m] ELSE IF i \in S THEN c[i] ELSE 0]
<1>1. D = 1..Len(d) /\ IsFiniteSet(D) /\ m \in D /\ S \subseteq D /\ m \notin S
    BY FS_Interval DEF Active, Followers, Mimics
<1>2. moved \in [Active(d) -> Int] /\ moved[m] = r[m] + x
      /\ \A i \in Active(d) : i # m => moved[i] = r[i]
    BY <1>1
<1>3. ASSUME NEW i \in D
      PROVE  /\ d[i].multiplier \in Int /\ d[i].offset \in Int /\ jac[i] \in Int
             /\ i \notin Active(d) => d[i].mimicked \in Active(d)
  <2>1. d[i] \in Coupling
      OBVIOUS
  <2> QED BY <2>1 DEF Coupling, Valid, Active
<1>4. ASSUME NEW i \in D
      PROVE  h[i] \in Int /\ k[i] \in Int /\ l[i] \in Int /\ x * l[i] = h[i] - k[i]
  <2> HIDE DEF moved, S
  <2>1. CASE i \in Active(d)
    <3>1. Expand(d, moved)[i] = moved[i] /\ Expand(d, r)[i] = r[i] /\ i \notin S
        BY <2>1 DEF Expand, Active, S, Followers, Mimics
    <3>2. h[i] = jac[i] * moved[i] /\ k[i] = jac[i] * r[i] /\ moved[i] \in Int /\ r[i] \in Int
        BY <2>1, <3>1, <1>2
    <3>3. CASE i = m
      <4>1. l[i] = jac[i] /\ moved[i] = r[i] + x
          BY <3>3, <1>2
      <4> HIDE DEF h, k, l
      <4> QED BY <3>2, <4>1, <1>3
    <3>4. CASE i # m
      <4>1. l[i] = 0 /\ moved[i] = r[i]
          BY <2>1, <3>1, <3>4, <1>2
      <4> HIDE DEF h, k, l
      <4> QED BY <3>2, <4>1, <1>3
    <3> QED BY <3>3, <3>4
  <2>2. CASE i \notin Active(d)
    <3> DEFINE j == d[i].mimicked
    <3>1. j \in Active(d) /\ i # m /\ (i \in S <=> j = m)
        BY <1>3, <2>2 DEF S, Followers, Mimics, Active
    <3>2. Expand(d, moved)[i] = d[i].multiplier * moved[j] + d[i].offset
          /\ Expand(d, r)[i] = d[i].multiplier * r[j] + d[i].offset
        BY <2>2 DEF Expand, Active, Couple
    <3>3. moved[j] \in Int /\ r[j] \in Int
        BY <3>1, <1>2
    <3>4. h[i] = jac[i] * (d[i].multiplier * moved[j] + d[i].offset)
          /\ k[i] = jac[i] * (d[i].multiplier * r[j] + d[i].offset)
        BY <3>2
    <3>5. CASE j = m
      <4>1. l[i] = d[i].multiplier * jac[i] /\ moved[j] = r[j] + x
          BY <3>1, <3>5, <1>2
      <4> HIDE DEF h, k, l, j
      <4>2. \A a, b, o, q \in Int :
              /\ a * (b * (q + x) + o) \in Int /\ a * (b * q + o) \in Int /\ b * a \in Int
              /\ x * (b * a) = a * (b * (q + x) + o) - a * (b * q + o)
          BY SMTT(30)
      <4>3. h[i] = jac[i] * (d[i].multiplier * (r[j] + x) + d[i].offset)
          BY <3>4, <4>1
      <4> DEFINE a == jac[i]
                 b == d[i].multiplier
                 o == d[i].offset
                 q == r[j]
      <4>4. a \in Int /\ b \in Int /\ o \in Int /\ q \in Int
          BY <1>3, <3>3
      <4>5. h[i] = a * (b * (q + x) + o) /\ k[i] = a * (b * q + o) /\ l[i] = b * a
          BY <3>4, <4>1, <4>3
      <4> HIDE DEF a, b, o, q
      <4>6. /\ a * (b * (q + x) + o) \in Int /\ a * (b * q + o) \in Int /\ b * a \in Int
            /\ x * (b * a) = a * (b * (q + x) + o) - a * (b * q + o)
          BY <4>2, <4>4
      <4> QED BY <4>5, <4>6
    <3>6. CASE j # m
      <4>1. l[i] = 0 /\ moved[j] = r[j]
          BY <3>1, <3>6, <1>2
      <4> HIDE DEF h, k, l, j
      <4> QED BY <3>3, <3>4, <4>1, <1>3
    <3> QED BY <3>5, <3>6
  <2> QED BY <2>1, <2>2
<1>5. x * SumFunctionOnSet(l, D) = SumFunctionOnSet(h, D) - SumFunctionOnSet(k, D)
  <2> HIDE DEF D, h, k, l
  <2> QED BY <1>1, <1>4, SumOfDifferences
<1>6. SumFunctionOnSet(l, D) = FoldJacobian(d, jac)[m] /\ FoldJacobian(d, jac)[m] \in Int
  <2>1. SumFunctionOnSet(l, D) = SumFunctionOnSet(l, S \cup {m})
    <3>1. S \cup {m} \in SUBSET D /\ \A i \in D \ (S \cup {m}) : l[i] = 0
        BY <1>1
    <3> HIDE DEF D, S, l
    <3> QED BY <1>1, <1>4, <3>1, SumWithoutZeros
  <2>2. IsFiniteSet(S) /\ IsFiniteSet(S \cup {m}) /\ (S \cup {m}) \ {m} = S
      BY <1>1, FS_Subset, FS_AddElement
  <2>3. l[m] = jac[m] /\ \A i \in S : l[i] = c[i] /\ l[i] \in Int
      BY <1>1, <1>4
  <2>4. SumFunctionOnSet(l, S \cup {m}) = jac[m] + SumFunctionOnSet(l, S)
    <3>1. \A i \in S \cup {m} : l[i] \in Int
        BY <1>1, <1>4
    <3>2. m \in S \cup {m}
        OBVIOUS
    <3> HIDE DEF S, l, D
    <3>3. SumFunctionOnSet(l, S \cup {m}) = l[m] + SumFunctionOnSet(l, (S \cup {m}) \ {m})
        BY <2>2, <3>1, <3>2, SumOverSet
    <3> QED BY <2>2, <2>3, <3>3
  <2>5. SumFunctionOnSet(l, S) = SumFunctionOnSet(c, S)
    <3> HIDE DEF S, l, D, c
    <3> QED BY <2>2, <2>3, SumSame
  <2>6. FoldJacobian(d, jac)[m] = jac[m] + SumFunctionOnSet(c, S)
        /\ SumFunctionOnSet(c, S) \in Int
      BY FoldedColumn
  <2>7. jac[m] \in Int
      BY <1>1
  <2> QED BY <2>1, <2>4, <2>5, <2>6, <2>7
<1>7. SumFunction(h) = SumFunctionOnSet(h, D) /\ SumFunction(k) = SumFunctionOnSet(k, D)
    BY DEF SumFunction
<1> QED BY <1>5, <1>6, <1>7
=============================================================================
