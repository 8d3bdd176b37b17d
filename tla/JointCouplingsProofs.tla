-------------------------- MODULE JointCouplingsProofs --------------------------
(***************************************************************************)
(* What MCJointCouplings checks of its chains, for every set of couplings, *)
(* offsets and ends of bounds that can be tried out within Reach.  The     *)
(* invariant is that lb and ub are what one tightening of the joints' own  *)
(* bounds makes of them, however often they have been tightened.           *)
(***************************************************************************)
EXTENDS MCJointCouplings, ChainLemmas, SequenceTheorems

-----------------------------------------------------------------------------
(* The chains and their own bounds.                                        *)

Outer == {ActiveJoint} \cup MimicOf(Driver)

\* The description, and the bounds its joints came with.
ChainInv ==
  /\ couplings \in [Joints -> Outer] /\ couplings[Driver] = ActiveJoint
  /\ own_lb \in [Joints -> Int] /\ own_ub \in [Joints -> Int]
  /\ \A i \in Joints : /\ <<own_lb[i], own_ub[i]>> \in Intervals
                        /\ Divisible(couplings[i], <<own_lb[i], own_ub[i]>>)

Tightened == Tighten(couplings, own_lb, own_ub)

\* What the last call left.
BoundsInv ==
  /\ verdict \in {"untried", "tightened", "refused"}
  /\ verdict = "tightened" => Tightened.ok /\ lb = Tightened.lb /\ ub = Tightened.ub
  /\ verdict # "tightened" => lb = own_lb /\ ub = own_ub
  /\ verdict = "refused" => ~Tightened.ok

\* The own bounds as numbers.
Lo == [i \in DOMAIN own_lb |-> AsBound(own_lb[i])]
Hi == [i \in DOMAIN own_ub |-> AsBound(own_ub[i])]

\* A joint of a chain is active, or follows the driver.
LEMMA OuterJoint ==
  ASSUME NEW c \in Outer
  PROVE  /\ c \in Coupling /\ c.variable_count = 1 /\ c.finite
         /\ c = ActiveJoint \/ (c \in MimicOf(Driver) /\ c.mimicked = Driver)
         /\ c = ActiveJoint => c.mimicked = Own /\ c.multiplier = 1 /\ c.offset = 0
<1>1. CASE c = ActiveJoint
    BY <1>1 DEF ActiveJoint, Coupling, Own
<1>2. CASE c \in MimicOf(Driver)
  <2>1. c.mimicked = Driver /\ Driver # Own
      BY <1>2 DEF MimicOf, Driver, Own
  <2>2. c.variable_count = 1 /\ c.finite /\ c.multiplier \in Int /\ c.offset \in Int
      BY <1>2, ReachAssumption DEF MimicOf, Position
  <2>3. c \in Coupling
    <3>1. PICK a \in Multipliers, b \in Offsets :
            c = [mimicked |-> Driver, multiplier |-> a, offset |-> b,
                 finite |-> TRUE, variable_count |-> 1]
        BY <1>2 DEF MimicOf
    <3>2. a \in Int /\ b \in Int
        BY ReachAssumption DEF Position
    <3> QED BY <3>1, <3>2 DEF Coupling, Driver
  <2> QED BY <1>2, <2>1, <2>2, <2>3 DEF ActiveJoint
<1> QED BY <1>1, <1>2 DEF Outer

\* The description is valid, and only the driver is followed.
LEMMA ChainValid ==
  ASSUME ChainInv
  PROVE  /\ couplings \in Seq(Coupling) /\ Len(couplings) = 3 /\ DOMAIN couplings = Joints
         /\ own_lb \in Seq(Int) /\ Len(own_lb) = 3 /\ DOMAIN own_lb = Joints
         /\ own_ub \in Seq(Int) /\ Len(own_ub) = 3 /\ DOMAIN own_ub = Joints
         /\ Valid(couplings)
         /\ Driver \in Active(couplings) /\ Active(couplings) \subseteq Joints
         /\ \A i \in Mimics(couplings) :
              i \in Joints /\ couplings[i] \in MimicOf(Driver) /\ couplings[i].mimicked = Driver
         /\ \A m \in Joints : \A i \in Followers(couplings, m) : m = Driver
<1>1. \A i \in Joints : /\ couplings[i] \in Coupling
                        /\ couplings[i].variable_count = 1 /\ couplings[i].finite
                        /\ IsMimic(couplings, i) =>
                             couplings[i] \in MimicOf(Driver) /\ couplings[i].mimicked = Driver
    BY OuterJoint DEF ChainInv, IsMimic
<1>2. /\ couplings \in [1..3 -> Coupling] /\ 3 \in Nat
      /\ own_lb \in [1..3 -> Int] /\ own_ub \in [1..3 -> Int]
    BY <1>1 DEF ChainInv, Joints
<1>3. /\ couplings \in Seq(Coupling) /\ Len(couplings) = 3 /\ DOMAIN couplings = Joints
      /\ own_lb \in Seq(Int) /\ Len(own_lb) = 3 /\ DOMAIN own_lb = Joints
      /\ own_ub \in Seq(Int) /\ Len(own_ub) = 3 /\ DOMAIN own_ub = Joints
    BY <1>2, FunctionIsSequence DEF Joints
<1>4. Driver \in Joints /\ ~IsMimic(couplings, Driver)
    BY OuterJoint DEF ChainInv, IsMimic, Joints, Driver
<1>5. Valid(couplings)
    BY <1>1, <1>3, <1>4 DEF Valid, IsMimic
<1> QED BY <1>1, <1>3, <1>4, <1>5 DEF Active, Mimics, Followers

\* A bound whose preimage is a whole number of ticks is mapped back exactly.
LEMMA DivisibleExact ==
  ASSUME NEW c \in Coupling, ~Pins(c), NEW y \in Position,
         (y - c.offset) % (Sign(c.multiplier) * c.multiplier) = 0
  PROVE  Couple(c, UncoupleBound(c, y)) = y
<1> DEFINE s == Sign(c.multiplier)
           k == s * c.multiplier
           q == (y - c.offset) \div k
<1>1. c.multiplier \in Int /\ c.offset \in Int /\ c.multiplier # 0 /\ y \in Int
    BY DEF Coupling, Pins, Position
<1>2. s \in {-1, 1} /\ k \in Nat \ {0}
    BY <1>1 DEF Sign
<1>3. ~Infinite(y)
    BY BoundAssumption DEF Infinite, Position
<1>4. UncoupleBound(c, y) = (s * (y - c.offset)) \div k
    BY <1>3 DEF UncoupleBound
<1>5. y - c.offset = k * q /\ q \in Int
  <2> DEFINE a == y - c.offset
  <2>1. a \in Int
      BY <1>1
  <2>2. a % k = 0
      OBVIOUS
  <2> HIDE DEF a, k
  <2>3. a = k * (a \div k) + (a % k) /\ a \div k \in Int
      BY <1>2, <2>1, Division
  <2>4. k * (a \div k) \in Int
      BY <1>2, <2>3
  <2> QED BY <2>2, <2>3, <2>4 DEF a
<1> HIDE DEF q
<1>6. s * (y - c.offset) = k * (s * q) /\ s * q \in Int
    BY <1>1, <1>2, <1>5
<1>7. UncoupleBound(c, y) = s * q
  <2> HIDE DEF s, k
  <2> QED BY <1>2, <1>4, <1>6, DivideBack
<1>8. c.multiplier * (s * q) = k * q
    BY <1>1, <1>2, <1>5
<1> QED BY <1>1, <1>5, <1>7, <1>8 DEF Couple

\* A joint has both ends or neither, in order and mapped back exactly, within
\* Reach when it follows the driver.
LEMMA OwnBounds ==
  ASSUME ChainInv, NEW i \in Joints
  PROVE  /\ Lo[i] \in Bound /\ Hi[i] \in Bound /\ Lo[i] <= Hi[i]
         /\ \/ Lo[i] \in Ends /\ Hi[i] \in Ends
            \/ Lo[i] = -Infinity /\ Hi[i] = Infinity
         /\ ~Pins(couplings[i]) => Exact(couplings[i], Lo[i]) /\ Exact(couplings[i], Hi[i])
         /\ couplings[i] \in MimicOf(Driver) /\ ~Pins(couplings[i]) =>
              \A y \in {Lo[i], Hi[i]} \cap Ends : UncoupleBound(couplings[i], y) \in Reach
<1> DEFINE c == couplings[i]
           e == <<own_lb[i], own_ub[i]>>
<1>1. /\ e \in Intervals /\ Divisible(c, e) /\ c \in Outer
      /\ Lo[i] = AsBound(e[1]) /\ Hi[i] = AsBound(e[2])
    BY DEF ChainInv, Lo, Hi
<1>2. c \in Coupling
    BY <1>1, OuterJoint
<1> HIDE DEF c, e
<1>3. \A y \in Ends : y \in Reach /\ y \in Position /\ y \in Int /\ ~Infinite(y) /\ AsBound(y) = y
    BY ReachAssumption, BoundAssumption DEF Position, Infinite, AsBound
<1>4. CASE e = <<-Sentinel, Sentinel>>
  <2>1. Lo[i] = -Infinity /\ Hi[i] = Infinity
      BY <1>1, <1>4, BoundAssumption DEF AsBound
  <2>2. Lo[i] \notin Ends /\ Hi[i] \notin Ends
      BY <2>1, <1>3 DEF Infinite
  <2> QED BY <2>1, <2>2, BoundAssumption DEF Bound, Exact, Infinite, c
<1>5. CASE e \in {x \in Ends \X Ends : x[1] <= x[2]}
  <2>1. e[1] \in Ends /\ e[2] \in Ends /\ e[1] <= e[2]
      BY <1>5
  <2>2. Lo[i] = e[1] /\ Hi[i] = e[2]
      BY <1>1, <1>3, <2>1
  <2>3. ASSUME ~Pins(c), NEW k \in {1, 2}
        PROVE  /\ Couple(c, UncoupleBound(c, e[k])) = e[k]
               /\ (e[k] - c.offset) % (Sign(c.multiplier) * c.multiplier) = 0
    <3>1. e[k] \in Ends /\ ~Infinite(AsBound(e[k])) /\ e[k] \in Position
        BY <1>3, <2>1
    <3>2. (e[k] - c.offset) % (Sign(c.multiplier) * c.multiplier) = 0
        BY <1>1, <2>3, <3>1 DEF Divisible
    <3> QED BY <1>2, <2>3, <3>1, <3>2, DivisibleExact
  <2>4. ASSUME c \in MimicOf(Driver), ~Pins(c), NEW k \in {1, 2}
        PROVE  UncoupleBound(c, e[k]) \in Reach
    <3>1. Divisible(c, <<e[k], e[k]>>) /\ e[k] \in Ends
        BY <2>1, <2>3, <2>4 DEF Divisible
    <3> QED BY <2>4, <3>1, ReachAssumption
  <2>5. ASSUME ~Pins(c), NEW k \in {1, 2}
        PROVE  UncoupleBound(c, e[k]) \in Position
    <3>1. CASE c \in MimicOf(Driver)
        BY <2>4, <2>5, <3>1, ReachAssumption
    <3>2. CASE c = ActiveJoint
      <4>1. c.multiplier = 1 /\ c.offset = 0 /\ e[k] \in Position /\ ~Infinite(e[k])
          BY <1>1, <1>3, <2>1, <3>2, OuterJoint
      <4>2. UncoupleBound(c, e[k]) = (1 * (e[k] - 0)) \div (1 * 1)
          BY <4>1 DEF UncoupleBound, Sign
      <4>3. UncoupleBound(c, e[k]) = e[k]
          BY <4>1, <4>2 DEF Position
      <4> QED BY <4>1, <4>3
    <3> QED BY <1>1, <3>1, <3>2 DEF Outer
  <2>6. ~Pins(c) => Exact(c, Lo[i]) /\ Exact(c, Hi[i])
      BY <2>2, <2>3, <2>5 DEF Exact
  <2>7. Lo[i] \in Bound /\ Hi[i] \in Bound
      BY <1>3, <2>1, <2>2 DEF Bound
  <2>8. c \in MimicOf(Driver) /\ ~Pins(c) =>
          \A y \in {Lo[i], Hi[i]} : UncoupleBound(c, y) \in Reach
      BY <2>2, <2>4
  <2> QED BY <2>1, <2>2, <2>6, <2>7, <2>8 DEF c
<1> QED BY <1>1, <1>4, <1>5 DEF Intervals

\* Judged on their own bounds, chains are exact.
LEMMA ChainExact ==
  ASSUME ChainInv
  PROVE  /\ ExactBounds(couplings, Lo, Hi)
         /\ Lo \in [DOMAIN couplings -> Int] /\ Hi \in [DOMAIN couplings -> Int]
<1>1. DOMAIN couplings = Joints /\ DOMAIN Lo = Joints /\ DOMAIN Hi = Joints
    BY ChainValid DEF Lo, Hi
<1>2. Bound \subseteq Int
    BY BoundAssumption DEF Bound, Position
<1>3. Lo = [i \in Joints |-> Lo[i]] /\ Hi = [i \in Joints |-> Hi[i]]
    BY <1>1 DEF Lo, Hi
<1>4. Lo \in [Joints -> Bound] /\ Hi \in [Joints -> Bound]
    BY <1>3, OwnBounds
<1> QED BY <1>1, <1>2, <1>4, OwnBounds DEF ExactBounds, Mimics

\* What a follower leaves the driver ends within Reach, if it ends at all.
LEMMA LeftWithinReach ==
  ASSUME ChainInv, NEW i \in Binding(couplings, Driver)
  PROVE  /\ Preimage(couplings[i], Lo[i], Hi[i])[1] \in Reach \cup {-Infinity}
         /\ Preimage(couplings[i], Lo[i], Hi[i])[2] \in Reach \cup {Infinity}
<1> DEFINE c == couplings[i]
<1>1. i \in Joints /\ c \in MimicOf(Driver) /\ ~Pins(c) /\ c \in Coupling
  <2>1. i \in Mimics(couplings) /\ ~Pins(c)
      BY DEF Binding, Followers
  <2>2. i \in Joints /\ c \in MimicOf(Driver)
      BY <2>1, ChainValid
  <2> QED BY <2>1, <2>2, OuterJoint DEF Outer
<1>2. CASE Lo[i] \in Ends /\ Hi[i] \in Ends
  <2>1. UncoupleBound(c, Lo[i]) \in Reach /\ UncoupleBound(c, Hi[i]) \in Reach
      BY <1>1, <1>2, OwnBounds
  <2> QED BY <2>1 DEF Preimage, Ordered
<1>3. CASE Lo[i] = -Infinity /\ Hi[i] = Infinity
  <2>1. Sign(c.multiplier) \in {-1, 1}
      BY DEF Sign
  <2>2. /\ UncoupleBound(c, Lo[i]) = Sign(c.multiplier) * (-Infinity)
        /\ UncoupleBound(c, Hi[i]) = Sign(c.multiplier) * Infinity
      BY <1>3 DEF UncoupleBound, Infinite
  <2>3. Preimage(c, Lo[i], Hi[i]) = <<-Infinity, Infinity>>
      BY <2>1, <2>2, BoundAssumption DEF Preimage, Ordered
  <2> QED BY <2>3
<1> QED BY <1>1, <1>2, <1>3, OwnBounds

\* ... and so does the interval left to any active joint.
LEMMA IntervalWithinReach ==
  ASSUME ChainInv, NEW m \in Active(couplings)
  PROVE  /\ Lower(couplings, Lo, Hi, m) \in Reach \cup {-Infinity}
         /\ Upper(couplings, Lo, Hi, m) \in Reach \cup {Infinity}
<1>1. couplings \in Seq(Coupling) /\ m \in DOMAIN couplings /\ m \in Joints
      /\ Lo \in [DOMAIN couplings -> Int] /\ Hi \in [DOMAIN couplings -> Int]
    BY ChainValid, ChainExact
<1>2. /\ Lower(couplings, Lo, Hi, m) \in {Lo[m]} \cup EndsLeft(couplings, Lo, Hi, m, 1)
      /\ Upper(couplings, Lo, Hi, m) \in {Hi[m]} \cup EndsLeft(couplings, Lo, Hi, m, 2)
    BY <1>1, LowerUpper
<1>3. Lo[m] \in Reach \cup {-Infinity} /\ Hi[m] \in Reach \cup {Infinity}
    BY <1>1, OwnBounds, ReachAssumption
<1>4. Binding(couplings, m) # {} => m = Driver
    BY <1>1, ChainValid DEF Binding
<1>5. /\ EndsLeft(couplings, Lo, Hi, m, 1) \subseteq Reach \cup {-Infinity}
      /\ EndsLeft(couplings, Lo, Hi, m, 2) \subseteq Reach \cup {Infinity}
    BY <1>4, LeftWithinReach DEF EndsLeft
<1> QED BY <1>2, <1>3, <1>5

\* So no end of an effective bound is lost in storing it.
LEMMA ChainStorable == ASSUME ChainInv PROVE Storable(couplings, Lo, Hi)
<1>1. \A x \in Reach : x \in Position
    BY ReachAssumption
<1>2. \A i \in Mimics(couplings) : couplings[i] \in MimicOf(Driver)
    BY ChainValid
<1>3. \A i \in Mimics(couplings) : couplings[i].offset \in Position
    BY <1>2, ReachAssumption DEF MimicOf
<1>4. \A i \in Mimics(couplings) : \A x \in Reach : Couple(couplings[i], x) \in Position
    BY <1>2, ReachAssumption
<1>5. Infinity \notin Position /\ -Infinity \notin Position
    BY BoundAssumption DEF Position
<1>6. ASSUME NEW m \in Active(couplings),
             NEW e \in {Lower(couplings, Lo, Hi, m), Upper(couplings, Lo, Hi, m)}
      PROVE  e \in Bound /\ (e \in Position => e \in Reach)
    BY <1>1, <1>5, IntervalWithinReach DEF Bound
<1> QED BY <1>3, <1>4, <1>6 DEF Storable, Followers

-----------------------------------------------------------------------------
(* The invariant.                                                          *)

\* Every start is a chain with its own bounds.
LEMMA ChainInit == ASSUME Init PROVE ChainInv /\ BoundsInv
<1>1. PICK left \in OuterJoints(Intervals), right \in OuterJoints(Intervals), e \in Intervals :
        /\ couplings = <<left[1], ActiveJoint, right[1]>>
        /\ own_lb = <<left[2][1], e[1], right[2][1]>>
        /\ own_ub = <<left[2][2], e[2], right[2][2]>>
    BY DEF Init, InitWith
<1>2. \A o \in OuterJoints(Intervals) :
        o[1] \in Outer /\ o[2] \in Intervals /\ Divisible(o[1], o[2])
    BY DEF OuterJoints, Outer
<1>3. \A x \in Intervals : x = <<x[1], x[2]>> /\ x[1] \in Int /\ x[2] \in Int
  <2>1. Ends \subseteq Int /\ Sentinel \in Int /\ -Sentinel \in Int
      BY ReachAssumption, BoundAssumption DEF Position
  <2>2. \A x \in Ends \X Ends : x = <<x[1], x[2]>> /\ x[1] \in Ends /\ x[2] \in Ends
      OBVIOUS
  <2>3. ASSUME NEW x \in Intervals
        PROVE  x = <<x[1], x[2]>> /\ x[1] \in Int /\ x[2] \in Int
    <3>1. CASE x = <<-Sentinel, Sentinel>>
        BY <2>1, <3>1
    <3>2. CASE x \in Ends \X Ends
        BY <2>1, <2>2, <3>2
    <3> QED BY <3>1, <3>2 DEF Intervals
  <2> QED BY <2>3
<1>4. Divisible(ActiveJoint, e)
  <2>1. e[1] \in Int /\ e[2] \in Int
      BY <1>3
  <2> HIDE DEF Divisible
  <2>2. \A x \in Int : (x - 0) % (1 * 1) = 0
      OBVIOUS
  <2>3. ActiveJoint.offset = 0 /\ ActiveJoint.multiplier = 1
      BY DEF ActiveJoint
  <2> QED BY <2>1, <2>2, <2>3 DEF Divisible, Sign
<1>5. ActiveJoint \in Outer
    BY DEF Outer
<1>6. \A i \in Joints : i = 1 \/ i = 2 \/ i = 3
    BY DEF Joints
<1>7. /\ couplings \in [Joints -> Outer] /\ couplings[Driver] = ActiveJoint
      /\ couplings[1] = left[1] /\ couplings[2] = ActiveJoint /\ couplings[3] = right[1]
    BY <1>1, <1>2, <1>5 DEF Joints, Driver
<1>8. /\ own_lb \in [Joints -> Int] /\ own_ub \in [Joints -> Int]
      /\ <<own_lb[1], own_ub[1]>> = left[2]
      /\ <<own_lb[2], own_ub[2]>> = e
      /\ <<own_lb[3], own_ub[3]>> = right[2]
    BY <1>1, <1>2, <1>3 DEF Joints
<1>9. ChainInv
    BY <1>2, <1>4, <1>6, <1>7, <1>8 DEF ChainInv
<1> QED BY <1>9 DEF Init, InitWith, BoundsInv

\* Tightening again what was tightened changes nothing, nor does tightening
\* again what was refused.
LEMMA TightenedAgain ==
  ASSUME ChainInv, BoundsInv, TightenBounds
  PROVE  /\ lb' = Tightened.lb /\ ub' = Tightened.ub
         /\ verdict' = IF Tightened.ok THEN "tightened" ELSE "refused"
<1> DEFINE t == Tighten(couplings, lb, ub)
<1>1. lb' = t.lb /\ ub' = t.ub /\ verdict' = IF t.ok THEN "tightened" ELSE "refused"
    BY DEF TightenBounds
<1>2. CASE verdict # "tightened"
    BY <1>1, <1>2 DEF BoundsInv, Tightened
<1>3. CASE verdict = "tightened"
  <2>1. Tightened.ok /\ lb = Tightened.lb /\ ub = Tightened.ub
      BY <1>3 DEF BoundsInv
  <2>2. couplings \in Seq(Coupling) /\ own_lb \in Seq(Int) /\ own_ub \in Seq(Int)
      BY ChainValid
  <2>3. Tighten(couplings, Tightened.lb, Tightened.ub) = Tightened
      BY <2>1, <2>2, ChainStorable, TightenOnce DEF Tightened, Lo, Hi
  <2> QED BY <1>1, <2>1, <2>3
<1> QED BY <1>2, <1>3

\* The chain and its own bounds never change, and what tighten returns for
\* them is known throughout.
LEMMA ChainStep ==
  ASSUME ChainInv, BoundsInv, [Next]_vars
  PROVE  ChainInv' /\ BoundsInv'
<1>1. CASE UNCHANGED vars
    BY <1>1 DEF vars, ChainInv, BoundsInv, Tightened
<1>2. CASE TightenBounds
  <2>1. UNCHANGED <<couplings, own_lb, own_ub>>
      BY <1>2 DEF TightenBounds
  <2>2. ChainInv' /\ Tightened' = Tightened
      BY <2>1 DEF ChainInv, Tightened
  <2>3. ~Tightened.ok => Tightened.lb = own_lb /\ Tightened.ub = own_ub
      BY DEF Tightened, Tighten
  <2> QED BY <1>2, <2>1, <2>2, <2>3, TightenedAgain DEF BoundsInv
<1> QED BY <1>1, <1>2 DEF Next

\* The invariant holds throughout.
LEMMA ChainInvariant == Spec => [](ChainInv /\ BoundsInv)
<1>1. Init => ChainInv /\ BoundsInv
    BY ChainInit
<1>2. (ChainInv /\ BoundsInv) /\ [Next]_vars => (ChainInv /\ BoundsInv)'
    BY ChainStep
<1> QED BY <1>1, <1>2, PTL DEF Spec

-----------------------------------------------------------------------------
(* The theorems.                                                           *)

\* The description stays valid, with a pair of bounds for every joint of it,
\* whatever tighten is given.
THEOREM TypeCorrect == Spec => []TypeOK
<1> SUFFICES ASSUME ChainInv, BoundsInv PROVE TypeOK
    BY ChainInvariant, PTL
<1>1. /\ couplings \in Seq(Coupling) /\ DOMAIN couplings = Joints /\ Valid(couplings)
      /\ own_lb \in Seq(Int) /\ own_ub \in Seq(Int)
      /\ own_lb \in [Joints -> Int] /\ own_ub \in [Joints -> Int]
    BY ChainValid DEF ChainInv
<1>2. Tightened.ok => Tightened.lb \in [Joints -> Int] /\ Tightened.ub \in [Joints -> Int]
    BY <1>1, TightenTyped DEF Tightened
<1>3. lb \in [Joints -> Int] /\ ub \in [Joints -> Int]
    BY <1>1, <1>2 DEF BoundsInv
<1> QED BY <1>1, <1>3 DEF TypeOK, BoundsInv

\* Positions tried are positions of every joint.
LEMMA ReducedHavePositions ==
  ASSUME ChainInv, NEW r \in Reduced
  PROVE  HasPositions(couplings, r)
<1>1. \A m \in Active(couplings) : r[m] \in Reach
    BY DEF Reduced
<1>2. ASSUME NEW i \in DOMAIN couplings
      PROVE  Expand(couplings, r)[i] \in Position
  <2>1. CASE IsMimic(couplings, i)
    <3>1. couplings[i] \in MimicOf(Driver) /\ couplings[i].mimicked = Driver
        BY <2>1, ChainValid DEF Mimics
    <3>2. r[Driver] \in Reach
        BY <1>1, ChainValid
    <3>3. Expand(couplings, r)[i] = Couple(couplings[i], r[Driver])
        BY <2>1, <3>1 DEF Expand
    <3> QED BY <3>1, <3>2, <3>3, ReachAssumption
  <2>2. CASE ~IsMimic(couplings, i)
      BY <1>1, <2>2, ReachAssumption DEF Expand, Active
  <2> QED BY <2>1, <2>2
<1> QED BY <1>1, <1>2, ReachAssumption DEF HasPositions

\* A configuration the mechanism can hold is one with every joint inside.
LEMMA HoldsInside ==
  ASSUME ChainInv, NEW r
  PROVE  Holds(r) <=> AllInside(couplings, Lo, Hi, r)
BY ChainValid DEF Holds, Within, AllInside, Inside, Lo, Hi

\* What tighten keeps is what the mechanism can hold, after any number of
\* tightenings.
THEOREM TightenIsExact == Spec => []TightenExact
<1> SUFFICES ASSUME ChainInv, BoundsInv PROVE TightenExact
    BY ChainInvariant, PTL
<1>1. ASSUME NEW r \in Reduced
      PROVE  /\ Tightened.ok =>
                  (Holds(r) <=> \A m \in Active(couplings) :
                                  Inside(r[m], AsBound(Tightened.lb[m]), AsBound(Tightened.ub[m])))
             /\ Holds(r) => Tightened.ok
  <2>1. HasPositions(couplings, r)
      BY ReducedHavePositions
  <2>2. ExactBounds(couplings, Lo, Hi)
      BY ChainExact
  <2> QED BY <2>1, <2>2, ChainValid, HoldsInside, TightenKeepsExactly DEF Tightened, Lo, Hi
<1> QED BY <1>1 DEF TightenExact, BoundsInv, Within, Inside

\* Tightening effective bounds again changes nothing.
THEOREM TightenIsIdempotent == Spec => TightenIdempotent
<1> DEFINE Again == verdict = "tightened" => verdict' = "tightened" /\ UNCHANGED <<lb, ub>>
<1>1. ASSUME ChainInv, BoundsInv, [Next]_vars PROVE [Again]_vars
    BY <1>1, TightenedAgain DEF Next, BoundsInv
<1> QED BY <1>1, ChainInvariant, PTL DEF Spec, TightenIdempotent

-----------------------------------------------------------------------------
(* The bounds of mimic joints are reached.                                 *)

\* Every interval left to an active joint of a chain that is not refused has a
\* position to try in it.
LEMMA Somewhere ==
  ASSUME ChainInv, Satisfiable(couplings, Lo, Hi), NEW m \in Active(couplings)
  PROVE  \E x \in Reach : Inside(x, Lower(couplings, Lo, Hi, m), Upper(couplings, Lo, Hi, m))
<1> DEFINE L == Lower(couplings, Lo, Hi, m)
           U == Upper(couplings, Lo, Hi, m)
<1>1. L <= U /\ L \in Reach \cup {-Infinity} /\ U \in Reach \cup {Infinity}
    BY IntervalWithinReach DEF Satisfiable
<1> HIDE DEF L, U
<1>2. \A x \in Reach : x \in Int /\ -Infinity <= x /\ x <= Infinity
    BY ReachAssumption, BoundAssumption DEF Position
<1>3. CASE L \in Reach
    BY <1>1, <1>2, <1>3 DEF Inside, L, U
<1>4. CASE U \in Reach
    BY <1>1, <1>2, <1>4 DEF Inside, L, U
<1>5. CASE L = -Infinity /\ U = Infinity
    BY <1>2, <1>5, ReachAssumption DEF Inside, L, U
<1> QED BY <1>1, <1>3, <1>4, <1>5

\* ... so the driver can be anywhere in its own with the whole chain held.
LEMMA HeldThere ==
  ASSUME ChainInv, Satisfiable(couplings, Lo, Hi), NEW x \in Reach,
         Inside(x, Lower(couplings, Lo, Hi, Driver), Upper(couplings, Lo, Hi, Driver))
  PROVE  \E r \in Reduced : Holds(r) /\ r[Driver] = x
<1> DEFINE In(m, y) == Inside(y, Lower(couplings, Lo, Hi, m), Upper(couplings, Lo, Hi, m))
           r == [m \in Active(couplings) |-> IF m = Driver THEN x ELSE CHOOSE y \in Reach : In(m, y)]
<1>1. ASSUME NEW m \in Active(couplings) PROVE r[m] \in Reach /\ In(m, r[m])
  <2>1. \E y \in Reach : In(m, y)
      BY Somewhere
  <2> HIDE DEF In
  <2>2. LET y == CHOOSE z \in Reach : In(m, z) IN y \in Reach /\ In(m, y)
      BY <2>1
  <2>3. In(Driver, x)
      BY DEF In
  <2> QED BY <2>2, <2>3
<1>2. r \in Reduced
    BY <1>1 DEF Reduced
<1>3. r[Driver] = x
    BY ChainValid
<1> HIDE DEF r
<1>4. PinsHold(couplings, Lo, Hi)
    BY DEF Satisfiable, PinsHold, Inside
<1>5. AllInside(couplings, Lo, Hi, r)
    BY <1>1, <1>2, <1>4, ReducedHavePositions, ChainExact, ChainValid, ConfigurationsKept
<1> QED BY <1>2, <1>3, <1>5, HoldsInside

\* A finite end of a mimic joint's effective bounds is where the joint is for
\* some position inside the interval of the driver.
LEMMA EndReached ==
  ASSUME ChainInv, Satisfiable(couplings, Lo, Hi), NEW i \in Mimics(couplings), NEW k \in {1, 2},
         NEW bound, bound = AsStored(Effective(couplings, Lo, Hi, i)[k]),
         bound \notin {Sentinel, -Sentinel}
  PROVE  \E x \in Reach :
           /\ Inside(x, Lower(couplings, Lo, Hi, Driver), Upper(couplings, Lo, Hi, Driver))
           /\ Couple(couplings[i], x) = bound
<1> DEFINE c == couplings[i]
           L == Lower(couplings, Lo, Hi, Driver)
           U == Upper(couplings, Lo, Hi, Driver)
<1>1. /\ c \in MimicOf(Driver) /\ c.mimicked = Driver /\ c \in Coupling
      /\ IsMimic(couplings, i) /\ Driver \in Active(couplings)
  <2>1. c \in MimicOf(Driver) /\ c.mimicked = Driver /\ Driver \in Active(couplings)
      BY ChainValid
  <2> QED BY <2>1, OuterJoint DEF Outer, Mimics
<1>2. \A y \in Position : AsStored(y) = y /\ y \in Int
    BY BoundAssumption DEF AsStored, Position
<1>3. \A x \in Reach : x \in Int /\ x \in Position /\ Couple(c, x) \in Position
    BY <1>1, ReachAssumption DEF Position
<1>4. L <= U /\ L \in Reach \cup {-Infinity} /\ U \in Reach \cup {Infinity}
    BY <1>1, IntervalWithinReach DEF Satisfiable
<1>5. PICK x0 \in Reach : Inside(x0, L, U)
    BY <1>1, Somewhere
<1> HIDE DEF L, U
<1>6. CASE Pins(c)
  <2>1. Effective(couplings, Lo, Hi, i)[k] = c.offset
      BY <1>1, <1>6 DEF Effective
  <2>2. c.offset \in Position /\ c.multiplier = 0
      BY <1>1, <1>6, ReachAssumption DEF MimicOf, Pins
  <2>3. Couple(c, x0) = c.offset
      BY <1>2, <1>3, <2>2 DEF Couple
  <2> QED BY <1>2, <1>5, <2>1, <2>2, <2>3 DEF L, U
<1>7. CASE ~Pins(c)
  <2>1. Effective(couplings, Lo, Hi, i) = Image(c, L, U)
      BY <1>1, <1>7 DEF Effective, L, U
  <2>2. PICK e \in {L, U} : Effective(couplings, Lo, Hi, i)[k] = CoupleBound(c, e)
      BY <2>1 DEF Image, Ordered
  <2>3. CASE e \in Reach
    <3>1. e \in Int /\ Couple(c, e) \in Position /\ ~Infinite(e)
        BY <1>3, <2>3, BoundAssumption DEF Position, Infinite
    <3>2. bound = Couple(c, e)
        BY <1>2, <2>2, <3>1 DEF CoupleBound
    <3>3. Inside(e, L, U)
        BY <1>3, <1>4, <2>3, BoundAssumption DEF Inside
    <3> QED BY <2>3, <3>2, <3>3 DEF L, U
  <2>4. CASE e \in {Infinity, -Infinity}
    <3>1. CoupleBound(c, e) \in {Infinity, -Infinity}
        BY <2>4, BoundAssumption DEF CoupleBound, Infinite, Sign
    <3>2. bound \in {Sentinel, -Sentinel}
        BY <2>2, <3>1, BoundAssumption DEF AsStored
    <3> QED BY <3>2
  <2> QED BY <1>4, <2>3, <2>4
<1> QED BY <1>6, <1>7

\* What the effective bounds say of a mimic joint is where it really gets.
THEOREM BoundsAreReached == Spec => []MimicBoundsReached
<1> SUFFICES ASSUME ChainInv, BoundsInv PROVE MimicBoundsReached
    BY ChainInvariant, PTL
<1> SUFFICES ASSUME verdict = "tightened", NEW i \in Mimics(couplings),
                    NEW bound \in {lb[i], ub[i]} \ {Sentinel, -Sentinel}
             PROVE  \E r \in Reduced : Holds(r) /\ Expand(couplings, r)[i] = bound
    BY DEF MimicBoundsReached
<1>1. Tightened.ok /\ lb = Tightened.lb /\ ub = Tightened.ub
    BY DEF BoundsInv
<1>2. Satisfiable(couplings, Lo, Hi)
    BY <1>1 DEF Tightened, Tighten, Lo, Hi
<1>3. /\ i \in DOMAIN couplings /\ IsMimic(couplings, i) /\ couplings[i].mimicked = Driver
    BY ChainValid DEF Mimics
<1>4. /\ lb[i] = AsStored(Effective(couplings, Lo, Hi, i)[1])
      /\ ub[i] = AsStored(Effective(couplings, Lo, Hi, i)[2])
    BY <1>1, <1>3 DEF Tightened, Tighten, Lo, Hi
<1>5. PICK x \in Reach :
        /\ Inside(x, Lower(couplings, Lo, Hi, Driver), Upper(couplings, Lo, Hi, Driver))
        /\ Couple(couplings[i], x) = bound
    BY <1>2, <1>4, EndReached
<1>6. PICK r \in Reduced : Holds(r) /\ r[Driver] = x
    BY <1>2, <1>5, HeldThere
<1>7. Expand(couplings, r)[i] = bound
    BY <1>3, <1>5, <1>6 DEF Expand
<1> QED BY <1>6, <1>7

-----------------------------------------------------------------------------
(* A joint folded in by the caller.                                        *)

\* What the caller makes of the third joint, and of the chain without it.
Folded == TightenThroughCoupling(couplings[3], own_lb[3], own_ub[3],
                                 own_lb[Driver], own_ub[Driver])
Short    == SubSeq(couplings, 1, 2)
ShortLo  == [i \in 1..2 |-> AsBound(<<own_lb[1], Folded.lb>>[i])]
ShortHi  == [i \in 1..2 |-> AsBound(<<own_ub[1], Folded.ub>>[i])]
LeftBy(i) == Preimage(couplings[i], Lo[i], Hi[i])

\* The chain without the third joint.
LEMMA ShortChain ==
  ASSUME ChainInv, IsMimic(couplings, 3)
  PROVE  /\ Short \in Seq(Coupling) /\ DOMAIN Short = 1..2 /\ Len(Short) = 2
         /\ \A i \in 1..2 : Short[i] = couplings[i]
         /\ Active(Short) = Active(couplings) /\ Mimics(Short) = Mimics(couplings) \ {3}
         /\ 3 \in Mimics(couplings)
         /\ \A m : Binding(Short, m) = Binding(couplings, m) \ {3}
         /\ Valid(Short)
<1>1. couplings \in Seq(Coupling) /\ Len(couplings) = 3 /\ DOMAIN couplings = 1..3
    BY ChainValid DEF Joints
<1>2. \A i \in 1..2 : couplings[i] \in Coupling
  <2>1. \A i \in 1..2 : i \in Joints
      BY DEF Joints
  <2> QED BY <2>1, OuterJoint DEF ChainInv
<1>3. Short \in Seq(Coupling) /\ Len(Short) = 2 /\ \A i \in 1..2 : Short[i] = couplings[i]
    BY <1>2, SubSeqProperties DEF Short
<1>4. DOMAIN Short = 1..2
    BY <1>3
<1> HIDE DEF Short
<1>5. \A i : i \in 1..3 <=> i \in 1..2 \/ i = 3
    OBVIOUS
<1>6. \A i \in 1..2 : i # 3
    OBVIOUS
<1>7. \A i \in 1..2 : IsMimic(Short, i) <=> IsMimic(couplings, i)
    BY <1>3 DEF IsMimic
<1>8. Active(Short) = Active(couplings) /\ Mimics(Short) = Mimics(couplings) \ {3}
      /\ 3 \in Mimics(couplings)
    BY <1>1, <1>4, <1>5, <1>6, <1>7 DEF Active, Mimics
<1>9. \A i \in Mimics(couplings) \ {3} : i \in 1..2 /\ Short[i] = couplings[i]
    BY <1>1, <1>3, <1>5 DEF Mimics
<1>10. \A m : Binding(Short, m) = Binding(couplings, m) \ {3}
    BY <1>8, <1>9 DEF Binding, Followers
<1>11. Valid(Short)
  <2>1. Driver \in 1..2 /\ \A i \in Mimics(couplings) : couplings[i].mimicked = Driver
      BY ChainValid DEF Driver
  <2>2. \A i \in 1..2 : /\ Short[i].variable_count = 1
                        /\ IsMimic(Short, i) => /\ Short[i].mimicked = Driver /\ Driver # i
                                                /\ Short[i].finite
    <3>1. Valid(couplings)
        BY ChainValid
    <3>2. \A i \in 1..2 : i \in DOMAIN couplings
        BY <1>1
    <3> QED BY <1>3, <1>7, <2>1, <3>1, <3>2 DEF Valid, Mimics
  <2>3. ~IsMimic(Short, Driver)
      BY <1>7, <2>1, ChainValid DEF Active
  <2> QED BY <1>4, <2>1, <2>2, <2>3 DEF Valid
<1> QED BY <1>3, <1>4, <1>8, <1>10, <1>11

\* What the third joint leaves the driver ends where one of them does.
LEMMA FoldedEnds ==
  ASSUME ChainInv, IsMimic(couplings, 3), ~Pins(couplings[3])
  PROVE  LET lo == Max({Lo[2], LeftBy(3)[1]})
             hi == Min({Hi[2], LeftBy(3)[2]})
         IN  /\ lo \in {Lo[2], LeftBy(3)[1]} /\ hi \in {Hi[2], LeftBy(3)[2]}
             /\ lo \in Bound /\ hi \in Bound /\ lo \in Int /\ hi \in Int
<1>1. LeftBy(3)[1] \in Bound /\ LeftBy(3)[2] \in Bound
  <2>1. 3 \in Binding(couplings, Driver)
      BY ShortChain, ChainValid DEF Binding, Followers
  <2>2. Reach \subseteq Position
      BY ReachAssumption
  <2> QED BY <2>1, <2>2, LeftWithinReach DEF LeftBy, Bound
<1>2. Lo[2] \in Bound /\ Hi[2] \in Bound
  <2>1. 2 \in Joints
      BY DEF Joints
  <2> QED BY <2>1, OwnBounds
<1>3. Bound \subseteq Int
    BY BoundAssumption DEF Bound, Position
<1> HIDE DEF LeftBy
<1> DEFINE lo == Max({Lo[2], LeftBy(3)[1]})
           hi == Min({Hi[2], LeftBy(3)[2]})
<1>4. lo \in {Lo[2], LeftBy(3)[1]} /\ hi \in {Hi[2], LeftBy(3)[2]}
    BY <1>1, <1>2, <1>3, PairFinite, MaxProperty, MinProperty
<1> HIDE DEF lo, hi
<1>5. lo \in Bound /\ hi \in Bound
    BY <1>1, <1>2, <1>4
<1> QED BY <1>3, <1>4, <1>5 DEF lo, hi

\* The bounds folded in, as numbers.
LEMMA FoldedBounds ==
  ASSUME ChainInv, IsMimic(couplings, 3)
  PROVE  /\ ShortLo \in [1..2 -> Int] /\ ShortHi \in [1..2 -> Int]
         /\ ShortLo[1] = Lo[1] /\ ShortHi[1] = Hi[1]
         /\ Pins(couplings[3]) =>
              /\ Folded.ok <=> Inside(couplings[3].offset, Lo[3], Hi[3])
              /\ ShortLo[2] = Lo[2] /\ ShortHi[2] = Hi[2]
         /\ ~Pins(couplings[3]) =>
              /\ Folded.ok <=> Max({Lo[2], LeftBy(3)[1]}) <= Min({Hi[2], LeftBy(3)[2]})
              /\ Folded.ok => /\ ShortLo[2] = Max({Lo[2], LeftBy(3)[1]})
                              /\ ShortHi[2] = Min({Hi[2], LeftBy(3)[2]})
<1> DEFINE c == couplings[3]
           lo == Max({Lo[2], LeftBy(3)[1]})
           hi == Min({Hi[2], LeftBy(3)[2]})
<1>1. /\ Lo[1] = AsBound(own_lb[1]) /\ Lo[2] = AsBound(own_lb[2]) /\ Lo[3] = AsBound(own_lb[3])
      /\ Hi[1] = AsBound(own_ub[1]) /\ Hi[2] = AsBound(own_ub[2]) /\ Hi[3] = AsBound(own_ub[3])
      /\ {Lo[1], Lo[2], Lo[3], Hi[1], Hi[2], Hi[3]} \subseteq Bound /\ Bound \subseteq Int
  <2>1. 1 \in Joints /\ 2 \in Joints /\ 3 \in Joints
      BY DEF Joints
  <2>2. Bound \subseteq Int
      BY BoundAssumption DEF Bound, Position
  <2> QED BY <2>1, <2>2, ChainValid, OwnBounds DEF Lo, Hi
<1>2. Lo[1] \in Int /\ Lo[2] \in Int /\ Hi[1] \in Int /\ Hi[2] \in Int
    BY <1>1, Zenon
<1>3. c.finite /\ Driver = 2
    BY OuterJoint DEF ChainInv, Joints, Driver
<1>4. /\ ShortLo = [i \in 1..2 |-> IF i = 1 THEN Lo[1] ELSE AsBound(Folded.lb)]
      /\ ShortHi = [i \in 1..2 |-> IF i = 1 THEN Hi[1] ELSE AsBound(Folded.ub)]
    BY <1>1 DEF ShortLo, ShortHi
<1>5. CASE Pins(c)
  <2>1. /\ Folded.ok <=> Inside(c.offset, Lo[3], Hi[3])
        /\ Folded.lb = own_lb[2] /\ Folded.ub = own_ub[2]
      BY <1>1, <1>3, <1>5 DEF Folded, TightenThroughCoupling, Inside
  <2>2. /\ ShortLo = [i \in 1..2 |-> IF i = 1 THEN Lo[1] ELSE Lo[2]]
        /\ ShortHi = [i \in 1..2 |-> IF i = 1 THEN Hi[1] ELSE Hi[2]]
      BY <1>1, <1>4, <2>1
  <2>3. /\ ShortLo \in [1..2 -> Int] /\ ShortHi \in [1..2 -> Int]
        /\ ShortLo[1] = Lo[1] /\ ShortHi[1] = Hi[1] /\ ShortLo[2] = Lo[2] /\ ShortHi[2] = Hi[2]
      BY <1>2, <2>2
  <2> QED BY <1>5, <2>1, <2>3
<1>6. CASE ~Pins(c)
  <2>1. Folded.ok <=> lo <= hi
      BY <1>1, <1>3, <1>6 DEF Folded, TightenThroughCoupling, LeftBy
  <2>2. /\ Folded.lb = IF Folded.ok THEN AsStored(lo) ELSE own_lb[2]
        /\ Folded.ub = IF Folded.ok THEN AsStored(hi) ELSE own_ub[2]
      BY <1>1, <1>3, <1>6 DEF Folded, TightenThroughCoupling, LeftBy
  <2>3. lo \in Bound /\ hi \in Bound
      BY <1>6, FoldedEnds
  <2> HIDE DEF lo, hi, c
  <2>6. Folded.ok => AsBound(Folded.lb) = lo /\ AsBound(Folded.ub) = hi
      BY <2>2, <2>3, StoredBack
  <2>7. AsBound(Folded.lb) \in Int /\ AsBound(Folded.ub) \in Int
    <3>1. CASE Folded.ok
        BY <1>1, <2>3, <2>6, <3>1
    <3>2. CASE ~Folded.ok
        BY <1>1, <2>2, <3>2
    <3> QED BY <3>1, <3>2
  <2>8. ShortLo[2] = AsBound(Folded.lb) /\ ShortHi[2] = AsBound(Folded.ub)
      BY <1>4
  <2> HIDE DEF LeftBy
  <2>9. ShortLo \in [1..2 -> Int] /\ ShortHi \in [1..2 -> Int] /\ ShortLo[1] = Lo[1] /\ ShortHi[1] = Hi[1]
      BY <1>4, <1>2, <2>7
  <2> QED BY <1>6, <2>1, <2>6, <2>8, <2>9 DEF lo, hi, c
<1> QED BY <1>5, <1>6

\* Both leave every active joint the same interval.
LEMMA SameIntervals ==
  ASSUME ChainInv, IsMimic(couplings, 3), Folded.ok, NEW m \in Active(couplings)
  PROVE  /\ Lower(Short, ShortLo, ShortHi, m) = Lower(couplings, Lo, Hi, m)
         /\ Upper(Short, ShortLo, ShortHi, m) = Upper(couplings, Lo, Hi, m)
<1> DEFINE T(k) == {LeftBy(i)[k] : i \in Binding(couplings, m) \ {3}}
<1>1. \A i \in Binding(Short, m) : i = 1 /\ Short[i] = couplings[i]
  <2>1. ASSUME NEW i \in Binding(Short, m) PROVE i = 1 /\ Short[i] = couplings[i]
    <3>1. i \in Mimics(couplings) \ {3} /\ i \in Mimics(Short)
        BY ShortChain DEF Binding, Followers
    <3>2. i \in 1..2 /\ i # Driver
        BY <3>1, ShortChain, ChainValid DEF Mimics, Active
    <3> QED BY <3>2, ShortChain DEF Driver
  <2> QED BY <2>1
<1>2. EndsLeft(Short, ShortLo, ShortHi, m, 1) = T(1) /\ EndsLeft(Short, ShortLo, ShortHi, m, 2) = T(2)
  <2>1. \A i \in Binding(Short, m) :
          Preimage(Short[i], ShortLo[i], ShortHi[i]) = LeftBy(i)
      BY <1>1, FoldedBounds DEF LeftBy
  <2>2. Binding(Short, m) = Binding(couplings, m) \ {3}
      BY ShortChain
  <2> QED BY <2>1, <2>2 DEF EndsLeft
<1>3. CASE 3 \notin Binding(couplings, m)
  <2>1. EndsLeft(couplings, Lo, Hi, m, 1) = T(1) /\ EndsLeft(couplings, Lo, Hi, m, 2) = T(2)
    <3>1. Binding(couplings, m) \ {3} = Binding(couplings, m)
        BY <1>3
    <3> QED BY <3>1 DEF EndsLeft, LeftBy
  <2>2. ShortLo[m] = Lo[m] /\ ShortHi[m] = Hi[m]
    <3>1. m = 1 \/ (m = 2 /\ Pins(couplings[3]))
      <4>1. m \in 1..2
          BY ShortChain DEF Active
      <4>2. m = 2 => Pins(couplings[3])
          BY <1>3, ShortChain, ChainValid DEF Binding, Followers, Driver
      <4> QED BY <4>1, <4>2
    <3> QED BY <3>1, FoldedBounds
  <2> QED BY <1>2, <2>1, <2>2 DEF Lower, Upper
<1>4. CASE 3 \in Binding(couplings, m)
  <2>1. m = 2 /\ ~Pins(couplings[3])
      BY <1>4, ShortChain, ChainValid DEF Binding, Followers, Driver
  <2>2. /\ ShortLo[2] = Max({Lo[2], LeftBy(3)[1]})
        /\ ShortHi[2] = Min({Hi[2], LeftBy(3)[2]})
      BY <2>1, FoldedBounds
  <2>3. /\ EndsLeft(couplings, Lo, Hi, m, 1) = {LeftBy(3)[1]} \cup T(1)
        /\ EndsLeft(couplings, Lo, Hi, m, 2) = {LeftBy(3)[2]} \cup T(2)
    <3>1. Binding(couplings, m) = {3} \cup (Binding(couplings, m) \ {3})
        BY <1>4
    <3> QED BY <3>1 DEF EndsLeft, LeftBy
  <2>4. \A k \in {1, 2} : /\ EndsLeft(couplings, Lo, Hi, m, k) \in SUBSET Int
                          /\ IsFiniteSet(EndsLeft(couplings, Lo, Hi, m, k))
      BY ChainValid, ChainExact, EndsLeftFinite
  <2>5. /\ T(1) \in SUBSET Int /\ IsFiniteSet(T(1)) /\ LeftBy(3)[1] \in Int
        /\ T(2) \in SUBSET Int /\ IsFiniteSet(T(2)) /\ LeftBy(3)[2] \in Int
    <3> HIDE DEF T
    <3>1. /\ T(1) \subseteq EndsLeft(couplings, Lo, Hi, m, 1)
          /\ T(2) \subseteq EndsLeft(couplings, Lo, Hi, m, 2)
        BY <2>3
    <3>2. IsFiniteSet(T(1)) /\ IsFiniteSet(T(2))
        BY <2>4, <3>1, FS_Subset
    <3> QED BY <2>3, <2>4, <3>1, <3>2
  <2>6. Lo[2] \in Int /\ Hi[2] \in Int
    <3>1. Driver \in DOMAIN couplings
        BY ChainValid DEF Active
    <3> QED BY <3>1, ChainExact DEF Driver
  <2> HIDE DEF T, LeftBy
  <2>8. /\ Max({ShortLo[2]} \cup T(1)) = Max({Lo[2], LeftBy(3)[1]} \cup T(1))
        /\ Min({ShortHi[2]} \cup T(2)) = Min({Hi[2], LeftBy(3)[2]} \cup T(2))
      BY <2>2, <2>5, <2>6, PairFinite, MaxJoined, MinJoined
  <2>9. /\ {Lo[2], LeftBy(3)[1]} \cup T(1) = {Lo[2]} \cup EndsLeft(couplings, Lo, Hi, m, 1)
        /\ {Hi[2], LeftBy(3)[2]} \cup T(2) = {Hi[2]} \cup EndsLeft(couplings, Lo, Hi, m, 2)
      BY <2>3
  <2> QED BY <1>2, <2>1, <2>8, <2>9 DEF Lower, Upper
<1> QED BY <1>3, <1>4

\* Both refuse the same chains.
LEMMA SameRefusals ==
  ASSUME ChainInv, IsMimic(couplings, 3)
  PROVE  Satisfiable(couplings, Lo, Hi) <=> Folded.ok /\ Satisfiable(Short, ShortLo, ShortHi)
<1> DEFINE PinsHoldIn(S) == \A i \in S : Pins(couplings[i]) => Inside(couplings[i].offset, Lo[i], Hi[i])
           Room == \A m \in Active(couplings) :
                     Lower(couplings, Lo, Hi, m) <= Upper(couplings, Lo, Hi, m)
<1>1. Satisfiable(couplings, Lo, Hi) <=> PinsHoldIn(Mimics(couplings)) /\ Room
    BY DEF Satisfiable, Inside
<1>2. Mimics(couplings) = {3} \cup Mimics(Short)
    BY ShortChain
<1>3. CASE Folded.ok
  <2>1. \A i \in Mimics(Short) :
          Short[i] = couplings[i] /\ ShortLo[i] = Lo[i] /\ ShortHi[i] = Hi[i]
    <3>1. ASSUME NEW i \in Mimics(Short) PROVE i = 1 /\ Short[i] = couplings[i]
      <4>1. i \in 1..2 /\ i \in Mimics(couplings) /\ i # Driver
          BY ShortChain, ChainValid DEF Mimics, Active
      <4> QED BY <4>1, ShortChain DEF Driver
    <3> QED BY <3>1, FoldedBounds
  <2>2. Satisfiable(Short, ShortLo, ShortHi) <=> PinsHoldIn(Mimics(Short)) /\ Room
      BY <1>3, <2>1, SameIntervals, ShortChain DEF Satisfiable, Inside
  <2>3. PinsHoldIn({3})
      BY <1>3, FoldedBounds
  <2> QED BY <1>1, <1>2, <1>3, <2>2, <2>3
<1>4. CASE ~Folded.ok
  <2>1. CASE Pins(couplings[3])
      BY <1>1, <1>2, <1>4, <2>1, FoldedBounds
  <2>2. CASE ~Pins(couplings[3])
    <3> DEFINE lo == Max({Lo[2], LeftBy(3)[1]})
               hi == Min({Hi[2], LeftBy(3)[2]})
               L  == Lower(couplings, Lo, Hi, 2)
               U  == Upper(couplings, Lo, Hi, 2)
    <3>1. ~(lo <= hi)
        BY <1>4, <2>2, FoldedBounds
    <3>2. 2 \in Active(couplings) /\ 2 \in DOMAIN couplings /\ 3 \in Binding(couplings, 2)
          /\ couplings \in Seq(Coupling)
        BY <2>2, ShortChain, ChainValid DEF Driver, Active, Binding, Followers
    <3>3. /\ L \in Int /\ U \in Int /\ Lo[2] <= L /\ U <= Hi[2]
          /\ LeftBy(3)[1] <= L /\ U <= LeftBy(3)[2]
        BY <3>2, ChainExact, LowerUpper DEF LeftBy
    <3>4. lo \in {Lo[2], LeftBy(3)[1]} /\ hi \in {Hi[2], LeftBy(3)[2]} /\ lo \in Int /\ hi \in Int
        BY <2>2, <3>2, FoldedEnds
    <3> HIDE DEF lo, hi, L, U
    <3>5. lo <= L /\ U <= hi
        BY <3>3, <3>4
    <3>6. ~(L <= U)
        BY <3>1, <3>3, <3>4, <3>5
    <3>7. ~Room
        BY <3>2, <3>6 DEF L, U
    <3> QED BY <1>1, <1>4, <3>7
  <2> QED BY <2>1, <2>2
<1> QED BY <1>3, <1>4

\* A joint outside the chain whose coupling the caller folds in bounds the chain
\* exactly as it does from inside.
THEOREM CallersFoldAgrees == Spec => []TightenersAgree
<1> SUFFICES ASSUME ChainInv, BoundsInv PROVE TightenersAgree
    BY ChainInvariant, PTL
<1> SUFFICES ASSUME verdict # "untried", IsMimic(couplings, 3)
             PROVE  LET short == Tighten(Short, <<own_lb[1], Folded.lb>>, <<own_ub[1], Folded.ub>>)
                    IN  /\ (verdict = "tightened") <=> (Folded.ok /\ short.ok)
                        /\ verdict = "tightened" =>
                             short.lb = SubSeq(lb, 1, 2) /\ short.ub = SubSeq(ub, 1, 2)
    BY DEF TightenersAgree, Short, Folded
<1> DEFINE short == Tighten(Short, <<own_lb[1], Folded.lb>>, <<own_ub[1], Folded.ub>>)
<1>1. short.ok <=> Satisfiable(Short, ShortLo, ShortHi)
    BY ShortChain DEF Tighten, ShortLo, ShortHi
<1>2. Tightened.ok <=> Satisfiable(couplings, Lo, Hi)
    BY ChainValid DEF Tightened, Tighten, Lo, Hi
<1>3. (verdict = "tightened") <=> (Folded.ok /\ short.ok)
    BY <1>1, <1>2, SameRefusals DEF BoundsInv
<1>4. ASSUME verdict = "tightened"
      PROVE  short.lb = SubSeq(lb, 1, 2) /\ short.ub = SubSeq(ub, 1, 2)
  <2>1. Folded.ok /\ short.ok /\ Tightened.ok /\ lb = Tightened.lb /\ ub = Tightened.ub
      BY <1>3, <1>4 DEF BoundsInv
  <2>2. ASSUME NEW i \in 1..2
        PROVE  Effective(Short, ShortLo, ShortHi, i) = Effective(couplings, Lo, Hi, i)
    <3>1. Short[i] = couplings[i] /\ (IsMimic(couplings, i) => couplings[i].mimicked \in Active(couplings))
          /\ (~IsMimic(couplings, i) => i \in Active(couplings))
        BY ShortChain, ChainValid DEF Mimics, Active
    <3> QED BY <2>1, <3>1, SameIntervals DEF Effective, IsMimic
  <2>3. /\ short.lb = [i \in 1..2 |-> AsStored(Effective(couplings, Lo, Hi, i)[1])]
        /\ short.ub = [i \in 1..2 |-> AsStored(Effective(couplings, Lo, Hi, i)[2])]
    <3>1. /\ DOMAIN <<own_lb[1], Folded.lb>> = 1..2
          /\ DOMAIN <<own_ub[1], Folded.ub>> = 1..2
        OBVIOUS
    <3>2. /\ short.lb = [i \in 1..2 |-> AsStored(Effective(Short, ShortLo, ShortHi, i)[1])]
          /\ short.ub = [i \in 1..2 |-> AsStored(Effective(Short, ShortLo, ShortHi, i)[2])]
        BY <2>1, <3>1, ShortChain DEF Tighten, ShortLo, ShortHi
    <3> HIDE DEF short
    <3> QED BY <2>2, <3>2
  <2>4. /\ lb = [i \in Joints |-> AsStored(Effective(couplings, Lo, Hi, i)[1])]
        /\ ub = [i \in Joints |-> AsStored(Effective(couplings, Lo, Hi, i)[2])]
      BY <2>1, ChainValid DEF Tightened, Tighten, Lo, Hi
  <2>5. \A i \in 1..2 : i \in Joints
      BY DEF Joints
  <2>6. /\ SubSeq(lb, 1, 2) = [i \in 1..2 |-> lb[i]]
        /\ SubSeq(ub, 1, 2) = [i \in 1..2 |-> ub[i]]
      OBVIOUS
  <2> HIDE DEF short
  <2> QED BY <2>3, <2>4, <2>5, <2>6
<1> QED BY <1>3, <1>4

-----------------------------------------------------------------------------
(***************************************************************************)
(* The reduced Jacobian of every chain in reach is the derivative of its   *)
(* tip: FoldIsDerivative from the joints' zeros and by a step of one tick. *)
(***************************************************************************)
THEOREM FoldIsTheChainRule == Spec => []FoldIsChainRule
<1>1. ASSUME ChainInv PROVE FoldIsChainRule
  <2> SUFFICES ASSUME NEW jac \in Columns, NEW m \in Active(couplings)
               PROVE  LET tip(r)  == LET full == Expand(couplings, r)
                                     IN  SumFunction([i \in Joints |-> jac[i] * full[i]])
                          still   == [i \in Active(couplings) |-> 0]
                          moved   == [still EXCEPT ![m] = 1]
                      IN  FoldJacobian(couplings, jac)[m] = tip(moved) - tip(still)
      BY DEF FoldIsChainRule
  <2> DEFINE still == [i \in Active(couplings) |-> 0]
             tip(r) == SumFunction([i \in DOMAIN couplings |-> jac[i] * Expand(couplings, r)[i]])
             fold == FoldJacobian(couplings, jac)[m]
  <2>1. /\ couplings \in Seq(Coupling) /\ DOMAIN couplings = Joints /\ Valid(couplings)
        /\ jac \in [DOMAIN couplings -> Int] /\ still \in [Active(couplings) -> Int]
      BY <1>1, ChainValid, ReachAssumption
  <2>2. tip([still EXCEPT ![m] = @ + 1]) - tip(still) = 1 * fold /\ fold \in Int
    <3> HIDE DEF still
    <3>1. 1 \in Int
        OBVIOUS
    <3> QED BY ONLY <2>1, <3>1, m \in Active(couplings), FoldIsDerivative, Zenon
  <2>3. [still EXCEPT ![m] = @ + 1] = [still EXCEPT ![m] = 1]
      OBVIOUS
  <2>4. 1 * fold = fold
      BY <2>2
  <2> QED BY <2>1, <2>2, <2>3, <2>4
<1> QED BY <1>1, ChainInvariant, PTL
=============================================================================
