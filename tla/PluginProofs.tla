------------------------------ MODULE PluginProofs ------------------------------
(***************************************************************************)
(* What holds of the plugin for every robot, request, callback and solver  *)
(* that keeps IkQuery: what it loads is what MoveIt holds, its bounds      *)
(* admit exactly what the group can be in and refusals have a reason, its  *)
(* solvers refuse nothing, attempts stay inside the time of their search,  *)
(* and searches end as IkSearch allows.                                    *)
(***************************************************************************)
EXTENDS Plugin, ChainLemmas

\* A configuration the search may take from its solver, callback aside.
Reaches(c) ==
  /\ c = RebuildMimicEntries(plugin.couplings, c)
  /\ Residual(IF plugin.params.position_only THEN Loosened(request.pose) ELSE request.pose, c)
       < Abs(plugin.params.epsilon)

\* What a load left is of one of the robots loaded, and nothing is solved before one.
LoadInv ==
  /\ plugin # Unloaded => \E l \in Loads : /\ robot = l.robot
                                          /\ plugin = Initialized(l.robot, l.params)
  /\ plugin = Unloaded => solution = <<>>

\* A search in progress is of a loaded plugin, and has returned nothing yet.
SearchInv ==
  /\ at \in {"idle", "testing", "asking", "solving", "taking", "judging"}
  /\ searching <=> at = "solving"
  /\ returned \in {"nothing", "true", "false"}
  /\ at # "idle" =>
       /\ plugin.active
       /\ mech = Initialize(ChainOf(robot, plugin))
       /\ Len(start) = plugin.num_joints
       /\ returned = "nothing"
       /\ request.callback = NoCallback => error_code = request.error_code
       /\ error_code = "SUCCESS" => request.error_code = "SUCCESS"

\* What the solver collected reaches the pose, and so does what is taken of it.
AttemptInv ==
  /\ IsFiniteSet(cands)
  /\ at = "solving" => \E t : query = QueryOf(plugin, request, start, t)
  /\ at = "solving" => \A c \in cands : Reaches(c)
  /\ at = "taking"  => answer.rc # -1 /\ (answer.rc >= 0 => Reaches(answer.q_out))
  /\ at = "judging" => Reaches(solution) /\ request.callback # NoCallback

TimeInv ==
  /\ left \in Nat /\ budget \in Nat
  /\ at \in {"solving", "taking"} => budget <= left

\* The caller's solution has an entry for every joint.
SolutionInv == Len(solution) \in {0, plugin.num_joints}

Inv == LoadInv /\ SearchInv /\ AttemptInv /\ TimeInv /\ SolutionInv

-----------------------------------------------------------------------------
(***************************************************************************)
(* The joints of some segments.  The rank of a segment numbers the         *)
(* segments of a set without gaps, so each number has one.                 *)
(***************************************************************************)

\* Some of the first segments are finitely many, and so are those before one.
LEMMA SomeSegments ==
  ASSUME NEW S \in SUBSET Nat, IsFiniteSet(S), NEW k \in S
  PROVE  /\ IsFiniteSet(UpTo(S, k)) /\ k \in UpTo(S, k) /\ UpTo(S, k) \subseteq S
         /\ Cardinality(S) \in Nat
         /\ Cardinality(UpTo(S, k)) \in 1..Cardinality(S)
<1>1. k \in UpTo(S, k) /\ UpTo(S, k) \in SUBSET S
    BY DEF UpTo
<1>2. /\ IsFiniteSet(UpTo(S, k)) /\ Cardinality(UpTo(S, k)) <= Cardinality(S)
      /\ Cardinality(S) \in Nat
    BY <1>1, FS_Subset, FS_CardinalityType
<1>3. Cardinality(UpTo(S, k)) \in Nat /\ Cardinality(UpTo(S, k)) # 0
    BY <1>1, <1>2, FS_CardinalityType, FS_EmptySet
<1> QED BY <1>1, <1>2, <1>3

\* A later segment has more segments before it.
LEMMA RankGrows ==
  ASSUME NEW S \in SUBSET Nat, IsFiniteSet(S), NEW j \in S, NEW k \in S, j < k
  PROVE  Cardinality(UpTo(S, j)) < Cardinality(UpTo(S, k))
<1>1. UpTo(S, j) \in SUBSET (UpTo(S, k) \ {k})
  <2>1. \A l \in S : l <= j => l <= k /\ l # k
      OBVIOUS
  <2> QED BY <2>1, Zenon DEF UpTo
<1>2. IsFiniteSet(UpTo(S, k)) /\ k \in UpTo(S, k) /\ Cardinality(UpTo(S, k)) \in Nat
    BY SomeSegments
<1>3. /\ IsFiniteSet(UpTo(S, k) \ {k})
      /\ Cardinality(UpTo(S, k) \ {k}) = Cardinality(UpTo(S, k)) - 1
    BY <1>2, FS_RemoveElement
<1>4. Cardinality(UpTo(S, j)) <= Cardinality(UpTo(S, k) \ {k})
    BY <1>1, <1>3, FS_Subset
<1>5. Cardinality(UpTo(S, j)) \in Nat
    BY SomeSegments
<1> QED BY <1>2, <1>3, <1>4, <1>5

\* Each number up to the number of segments is the rank of one of them.
LEMMA NthRanked ==
  ASSUME NEW S \in SUBSET Nat, IsFiniteSet(S), NEW i \in 1..Cardinality(S)
  PROVE  Nth(S, i) \in S /\ Cardinality(UpTo(S, Nth(S, i))) = i
<1> DEFINE n == Cardinality(S)
           rank == [k \in S |-> Cardinality(UpTo(S, k))]
<1>1. n \in Nat /\ IsFiniteSet(1..n) /\ Cardinality(1..n) = n
    BY FS_CardinalityType, FS_Interval
<1>2. rank \in Injection(S, 1..n)
  <2>1. \A k \in S : rank[k] \in 1..n
      BY SomeSegments
  <2>2. \A j, k \in S : rank[j] = rank[k] => j = k
    <3> SUFFICES ASSUME NEW j \in S, NEW k \in S, rank[j] = rank[k], j # k PROVE FALSE
        OBVIOUS
    <3>1. rank[j] \in Int /\ rank[k] \in Int
        BY <2>1
    <3>2. CASE j < k
        BY <3>1, <3>2, RankGrows
    <3>3. CASE k < j
        BY <3>1, <3>3, RankGrows
    <3> QED BY <3>2, <3>3
  <2> QED BY <2>1, <2>2 DEF Injection, IsInjective
<1>3. rank \in Surjection(S, 1..n)
    BY <1>1, <1>2, FS_Injection
<1>4. \E k \in S : rank[k] = i
    BY <1>3 DEF Surjection
<1> QED BY <1>4 DEF Nth

\* ... and the segment of its own rank.
LEMMA NthOfRank ==
  ASSUME NEW S \in SUBSET Nat, IsFiniteSet(S), NEW k \in S
  PROVE  Nth(S, Cardinality(UpTo(S, k))) = k
<1> DEFINE i == Cardinality(UpTo(S, k))
           m == Nth(S, i)
<1>1. i \in 1..Cardinality(S) /\ i \in Int
    BY SomeSegments
<1>2. m \in S /\ Cardinality(UpTo(S, m)) = i
    BY <1>1, NthRanked
<1> HIDE DEF m, i
<1>3. Cardinality(UpTo(S, k)) = i /\ Cardinality(UpTo(S, m)) = i
    BY <1>2 DEF i
<1>4. m = k
  <2>1. ~(m < k) /\ ~(k < m)
      BY <1>1, <1>2, <1>3, RankGrows
  <2> QED BY <1>2, <2>1
<1> QED BY <1>4 DEF m, i

\* What is read of a robot that is loaded.
LEMMA ChainRead ==
  ASSUME NEW l \in Loads, NEW S \in SUBSET DOMAIN l.robot.chain
  PROVE  /\ S \in SUBSET Nat /\ IsFiniteSet(S)
         /\ Cardinality(S) \in Nat
         /\ DOMAIN JointsAt(l.robot, S) = 1..Cardinality(S)
         /\ Len(JointsAt(l.robot, S)) = Cardinality(S)
         /\ \A i \in 1..Cardinality(S) :
              Nth(S, i) \in S /\ JointsAt(l.robot, S)[i] = l.robot.chain[Nth(S, i)].joint
         /\ \A k \in S : \E i \in 1..Cardinality(S) : JointsAt(l.robot, S)[i] = l.robot.chain[k].joint
         /\ \A i, j \in 1..Cardinality(S) :
              JointsAt(l.robot, S)[i] = JointsAt(l.robot, S)[j] => i = j
<1> DEFINE r == l.robot
           n == Cardinality(S)
<1>1. DOMAIN r.chain = 1..Len(r.chain) /\ Len(r.chain) \in Nat
    BY LoadsAssumption
<1>2. S \in SUBSET Nat /\ IsFiniteSet(S) /\ n \in Nat
  <2>1. IsFiniteSet(1..Len(r.chain))
      BY <1>1, FS_Interval
  <2>2. IsFiniteSet(S)
      BY <1>1, <2>1, FS_Subset
  <2> QED BY <1>1, <2>2, FS_CardinalityType
<1>3. JointsAt(r, S) = [i \in 1..n |-> r.chain[Nth(S, i)].joint]
    BY DEF JointsAt
<1>4. \A i \in 1..n : Nth(S, i) \in S /\ Cardinality(UpTo(S, Nth(S, i))) = i
    BY <1>2, NthRanked
<1>5. \A k \in S : Cardinality(UpTo(S, k)) \in 1..n /\ Nth(S, Cardinality(UpTo(S, k))) = k
    BY <1>2, NthOfRank, SomeSegments
<1>6. ASSUME NEW i \in 1..n, NEW j \in 1..n, JointsAt(r, S)[i] = JointsAt(r, S)[j]
      PROVE  i = j
  <2>1. r.chain[Nth(S, i)].joint = r.chain[Nth(S, j)].joint
      BY <1>3, <1>6
  <2>2. Nth(S, i) = Nth(S, j)
      BY <1>4, <2>1, LoadsAssumption
  <2> QED BY <1>4, <2>2
<1>7. DOMAIN JointsAt(r, S) = 1..n /\ Len(JointsAt(r, S)) = n
  <2>1. JointsAt(r, S) \in Seq({JointsAt(r, S)[i] : i \in 1..n}) /\ Len(JointsAt(r, S)) = n
      BY <1>2, <1>3, FunctionIsSequence
  <2> QED BY <1>3, <2>1
<1>8. \A k \in S : \E i \in 1..n : JointsAt(r, S)[i] = r.chain[k].joint
    BY <1>3, <1>5
<1> QED BY <1>2, <1>3, <1>4, <1>6, <1>7, <1>8

\* The names of the joints with a variable are a sequence.
LEMMA LoadedSize ==
  ASSUME NEW l \in Loads
  PROVE  /\ Cardinality(VariableAt(l.robot)) \in Nat
         /\ DOMAIN VariableJoints(l.robot) = 1..Cardinality(VariableAt(l.robot))
         /\ Len(VariableJoints(l.robot)) = Cardinality(VariableAt(l.robot))
<1>1. VariableAt(l.robot) \in SUBSET DOMAIN l.robot.chain
    BY DEF VariableAt
<1> QED BY <1>1, ChainRead DEF VariableJoints

\* A joint's place among the names is its only one.
LEMMA PlaceIn ==
  ASSUME NEW l \in Loads, NEW i \in 1..Cardinality(VariableAt(l.robot))
  PROVE  IndexIn(VariableJoints(l.robot), VariableJoints(l.robot)[i]) = i
<1> DEFINE names == VariableJoints(l.robot)
           P == {k \in DOMAIN names : names[k] = names[i]}
<1>1. VariableAt(l.robot) \in SUBSET DOMAIN l.robot.chain
    BY DEF VariableAt
<1>2. P = {i} /\ i \in Int
    BY <1>1, ChainRead DEF VariableJoints
<1> HIDE DEF P
<1>3. P \in SUBSET Int /\ IsFiniteSet(P) /\ P # {}
    BY <1>2, FS_Singleton
<1>4. Min(P) = i
    BY <1>2, <1>3, MinProperty
<1> QED BY <1>4 DEF IndexIn, P

\* ... and it is one of 1..n that a joint in the chain has.
LEMMA PlaceOf ==
  ASSUME NEW l \in Loads, NEW j \in Range(VariableJoints(l.robot))
  PROVE  /\ IndexIn(VariableJoints(l.robot), j) \in 1..Cardinality(VariableAt(l.robot))
         /\ VariableJoints(l.robot)[IndexIn(VariableJoints(l.robot), j)] = j
<1>1. VariableAt(l.robot) \in SUBSET DOMAIN l.robot.chain
    BY DEF VariableAt
<1>2. DOMAIN VariableJoints(l.robot) = 1..Cardinality(VariableAt(l.robot))
    BY <1>1, ChainRead DEF VariableJoints
<1>3. PICK i \in 1..Cardinality(VariableAt(l.robot)) : j = VariableJoints(l.robot)[i]
    BY <1>2 DEF Range
<1> QED BY <1>3, PlaceIn

\* Without a misfit, the movable joints are those with a variable, and all are read.
LEMMA NoMisfit ==
  ASSUME NEW l \in Loads, Misfits(l.robot) = {}
  PROVE  MovableAt(l.robot) \cap ReadFully(l.robot) = VariableAt(l.robot)
<1> DEFINE r == l.robot
           M == MovableAt(r)
           V == VariableAt(r)
<1>1. ReadFully(r) = DOMAIN r.chain
    BY DEF ReadFully, LinksRead
<1>2. M \in SUBSET DOMAIN r.chain /\ V \in SUBSET M
    BY DEF MovableAt, VariableAt, HasVariable, Movable
<1>3. M \in SUBSET Nat /\ IsFiniteSet(M)
    BY <1>2, ChainRead
<1>4. M = V
  <2>1. CASE M = {}
      BY <1>2, <2>1
  <2>2. CASE M # {}
    <3> DEFINE k == Max(M)
    <3>1. k \in M /\ \A m \in M : m <= k
        BY <1>3, <2>2, MaxProperty
    <3>2. UpTo(M, k) = M
        BY <3>1 DEF UpTo
    <3>3. k \in DOMAIN r.chain /\ Movable(JointOf(r, k)) /\ ~Misfit(r, k)
        BY <3>1 DEF MovableAt, Misfits
    <3> HIDE DEF k
    <3>4. ~(Cardinality(M) > Cardinality(V))
        BY <3>2, <3>3 DEF Misfit
    <3>5. /\ Cardinality(V) <= Cardinality(M) /\ Cardinality(V) \in Nat /\ Cardinality(M) \in Nat
          /\ Cardinality(M) = Cardinality(V) => M = V
        BY <1>2, <1>3, FS_Subset, FS_CardinalityType
    <3> QED BY <3>4, <3>5
  <2> QED BY <2>1, <2>2
<1> QED BY <1>1, <1>2, <1>4

-----------------------------------------------------------------------------
(* Loading.                                                                *)

\* What a load that succeeds read and checked.
LEMMA LoadRead ==
  ASSUME NEW l \in Loads, Initialized(l.robot, l.params).active
  PROVE  LET r == l.robot
             p == Initialized(l.robot, l.params)
             names == VariableJoints(l.robot)
             n == Cardinality(VariableAt(l.robot))
         IN  /\ n \in Nat /\ DOMAIN names = 1..n /\ Len(names) = n
             /\ p.joint_names = names /\ p.num_joints = n
             /\ p.joint_min = [i \in 1..n |-> Fold(r, names, i).lb]
             /\ p.joint_max = [i \in 1..n |-> Fold(r, names, i).ub]
             /\ p.couplings = Couplings(r, names, n)
             /\ DOMAIN p.couplings = 1..n /\ Len(p.couplings) = n
             /\ ChainInGroup(r, names, n)
             /\ \A i \in 1..n : Fold(r, names, i).ok
             /\ Valid(p.couplings) /\ Tighten(p.couplings, p.joint_min, p.joint_max).ok
<1> DEFINE r == l.robot
           p == Initialized(r, l.params)
           names == VariableJoints(r)
           n == Cardinality(VariableAt(r))
           read == JointsAt(r, MovableAt(r) \cap ReadFully(r))
           lb(N) == [i \in 1..n |-> Fold(r, N, i).lb]
           ub(N) == [i \in 1..n |-> Fold(r, N, i).ub]
           d == Couplings(r, names, n)
<1>1. n \in Nat /\ DOMAIN names = 1..n /\ Len(names) = n
  <2>1. VariableAt(r) \in SUBSET DOMAIN r.chain
      BY DEF VariableAt
  <2> QED BY <2>1, ChainRead DEF VariableJoints
<1>2. r.tips = 1 /\ r.connected /\ Misfits(r) = {}
    BY DEF Initialized
<1>3. read = names
    BY <1>2, NoMisfit DEF VariableJoints
<1> HIDE DEF n, d
<1>4. /\ p.joint_names = read /\ p.num_joints = n
      /\ ChainInGroup(r, read, n) /\ \A i \in 1..n : Fold(r, read, i).ok
      /\ p.joint_min = lb(read) /\ p.joint_max = ub(read)
      /\ p.couplings = Couplings(r, read, n) /\ Builds(Couplings(r, read, n), lb(read), ub(read))
    BY <1>2 DEF Initialized, n
<1>5. /\ p.joint_names = names /\ p.num_joints = n
      /\ ChainInGroup(r, names, n) /\ \A i \in 1..n : Fold(r, names, i).ok
      /\ p.joint_min = lb(names) /\ p.joint_max = ub(names)
      /\ p.couplings = d /\ Builds(d, lb(names), ub(names))
    BY <1>3, <1>4, Zenon DEF d
<1>6. DOMAIN d = 1..n /\ Len(d) = n
  <2>1. d = [i \in 1..n |-> d[i]]
      BY DEF d, Couplings
  <2>2. d \in [1..n -> {d[i] : i \in 1..n}]
      BY <2>1
  <2> QED BY <1>1, <2>2, FunctionIsSequence
<1> HIDE DEF p, lb, ub, names, read
<1>7. Valid(p.couplings) /\ Tighten(p.couplings, p.joint_min, p.joint_max).ok
    BY <1>5 DEF Builds
<1> QED BY <1>1, <1>5, <1>6, <1>7 DEF n, p, names, lb, ub, d

\* A coupling without joints is the coupling of an uncoupled chain of none.
LEMMA NothingCoupled ==
  ASSUME NEW n \in Nat, NEW d, DOMAIN d = 1..n, d = <<>>
  PROVE  Uncoupled(n) = <<>>
<1>1. DOMAIN d = {}
    OBVIOUS
<1>2. n = 0
    BY <1>1
<1> QED BY <1>2 DEF Uncoupled

\* The checks of a load are those of the constructor of a solver.
LEMMA LoadedInitializes ==
  ASSUME NEW l \in Loads, Initialized(l.robot, l.params).active
  PROVE  LET p == Initialized(l.robot, l.params)
             g == Initialize(ChainOf(l.robot, p))
         IN  /\ g.initialized /\ g.couplings = p.couplings
             /\ g.own_lb = p.joint_min /\ g.own_ub = p.joint_max
             /\ g.lb = Tighten(p.couplings, p.joint_min, p.joint_max).lb
             /\ g.ub = Tighten(p.couplings, p.joint_min, p.joint_max).ub
             /\ Len(g.kinds) = p.num_joints
<1> DEFINE r == l.robot
           p == Initialized(r, l.params)
           n == p.num_joints
           d == p.couplings
           c == ChainOf(r, p)
<1>1. /\ n \in Nat /\ DOMAIN VariableJoints(r) = 1..n
      /\ DOMAIN d = 1..n /\ Len(d) = n
      /\ Valid(d) /\ Tighten(d, p.joint_min, p.joint_max).ok
    BY LoadRead
<1> HIDE DEF n, d, p
<1>2. /\ Len(c.kinds) = n
      /\ c.lb = p.joint_min /\ c.ub = p.joint_max /\ c.couplings = d
  <2>1. /\ c.kinds = [i \in 1..n |-> Kind(r.urdf[VariableJoints(r)[i]])]
        /\ c.lb = p.joint_min /\ c.ub = p.joint_max /\ c.couplings = d
      BY <1>1 DEF ChainOf, d
  <2>2. c.kinds \in [1..n -> {c.kinds[i] : i \in 1..n}]
      BY <2>1
  <2> QED BY <1>1, <2>1, <2>2, FunctionIsSequence
<1>3. (IF d = <<>> THEN Uncoupled(n) ELSE d) = d
  <2>1. CASE d = <<>>
      BY <1>1, <2>1, NothingCoupled
  <2> QED BY <2>1
<1> HIDE DEF c
<1>4. /\ Initialize(c).initialized /\ Initialize(c).couplings = d
      /\ Initialize(c).own_lb = p.joint_min /\ Initialize(c).own_ub = p.joint_max
      /\ Initialize(c).lb = Tighten(d, p.joint_min, p.joint_max).lb
      /\ Initialize(c).ub = Tighten(d, p.joint_min, p.joint_max).ub
      /\ Initialize(c).kinds = c.kinds
    BY <1>1, <1>2, <1>3 DEF Initialize
<1> QED BY <1>2, <1>4 DEF p, c, n, d

\* The same of the plugin at hand.
LEMMA Loaded ==
  ASSUME LoadInv, plugin.active
  PROVE  LET n == plugin.num_joints
             m == Initialize(ChainOf(robot, plugin))
         IN  /\ n \in Nat /\ Len(VariableJoints(robot)) = n
             /\ Valid(plugin.couplings) /\ DOMAIN plugin.couplings = 1..n
             /\ m.initialized /\ m.couplings = plugin.couplings
             /\ m.own_lb = plugin.joint_min /\ m.own_ub = plugin.joint_max
             /\ Len(m.kinds) = n
<1>1. plugin # Unloaded
    BY DEF Unloaded
<1>2. PICK l \in Loads : robot = l.robot /\ plugin = Initialized(l.robot, l.params)
    BY <1>1 DEF LoadInv
<1> QED BY <1>2, LoadRead, LoadedInitializes

-----------------------------------------------------------------------------
(* What a loaded plugin's numbers stand for.                               *)

\* The description of a chain has a coupling for every joint: an active joint's,
\* or one that follows the joint MoveIt says.
LEMMA CouplingsRead ==
  ASSUME NEW l \in Loads, NEW n, n = Cardinality(VariableAt(l.robot)),
         NEW names, names = VariableJoints(l.robot), ChainInGroup(l.robot, names, n),
         NEW i \in 1..n
  PROVE  LET f == l.robot.model[names[i]]
             d == Couplings(l.robot, names, n)
         IN  /\ names[i] \in DOMAIN l.robot.model
             /\ d[i] \in Coupling /\ d[i].variable_count = f.variables
             /\ f.mimics = NoJoint => d[i].mimicked = Own
             /\ f.mimics # NoJoint =>
                  /\ d[i].mimicked = IndexIn(names, f.mimics) /\ d[i].mimicked \in 1..n
                  /\ d[i].mimicked # Own /\ names[d[i].mimicked] = f.mimics
                  /\ d[i] = CouplingOf(f, d[i].mimicked)
<1> DEFINE f == l.robot.model[names[i]]
           d == Couplings(l.robot, names, n)
<1>1. names[i] \in DOMAIN l.robot.model /\ f.mimics \in {NoJoint} \cup Range(names)
    BY DEF ChainInGroup
<1>2. CouplingOf(f, Own) \in Coupling
    BY <1>1, RobotsAssumption
<1>3. f.multiplier \in Int /\ f.offset \in Int /\ f.finite \in BOOLEAN /\ f.variables \in Nat
    BY <1>2 DEF CouplingOf, Coupling
<1>4. d[i] = IF f.mimics = NoJoint THEN [ActiveJoint EXCEPT !.variable_count = f.variables]
                                   ELSE CouplingOf(f, IndexIn(names, f.mimics))
    BY DEF Couplings
<1>5. CASE f.mimics = NoJoint
  <2>1. d[i] = [mimicked |-> Own, multiplier |-> 1, offset |-> 0, finite |-> TRUE,
                variable_count |-> f.variables]
      BY <1>4, <1>5 DEF ActiveJoint
  <2>2. d[i] \in Coupling /\ d[i].variable_count = f.variables /\ d[i].mimicked = Own
      BY <1>3, <2>1 DEF Coupling, Own
  <2> QED BY <1>1, <1>5, <2>2
<1>6. CASE f.mimics # NoJoint
  <2>1. d[i] = CouplingOf(f, IndexIn(names, f.mimics))
      BY <1>4, <1>6
  <2>2. IndexIn(names, f.mimics) \in 1..n /\ names[IndexIn(names, f.mimics)] = f.mimics
      BY <1>1, <1>6, PlaceOf
  <2>3. n \in Nat
      BY LoadedSize
  <2> HIDE DEF f, d
  <2>4. d[i].mimicked = IndexIn(names, f.mimics) /\ d[i].variable_count = f.variables
      BY <2>1 DEF CouplingOf
  <2>5. d[i].mimicked # Own
      BY <2>2, <2>3, <2>4 DEF Own
  <2>6. d[i] \in Coupling
      BY <1>3, <2>1, <2>2, <2>3 DEF Coupling, CouplingOf
  <2>7. names[i] \in DOMAIN l.robot.model
      BY <1>1
  <2> QED BY <1>6, <2>1, <2>2, <2>4, <2>5, <2>6, <2>7 DEF f, d
<1> QED BY <1>5, <1>6

\* ... so it is a sequence of couplings.
LEMMA CouplingsTyped ==
  ASSUME NEW l \in Loads,
         ChainInGroup(l.robot, VariableJoints(l.robot), Cardinality(VariableAt(l.robot)))
  PROVE  LET n == Cardinality(VariableAt(l.robot))
             d == Couplings(l.robot, VariableJoints(l.robot), n)
         IN  d \in Seq(Coupling) /\ Len(d) = n /\ DOMAIN d = 1..n
<1> DEFINE n == Cardinality(VariableAt(l.robot))
           d == Couplings(l.robot, VariableJoints(l.robot), n)
<1>1. n \in Nat
    BY LoadedSize
<1>2. \A i \in 1..n : d[i] \in Coupling
    BY CouplingsRead
<1>3. d = [i \in 1..n |-> d[i]]
    BY DEF Couplings
<1> HIDE DEF d, n
<1>4. d \in [1..n -> Coupling]
    BY <1>2, <1>3
<1> QED BY <1>1, <1>4, FunctionIsSequence DEF d, n

\* The configuration MoveIt holds is the one the couplings rebuild: it computes
\* the mimic joints by name, they by number.
LEMMA HeldRebuilt ==
  ASSUME NEW l \in Loads, NEW n, n = Cardinality(VariableAt(l.robot)),
         ChainInGroup(l.robot, VariableJoints(l.robot), n),
         NEW d, d = Couplings(l.robot, VariableJoints(l.robot), n), Valid(d),
         NEW c, DOMAIN c = 1..n
  PROVE  /\ RebuildMimicEntries(d, c) = Held(l.robot, c)
         /\ Repair(d, c) = Held(l.robot, c)
         /\ \A i \in 1..n :
              Held(l.robot, c)[i] = IF IsMimic(d, i) THEN Couple(d[i], c[d[i].mimicked]) ELSE c[i]
<1> DEFINE names == VariableJoints(l.robot)
           entry(i) == IF IsMimic(d, i) THEN Couple(d[i], c[d[i].mimicked]) ELSE c[i]
<1>1. DOMAIN d = 1..n
    BY CouplingsTyped
<1>2. RebuildMimicEntries(d, c) = [i \in 1..n |-> entry(i)]
  <2>1. \A i \in 1..n : Reduce(d, c)[i] = c[i] \/ IsMimic(d, i)
      BY <1>1 DEF Reduce, Active
  <2>2. \A i \in 1..n : IsMimic(d, i) => d[i].mimicked \in Active(d)
      BY <1>1 DEF Valid, Active
  <2>3. \A i \in 1..n : IsMimic(d, i) => Reduce(d, c)[d[i].mimicked] = c[d[i].mimicked]
      BY <2>2 DEF Reduce
  <2> QED BY <1>1, <2>1, <2>3 DEF RebuildMimicEntries, Expand
<1>3. ASSUME NEW i \in 1..n
      PROVE  HeldAt(l.robot, c, names[i]) = entry(i)
  <2> DEFINE f == l.robot.model[names[i]]
  <2>1. CASE f.mimics = NoJoint
    <3>1. ~IsMimic(d, i)
        BY <2>1, CouplingsRead DEF IsMimic
    <3>2. IndexIn(names, names[i]) = i
        BY PlaceIn
    <3> QED BY <2>1, <3>1, <3>2 DEF HeldAt
  <2>2. CASE f.mimics # NoJoint
    <3>1. /\ IsMimic(d, i) /\ d[i].mimicked = IndexIn(names, f.mimics)
          /\ d[i] = CouplingOf(f, d[i].mimicked)
        BY <2>2, CouplingsRead DEF IsMimic
    <3>2. d[i].multiplier = f.multiplier /\ d[i].offset = f.offset
        BY <3>1 DEF CouplingOf
    <3> QED BY <2>2, <3>1, <3>2 DEF HeldAt, Couple
  <2> QED BY <2>1, <2>2
<1>4. Held(l.robot, c) = [i \in 1..n |-> entry(i)]
    BY <1>3 DEF Held
<1>5. Repair(d, c) = [i \in 1..n |-> entry(i)]
    BY DEF Repair
<1> QED BY <1>2, <1>4, <1>5

-----------------------------------------------------------------------------
(* Configurations.                                                         *)

\* Rebuilding the mimic entries reads none of them.
LEMMA RebuildTwice ==
  ASSUME NEW d, Valid(d), NEW x
  PROVE  RebuildMimicEntries(d, RebuildMimicEntries(d, x)) = RebuildMimicEntries(d, x)
BY ExpandTwice DEF RebuildMimicEntries

\* Whatever a solver may collect in a search reaches the pose.
LEMMA CollectedReaches ==
  ASSUME Inv, at = "solving", NEW c, IsAnswer(mech, query, c)
  PROVE  Reaches(c)
<1>1. /\ mech.couplings = plugin.couplings /\ Valid(plugin.couplings)
    BY Loaded DEF Inv, SearchInv
<1>2. PICK t : query = QueryOf(plugin, request, start, t)
    BY DEF Inv, AttemptInv
<1>3. /\ query.goal = IF plugin.params.position_only THEN Loosened(request.pose) ELSE request.pose
      /\ query.epsilon = plugin.params.epsilon
    BY <1>2 DEF QueryOf
<1> QED BY <1>1, <1>3 DEF IsAnswer, Reaches

\* A solver takes each question the search puts to it.
LEMMA Asked ==
  ASSUME Inv, at = "asking", NEW t
  PROVE  WellFormed(mech, QueryOf(plugin, request, start, t))
<1> DEFINE q == QueryOf(plugin, request, start, t)
<1>1. /\ plugin.active /\ mech = Initialize(ChainOf(robot, plugin))
      /\ Len(start) = plugin.num_joints
    BY DEF Inv, SearchInv
<1>2. mech.initialized /\ Len(mech.kinds) = plugin.num_joints
    BY <1>1, Loaded DEF Inv
<1>3. q.seed = start /\ ~PerCallBounds(q)
    BY DEF QueryOf, PerCallBounds
<1> HIDE DEF q
<1> QED BY <1>1, <1>2, <1>3 DEF WellFormed, Resolve, q

-----------------------------------------------------------------------------
(* The invariant.                                                          *)

\* Nothing is loaded and nothing asked.
LEMMA InvInit == ASSUME Init PROVE Inv
BY FS_EmptySet DEF Init, Inv, LoadInv, SearchInv, AttemptInv, TimeInv, SolutionInv,
                   Unloaded

\* A load that succeeds leaves what a constructor wants.
LEMMA LoadStep ==
  ASSUME Inv, NEW l \in Loads, Load(l.robot, l.params)
  PROVE  Inv'
<1>1. at = "idle"
    BY DEF Load, Inv, SearchInv, Unloaded
<1>2. solution = <<>> /\ UNCHANGED solution
    BY DEF Load, Inv, LoadInv, callVars
<1>3. LoadInv' /\ SolutionInv'
    BY <1>2 DEF Load, LoadInv, SolutionInv
<1> QED BY <1>1, <1>3 DEF Load, Inv, SearchInv, AttemptInv, TimeInv,
                          callVars, timeVars, solverVars

\* A search begins with the mechanism of its plugin and all of its time.
LEMMA SearchStep ==
  ASSUME Inv, NEW q \in Requests, Search(q) \/ RefuseSearch(q)
  PROVE  Inv'
<1>1. CASE Search(q)
  <2>1. LoadInv' /\ SolutionInv'
      BY <1>1 DEF Search, loadVars, Inv, LoadInv, SolutionInv
  <2>2. SearchInv' /\ AttemptInv'
      BY <1>1, FS_EmptySet DEF Search, loadVars, SearchInv, AttemptInv, Ready
  <2>3. TimeInv'
      BY <1>1, RequestsAssumption DEF Search, TimeInv
  <2> QED BY <2>1, <2>2, <2>3 DEF Inv
<1>2. CASE RefuseSearch(q)
  <2>1. LoadInv' /\ SolutionInv'
      BY <1>2 DEF RefuseSearch, loadVars, Inv, LoadInv, SolutionInv
  <2>2. SearchInv' /\ AttemptInv'
      BY <1>2 DEF RefuseSearch, solverVars, Inv, SearchInv, AttemptInv
  <2>3. TimeInv'
      BY <1>2 DEF RefuseSearch, timeVars, Inv, TimeInv
  <2> QED BY <2>1, <2>2, <2>3 DEF Inv
<1> QED BY <1>1, <1>2

\* The loop condition changes nothing but where the search is.
LEMMA TestTimeStep == ASSUME Inv, TestTime PROVE Inv'
BY DEF TestTime, Inv, LoadInv, SearchInv, AttemptInv, TimeInv, SolutionInv, Reaches,
       loadVars, timeVars, solverVars

\* An attempt is taken by the solver, with what time is left.
LEMMA AttemptStep == ASSUME Inv, Attempt PROVE Inv'
<1> DEFINE q == QueryOf(plugin, request, start, left)
<1>1. Solver!Ask(q) /\ at' = "solving"
    BY Asked DEF Attempt, Solver!Refuse
<1> HIDE DEF q
<1>2. query' = q /\ searching' /\ cands' = {} /\ UNCHANGED mech
    BY <1>1 DEF Solver!Ask
<1>3. UNCHANGED <<robot, plugin, request, start, solution, error_code, returned, left>>
      /\ budget' = left /\ at = "asking"
    BY DEF Attempt, loadVars, callVars
<1>4. LoadInv' /\ SolutionInv'
    BY <1>3 DEF Inv, LoadInv, SolutionInv
<1>5. SearchInv'
    BY <1>1, <1>2, <1>3 DEF Inv, SearchInv
<1>6. AttemptInv'
    BY <1>1, <1>2, <1>3, FS_EmptySet DEF AttemptInv, q
<1>7. TimeInv'
    BY <1>1, <1>3 DEF Inv, TimeInv
<1> QED BY <1>4, <1>5, <1>6, <1>7 DEF Inv

\* Only what reaches the pose is collected.
LEMMA CollectStep == ASSUME Inv, Collect PROVE Inv'
<1>1. PICK c : Solver!Collect(c)
    BY DEF Collect
<1>2. /\ at = "solving" /\ IsAnswer(mech, query, c)
      /\ cands' = cands \cup {c}
      /\ UNCHANGED <<robot, plugin, request, start, solution, error_code, returned, at, left,
                     budget, mech, query, searching>>
    BY <1>1 DEF Collect, Solver!Collect, loadVars, callVars, timeVars
<1>3. Reaches(c)
    BY <1>2, CollectedReaches
<1>4. IsFiniteSet(cands')
    BY <1>2, FS_AddElement DEF Inv, AttemptInv
<1> QED BY <1>2, <1>3, <1>4 DEF Inv, LoadInv, SearchInv, AttemptInv, TimeInv, SolutionInv, Reaches

\* The end of an attempt's time touches no candidate.
LEMMA ExpireStep == ASSUME Inv, Expire PROVE Inv'
BY DEF Expire, Solver!Expire, Inv, LoadInv, SearchInv, AttemptInv, TimeInv, SolutionInv, Reaches,
       loadVars, callVars, timeVars

\* The instance of IkQuery counts as we do.
LEMMA SameCardinality == ASSUME NEW S PROVE Solver!Cardinality(S) = Cardinality(S)
BY DEF Solver!Cardinality, Cardinality

\* An answer is a candidate, or the code of there being none.
LEMMA AnsweredStep == ASSUME Inv, Answered PROVE Inv'
<1>1. /\ at = "solving" /\ at' = "taking"
      /\ UNCHANGED <<robot, plugin, request, start, solution, error_code, returned, left,
                     budget, mech, query>>
      /\ ~searching' /\ cands' = {}
    BY DEF Answered, Solver!Answer, loadVars, callVars, timeVars
<1>2. answer'.rc # -1 /\ (answer'.rc >= 0 => Reaches(answer.q_out)')
  <2>1. CASE answer' = [rc |-> -3, q_out |-> query.seed]
      BY <2>1
  <2>2. Solver!Cardinality(cands) \in Nat
      BY SameCardinality, FS_CardinalityType DEF Inv, AttemptInv
  <2>3. ASSUME NEW c \in cands, answer' = [rc |-> Solver!Cardinality(cands), q_out |-> c]
        PROVE  answer'.rc # -1 /\ Reaches(answer.q_out)'
      BY <1>1, <2>2, <2>3 DEF Inv, AttemptInv, Reaches
  <2> QED BY <2>1, <2>3 DEF Answered, Solver!Answer
<1> QED BY <1>1, <1>2, FS_EmptySet DEF Inv, LoadInv, SearchInv, AttemptInv, TimeInv, SolutionInv, Reaches

\* A configuration that reaches a pose has an entry for every joint.
LEMMA ReachesSized ==
  ASSUME LoadInv, plugin.active, NEW c, Reaches(c)
  PROVE  Len(c) = plugin.num_joints
<1> DEFINE n == plugin.num_joints
<1>1. n \in Nat /\ DOMAIN plugin.couplings = 1..n
    BY Loaded
<1> HIDE DEF n
<1>2. c = [i \in 1..n |-> c[i]]
    BY <1>1 DEF Reaches, RebuildMimicEntries, Expand
<1>3. c \in [1..n -> {c[i] : i \in 1..n}]
    BY <1>2
<1> QED BY <1>1, <1>3, FunctionIsSequence DEF n

\* A solution taken is judged with what is known of the answer.
LEMMA TakeStep == ASSUME Inv, Take PROVE Inv'
<1>1. /\ at = "taking" /\ plugin.active /\ plugin # Unloaded
      /\ UNCHANGED <<robot, plugin, request, start, error_code, left, budget,
                     mech, query, searching, expired, cands, answer>>
    BY DEF Take, Inv, SearchInv, Unloaded, loadVars, timeVars, solverVars
<1>2. LoadInv'
    BY <1>1 DEF Inv, LoadInv
<1>3. SolutionInv'
  <2>1. CASE answer.rc >= 0
    <3>1. Len(answer.q_out) = plugin.num_joints
        BY <1>1, <2>1, ReachesSized DEF Inv, AttemptInv
    <3> QED BY <1>1, <2>1, <3>1 DEF Take, SolutionInv
  <2>2. CASE ~(answer.rc >= 0)
    <3> DEFINE n == plugin.num_joints
               s == Resized(solution, n)
    <3>1. n \in Nat
        BY <1>1, Loaded DEF Inv
    <3>2. s = [i \in 1..n |-> s[i]]
        BY DEF Resized
    <3>3. s \in [1..n -> {s[i] : i \in 1..n}]
        BY <3>2
    <3>4. Len(s) = n
        BY <3>1, <3>3, FunctionIsSequence
    <3> HIDE DEF s, n
    <3>5. solution' = s
        BY <2>2 DEF Take, s, n
    <3> QED BY <1>1, <3>4, <3>5 DEF SolutionInv, n
  <2> QED BY <2>1, <2>2
<1>4. SearchInv' /\ AttemptInv' /\ TimeInv'
    BY <1>1 DEF Take, Inv, SearchInv, AttemptInv, TimeInv, Reaches
<1> QED BY <1>2, <1>3, <1>4 DEF Inv

\* A rejected solution is followed by a seed of the same size.
LEMMA JudgeStep == ASSUME Inv, Judge PROVE Inv'
BY DEF Judge, Verdict, RandomSeeds, Inv, LoadInv, SearchInv, AttemptInv, TimeInv, SolutionInv, Reaches,
       loadVars, timeVars, solverVars

\* The attempt's time runs out no later than the search's.
LEMMA TickStep == ASSUME Inv, Tick PROVE Inv'
BY DEF Tick, Spent, Inv, LoadInv, SearchInv, AttemptInv, TimeInv, SolutionInv, Reaches,
       loadVars, callVars, solverVars

\* All steps together.
LEMMA InvStep == ASSUME Inv, [Next]_vars PROVE Inv'
<1>1. CASE UNCHANGED vars
    BY <1>1 DEF vars, loadVars, callVars, timeVars, solverVars,
                Inv, LoadInv, SearchInv, AttemptInv, TimeInv, SolutionInv, Reaches
<1> QED BY <1>1, LoadStep, SearchStep, TestTimeStep, AttemptStep, CollectStep, ExpireStep,
           AnsweredStep, TakeStep, JudgeStep, TickStep DEF Next, Step

\* The invariant holds throughout.
LEMMA InvInvariant == Spec => []Inv
<1>1. Init => Inv
    BY InvInit
<1>2. Inv /\ [Next]_vars => Inv'
    BY InvStep
<1> QED BY <1>1, <1>2, PTL DEF Spec

-----------------------------------------------------------------------------
(* Bounds.                                                                 *)

\* The limits a description gives a joint of the chain are the interval read.
LEMMA OwnLimits ==
  ASSUME NEW l \in Loads, NEW i \in 1..Cardinality(VariableAt(l.robot))
  PROVE  LET j == VariableJoints(l.robot)[i]
             u == l.robot.urdf[j]
         IN  /\ j # NoJoint
             /\ \E k \in VariableAt(l.robot) : l.robot.chain[k].joint = j
             /\ OwnLower(u) \in Int /\ OwnUpper(u) \in Int
             /\ \A x \in Position : InUrdfLimits(u, x) <=> Inside(x, OwnLower(u), OwnUpper(u))
<1> DEFINE r == l.robot
           j == VariableJoints(r)[i]
           u == r.urdf[j]
<1>1. PICK k \in VariableAt(r) : j = r.chain[k].joint
  <2>1. VariableAt(r) \in SUBSET DOMAIN r.chain
      BY DEF VariableAt
  <2> QED BY <2>1, ChainRead DEF VariableJoints
<1>2. k \in DOMAIN r.chain /\ j # NoJoint
    BY <1>1, LoadsAssumption DEF VariableAt
<1>3. /\ u.lower \in Position /\ u.upper \in Position
      /\ u.soft => u.soft_lower \in Position /\ u.soft_upper \in Position
    BY <1>1, RobotsAssumption DEF JointOf
<1> HIDE DEF u
<1>4. CASE u.type = "continuous"
  <2>1. OwnLower(u) = -Sentinel /\ OwnUpper(u) = Sentinel
      BY <1>4 DEF OwnLower, OwnUpper
  <2> QED BY <1>1, <1>2, <1>4, <2>1, BoundAssumption DEF InUrdfLimits, Inside, Position, u
<1>5. CASE u.type # "continuous" /\ ~u.soft
  <2>1. OwnLower(u) = u.lower /\ OwnUpper(u) = u.upper
      BY <1>5 DEF OwnLower, OwnUpper
  <2> QED BY <1>1, <1>2, <1>3, <1>5, <2>1 DEF InUrdfLimits, Inside, Position, u
<1>6. CASE u.type # "continuous" /\ u.soft
  <2> DEFINE lo == {u.lower, u.soft_lower}
             hi == {u.upper, u.soft_upper}
  <2>1. OwnLower(u) = Max(lo) /\ OwnUpper(u) = Min(hi)
      BY <1>6 DEF OwnLower, OwnUpper
  <2>2. /\ lo \in SUBSET Int /\ IsFiniteSet(lo) /\ lo # {}
        /\ hi \in SUBSET Int /\ IsFiniteSet(hi) /\ hi # {}
      BY <1>3, <1>6, PairFinite DEF Position
  <2>3. /\ Max(lo) \in lo /\ \A y \in lo : Max(lo) >= y
        /\ Min(hi) \in hi /\ \A y \in hi : Min(hi) <= y
      BY <2>2, MaxProperty, MinProperty
  <2>4. Max(lo) \in Int /\ Min(hi) \in Int
      BY <2>2, <2>3
  <2>5. \A x \in Int : /\ Max(lo) <= x <=> u.lower <= x /\ u.soft_lower <= x
                       /\ x <= Min(hi) <=> x <= u.upper /\ x <= u.soft_upper
    <3> DEFINE a == Max(lo)
               b == Min(hi)
    <3>1. /\ a \in {u.lower, u.soft_lower} /\ a >= u.lower /\ a >= u.soft_lower
          /\ b \in {u.upper, u.soft_upper} /\ b <= u.upper /\ b <= u.soft_upper
        BY <2>3
    <3>2. /\ u.lower \in Int /\ u.soft_lower \in Int /\ u.upper \in Int /\ u.soft_upper \in Int
        BY <2>2
    <3> HIDE DEF a, b
    <3>3. \A x \in Int : /\ a <= x <=> u.lower <= x /\ u.soft_lower <= x
                         /\ x <= b <=> x <= u.upper /\ x <= u.soft_upper
        BY <3>1, <3>2
    <3> QED BY <3>3 DEF a, b
  <2> HIDE DEF lo, hi
  <2>6. \A x \in Position : InUrdfLimits(u, x) <=> Inside(x, OwnLower(u), OwnUpper(u))
      BY <1>6, <2>1, <2>5 DEF InUrdfLimits, Inside, Position
  <2> QED BY <1>1, <1>2, <2>1, <2>4, <2>6 DEF u
<1> QED BY <1>4, <1>5, <1>6

\* Joints outside the chain that follow one in it are finitely many, and joints
\* of the model.
LEMMA OutsideRead ==
  ASSUME NEW l \in Loads, NEW i \in 1..Cardinality(VariableAt(l.robot)),
         NEW all, all = MimicsOutside(l.robot, VariableJoints(l.robot), i)
  PROVE  /\ IsFiniteSet(all)
         /\ \A j \in all : LET f == l.robot.model[j] IN
              /\ j \in l.robot.group /\ j \in DOMAIN l.robot.model
              /\ f.mimics = VariableJoints(l.robot)[i] /\ f.mimics # NoJoint
              /\ CouplingOf(f, Own) \in Coupling
              /\ (IF f.bounded THEN f.min ELSE -Infinity) \in Bound
              /\ (IF f.bounded THEN f.max ELSE Infinity) \in Bound
<1>1. l.robot.group \subseteq DOMAIN l.robot.model /\ IsFiniteSet(DOMAIN l.robot.model)
    BY RobotsAssumption
<1>2. all \in SUBSET DOMAIN l.robot.model
    BY <1>1 DEF MimicsOutside
<1>3. IsFiniteSet(all)
    BY <1>1, <1>2, FS_Subset
<1>4. ASSUME NEW j \in all
      PROVE  LET f == l.robot.model[j] IN
              /\ j \in l.robot.group /\ j \in DOMAIN l.robot.model
              /\ f.mimics = VariableJoints(l.robot)[i] /\ f.mimics # NoJoint
              /\ CouplingOf(f, Own) \in Coupling
              /\ (IF f.bounded THEN f.min ELSE -Infinity) \in Bound
              /\ (IF f.bounded THEN f.max ELSE Infinity) \in Bound
  <2> DEFINE f == l.robot.model[j]
  <2>1. j \in l.robot.group /\ j \in DOMAIN l.robot.model /\ f.mimics = VariableJoints(l.robot)[i]
      BY <1>1 DEF MimicsOutside
  <2>2. /\ CouplingOf(f, Own) \in Coupling
        /\ f.bounded => f.min \in Position /\ f.max \in Position
      BY <2>1, RobotsAssumption
  <2>3. VariableJoints(l.robot)[i] # NoJoint
      BY OwnLimits
  <2> HIDE DEF f
  <2>4. /\ (IF f.bounded THEN f.min ELSE -Infinity) \in Bound
        /\ (IF f.bounded THEN f.max ELSE Infinity) \in Bound
      BY <2>2 DEF Bound
  <2> QED BY <2>1, <2>2, <2>3, <2>4 DEF f
<1> QED BY <1>3, <1>4

\* The ends of what is left by every joint outside the chain are integers.
LEMMA FoldEnds ==
  ASSUME NEW l \in Loads, NEW i \in 1..Cardinality(VariableAt(l.robot)),
         NEW names, names = VariableJoints(l.robot),
         NEW all, all = MimicsOutside(l.robot, names, i),
         NEW u, u = l.robot.urdf[names[i]], NEW F, F = Fold(l.robot, names, i),
         NEW x \in Int
  PROVE  /\ F.lb \in Int /\ F.ub \in Int
         /\ \A j \in all : /\ Through(l.robot, j, OwnLower(u), OwnUpper(u)).lb \in Int
                           /\ Through(l.robot, j, OwnLower(u), OwnUpper(u)).ub \in Int
         /\ F.lb <= x <=> OwnLower(u) <= x /\ \A j \in all :
                             Through(l.robot, j, OwnLower(u), OwnUpper(u)).lb <= x
         /\ x <= F.ub <=> x <= OwnUpper(u) /\ \A j \in all :
                             x <= Through(l.robot, j, OwnLower(u), OwnUpper(u)).ub
         /\ F.ok <=> /\ \A j \in all : l.robot.model[j].variables = 1
                     /\ \A j \in all : Through(l.robot, j, OwnLower(u), OwnUpper(u)).ok
                     /\ (\E j \in all : ~Pins(l.robot.model[j])) => F.lb <= F.ub
<1> DEFINE step(j) == Through(l.robot, j, OwnLower(u), OwnUpper(u))
           steps == {step(j) : j \in all}
           los == {s.lb : s \in steps}
           his == {s.ub : s \in steps}
           lo == {OwnLower(u)} \cup los
           hi == {OwnUpper(u)} \cup his
<1>1. OwnLower(u) \in Int /\ OwnUpper(u) \in Int
    BY OwnLimits
<1>2. ASSUME NEW j \in all PROVE step(j).lb \in Int /\ step(j).ub \in Int
  <2>1. \A e \in Bound : e \in Int
      BY BoundAssumption DEF Bound, Position
  <2> QED BY <1>1, <2>1, OutsideRead, ThroughTyped DEF Through
<1>3. F.lb = Max(lo) /\ F.ub = Min(hi)
      /\ (F.ok <=> /\ \A j \in all : l.robot.model[j].variables = 1
                   /\ \A s \in steps : s.ok
                   /\ (\E j \in all : ~Pins(l.robot.model[j])) => Max(lo) <= Min(hi))
    BY DEF Fold
<1> HIDE DEF step
<1>4. IsFiniteSet(all)
    BY OutsideRead
<1>5. /\ los \in SUBSET Int /\ IsFiniteSet(los)
      /\ his \in SUBSET Int /\ IsFiniteSet(his)
  <2>1. los \in SUBSET Int /\ his \in SUBSET Int
      BY <1>2
  <2>2. [j \in all |-> step(j).lb] \in Surjection(all, los)
      BY DEF Surjection
  <2>3. [j \in all |-> step(j).ub] \in Surjection(all, his)
      BY DEF Surjection
  <2> HIDE DEF los, his
  <2> QED BY <1>4, <2>1, <2>2, <2>3, FS_Surjection
<1>6. /\ lo \in SUBSET Int /\ IsFiniteSet(lo) /\ lo # {}
      /\ hi \in SUBSET Int /\ IsFiniteSet(hi) /\ hi # {}
  <2> HIDE DEF los, his
  <2> QED BY <1>1, <1>5, FS_Singleton, FS_Union
<1>7. /\ Max(lo) \in lo /\ \A y \in lo : Max(lo) >= y
      /\ Min(hi) \in hi /\ \A y \in hi : Min(hi) <= y
  <2> HIDE DEF lo, hi
  <2> QED BY <1>6, MaxProperty, MinProperty
<1>8. F.lb \in Int /\ F.ub \in Int
    BY <1>3, <1>6, <1>7
<1>9. /\ F.lb <= x <=> \A y \in lo : y <= x
      /\ x <= F.ub <=> \A y \in hi : x <= y
  <2> HIDE DEF lo, hi
  <2>1. /\ F.lb \in lo /\ \A y \in lo : y \in Int /\ F.lb >= y
        /\ F.ub \in hi /\ \A y \in hi : y \in Int /\ F.ub <= y
      BY <1>3, <1>6, <1>7
  <2> QED BY <1>8, <2>1
<1>10. /\ (\A y \in lo : y <= x) <=> OwnLower(u) <= x /\ \A j \in all : step(j).lb <= x
       /\ (\A y \in hi : x <= y) <=> x <= OwnUpper(u) /\ \A j \in all : x <= step(j).ub
    OBVIOUS
<1>11. (\A s \in steps : s.ok) <=> \A j \in all : step(j).ok
    OBVIOUS
<1> HIDE DEF lo, hi, steps
<1>12. /\ F.lb <= x <=> OwnLower(u) <= x /\ \A j \in all : step(j).lb <= x
       /\ x <= F.ub <=> x <= OwnUpper(u) /\ \A j \in all : x <= step(j).ub
    BY <1>9, <1>10
<1> QED BY <1>2, <1>3, <1>8, <1>11, <1>12 DEF step

\* One joint outside the chain leaves exactly the positions that put it inside
\* its bounds.
LEMMA OutsideExact ==
  ASSUME LimitsInTicks, NEW l \in Loads, NEW i \in 1..Cardinality(VariableAt(l.robot)),
         NEW j \in MimicsOutside(l.robot, VariableJoints(l.robot), i),
         NEW lb \in Int, NEW ub \in Int, NEW x \in Position,
         Couple(l.robot.model[j], x) \in Position, l.robot.model[j].finite
  PROVE  LET t == Through(l.robot, j, lb, ub)
             kept == Inside(x, lb, ub)
                     /\ InModelBounds(l.robot.model[j], Couple(l.robot.model[j], x))
         IN  /\ t.ok => (Inside(x, lb, ub) /\ Inside(x, t.lb, t.ub) <=> kept)
             /\ kept => t.ok
<1> DEFINE f == l.robot.model[j]
           c == CouplingOf(f, Own)
           mlb == IF f.bounded THEN f.min ELSE -Infinity
           mub == IF f.bounded THEN f.max ELSE Infinity
           t == Through(l.robot, j, lb, ub)
           kept == Inside(x, lb, ub) /\ InModelBounds(f, Couple(f, x))
<1>1. /\ j \in l.robot.group /\ f.mimics # NoJoint /\ c \in Coupling
      /\ mlb \in Bound /\ mub \in Bound
    BY OutsideRead
<1>2. c.multiplier = f.multiplier /\ c.offset = f.offset /\ c.finite
    BY DEF CouplingOf
<1>3. AsBound(mlb) = mlb /\ AsBound(mub) = mub /\ mlb \in Int /\ mub \in Int
  <2>1. \A e \in Bound : AsBound(e) = e /\ e \in Int
      BY BoundAssumption DEF Bound, Position, AsBound
  <2> QED BY <1>1, <2>1
<1>4. ~Pins(c) => mlb <= mub /\ Exact(c, mlb) /\ Exact(c, mub)
  <2>1. CASE f.bounded
    <3>1. InTicks(c, f.min, f.max)
        BY <1>1, <2>1 DEF LimitsInTicks
    <3> QED BY <2>1, <3>1 DEF InTicks
  <2>2. CASE ~f.bounded
    <3>1. mlb = -Infinity /\ mub = Infinity
        BY <2>2
    <3> QED BY <3>1, BoundAssumption DEF Exact, Infinite
  <2> QED BY <2>1, <2>2
<1>5. Couple(c, x) = Couple(f, x)
    BY <1>2 DEF Couple
<1>6. Inside(Couple(c, x), mlb, mub) <=> InModelBounds(f, Couple(f, x))
  <2>1. CASE f.bounded
      BY <1>5, <2>1 DEF Inside, InModelBounds
  <2>2. CASE ~f.bounded
    <3>1. mlb = -Infinity /\ mub = Infinity
        BY <2>2
    <3> QED BY <1>5, <2>2, <3>1, BoundAssumption DEF Inside, InModelBounds, Position
  <2> QED BY <2>1, <2>2
<1>7. t = TightenThroughCoupling(c, mlb, mub, lb, ub)
    BY DEF Through
<1> HIDE DEF c, mlb, mub, t, f
<1>8. /\ t.ok => (Inside(x, lb, ub) /\ Inside(x, t.lb, t.ub)
                  <=> Inside(x, lb, ub) /\ Inside(Couple(c, x), AsBound(mlb), AsBound(mub)))
      /\ Inside(x, lb, ub) /\ Inside(Couple(c, x), AsBound(mlb), AsBound(mub)) => t.ok
    BY <1>1, <1>2, <1>3, <1>4, <1>5, <1>7, ThroughExact DEF f
<1>9. /\ t.ok => (Inside(x, lb, ub) /\ Inside(x, t.lb, t.ub) <=> kept)
      /\ kept => t.ok
    BY <1>3, <1>6, <1>8
<1> QED BY <1>9 DEF t, f

\* A joint of the chain with the joints outside it that follow it: what is left
\* of its limits is where all of them are inside theirs, and it is refused only
\* if nothing is.
LEMMA FoldExact ==
  ASSUME LimitsInTicks, NEW l \in Loads, NEW i \in 1..Cardinality(VariableAt(l.robot)),
         NEW names, names = VariableJoints(l.robot),
         NEW all, all = MimicsOutside(l.robot, names, i), NEW x \in Position,
         \A j \in all : Couple(l.robot.model[j], x) \in Position,
         NEW F, F = Fold(l.robot, names, i)
  PROVE  LET kept == /\ InUrdfLimits(l.robot.urdf[names[i]], x)
                     /\ \A j \in all : InModelBounds(l.robot.model[j], Couple(l.robot.model[j], x))
         IN  /\ F.ok => (Inside(x, F.lb, F.ub) <=> kept)
             /\ (kept /\ \A j \in all : l.robot.model[j].variables = 1 /\ l.robot.model[j].finite)
                => F.ok /\ Inside(x, F.lb, F.ub)
<1> DEFINE u == l.robot.urdf[names[i]]
           lo == OwnLower(u)
           hi == OwnUpper(u)
           t(j) == Through(l.robot, j, lo, hi)
           f(j) == l.robot.model[j]
           holds(j) == InModelBounds(f(j), Couple(f(j), x))
           kept == InUrdfLimits(u, x) /\ \A j \in all : holds(j)
<1>1. lo \in Int /\ hi \in Int /\ (InUrdfLimits(u, x) <=> Inside(x, lo, hi))
    BY OwnLimits
<1>2. /\ F.lb \in Int /\ F.ub \in Int
      /\ F.lb <= x <=> lo <= x /\ \A j \in all : t(j).lb <= x
      /\ x <= F.ub <=> x <= hi /\ \A j \in all : x <= t(j).ub
      /\ F.ok <=> /\ \A j \in all : f(j).variables = 1
                  /\ \A j \in all : t(j).ok
                  /\ (\E j \in all : ~Pins(f(j))) => F.lb <= F.ub
  <2>1. x \in Int
      BY DEF Position
  <2>2. F.lb \in Int /\ F.ub \in Int
      BY <2>1, FoldEnds
  <2>3. /\ F.lb <= x <=> lo <= x /\ \A j \in all : t(j).lb <= x
        /\ x <= F.ub <=> x <= hi /\ \A j \in all : x <= t(j).ub
    <3>1. u = l.robot.urdf[names[i]]
        OBVIOUS
    <3> HIDE DEF u
    <3> QED BY <2>1, <3>1, FoldEnds
  <2>4. F.ok <=> /\ \A j \in all : f(j).variables = 1
                 /\ \A j \in all : t(j).ok
                 /\ (\E j \in all : ~Pins(f(j))) => F.lb <= F.ub
    <3>1. u = l.robot.urdf[names[i]]
        OBVIOUS
    <3> HIDE DEF u
    <3> QED BY <2>1, <3>1, FoldEnds
  <2> HIDE DEF t, lo, hi
  <2> QED BY <2>1, <2>2, <2>3, <2>4
<1>3. ASSUME NEW j \in all, f(j).finite
      PROVE  /\ t(j).ok => (Inside(x, lo, hi) /\ Inside(x, t(j).lb, t(j).ub)
                            <=> Inside(x, lo, hi) /\ holds(j))
             /\ Inside(x, lo, hi) /\ holds(j) => t(j).ok
    BY <1>1, <1>3, OutsideExact
<1>4. ASSUME NEW j \in all, t(j).ok PROVE f(j).finite
    BY <1>4 DEF Through, TightenThroughCoupling, CouplingOf
<1>5. x \in Int
    BY DEF Position
<1> HIDE DEF t, f, lo, hi, u, holds
<1>6. Inside(x, F.lb, F.ub) <=> Inside(x, lo, hi) /\ \A j \in all : Inside(x, t(j).lb, t(j).ub)
    BY <1>2 DEF Inside
<1>7. F.ok => (Inside(x, F.lb, F.ub) <=> kept)
    BY <1>1, <1>2, <1>3, <1>4, <1>6
<1>8. ASSUME kept, \A j \in all : f(j).variables = 1 /\ f(j).finite
      PROVE  F.ok /\ Inside(x, F.lb, F.ub)
  <2>1. Inside(x, lo, hi)
      BY <1>1, <1>8
  <2>2. \A j \in all : t(j).ok /\ Inside(x, t(j).lb, t(j).ub)
      BY <1>3, <1>8, <2>1
  <2>3. Inside(x, F.lb, F.ub)
      BY <1>6, <2>1, <2>2
  <2>4. F.lb <= F.ub
      BY <1>2, <1>5, <2>3 DEF Inside
  <2> QED BY <1>2, <1>8, <2>2, <2>3, <2>4
<1>9. (kept /\ \A j \in all : f(j).variables = 1 /\ f(j).finite)
      => F.ok /\ Inside(x, F.lb, F.ub)
    BY <1>8
<1> QED BY <1>7, <1>9 DEF f, holds, u

\* The bounds of the joints of the chain, folded.
Folded(r, names, n) == <<[i \in 1..n |-> Fold(r, names, i).lb], [i \in 1..n |-> Fold(r, names, i).ub]>>

\* They are integers, one pair per joint.
LEMMA FoldedTyped ==
  ASSUME NEW l \in Loads, NEW n, n = Cardinality(VariableAt(l.robot)),
         NEW lb, lb = Folded(l.robot, VariableJoints(l.robot), n)[1],
         NEW ub, ub = Folded(l.robot, VariableJoints(l.robot), n)[2]
  PROVE  /\ n \in Nat
         /\ lb \in Seq(Int) /\ Len(lb) = n /\ DOMAIN lb = 1..n
         /\ ub \in Seq(Int) /\ Len(ub) = n /\ DOMAIN ub = 1..n
         /\ \A i \in 1..n : /\ lb[i] = Fold(l.robot, VariableJoints(l.robot), i).lb
                            /\ ub[i] = Fold(l.robot, VariableJoints(l.robot), i).ub
<1>1. n \in Nat
    BY LoadedSize
<1>2. ASSUME NEW i \in 1..n
      PROVE  /\ Fold(l.robot, VariableJoints(l.robot), i).lb \in Int
             /\ Fold(l.robot, VariableJoints(l.robot), i).ub \in Int
    BY FoldEnds, 0 \in Int
<1>3. /\ lb = [i \in 1..n |-> Fold(l.robot, VariableJoints(l.robot), i).lb]
      /\ ub = [i \in 1..n |-> Fold(l.robot, VariableJoints(l.robot), i).ub]
    BY DEF Folded
<1>4. lb \in [1..n -> Int] /\ ub \in [1..n -> Int]
    BY <1>2, <1>3
<1> QED BY <1>1, <1>3, <1>4, FunctionIsSequence

\* Nothing follows a joint that follows another.
LEMMA NothingFollowsMimic ==
  ASSUME NEW l \in Loads, NEW n, n = Cardinality(VariableAt(l.robot)),
         ChainInGroup(l.robot, VariableJoints(l.robot), n), NEW i \in 1..n,
         l.robot.model[VariableJoints(l.robot)[i]].mimics # NoJoint
  PROVE  MimicsOutside(l.robot, VariableJoints(l.robot), i) = {}
<1> DEFINE names == VariableJoints(l.robot)
<1> SUFFICES ASSUME NEW j \in MimicsOutside(l.robot, names, i) PROVE FALSE
    OBVIOUS
<1>1. /\ j \in DOMAIN l.robot.model
      /\ l.robot.model[j].mimics = names[i] /\ l.robot.model[j].mimics # NoJoint
    BY OutsideRead
<1>2. l.robot.model[names[i]].mimics = NoJoint
    BY <1>1, RobotsAssumption
<1> QED BY <1>2

\* So the folded bounds of a mimic joint of the chain are its limits, and the
\* couplings map them to whole ticks.
LEMMA FoldedInTicks ==
  ASSUME LimitsInTicks, NEW l \in Loads, NEW n, n = Cardinality(VariableAt(l.robot)),
         NEW names, names = VariableJoints(l.robot), ChainInGroup(l.robot, names, n),
         NEW d, d = Couplings(l.robot, names, n),
         NEW lb, lb = Folded(l.robot, names, n)[1], NEW ub, ub = Folded(l.robot, names, n)[2],
         NEW lo, lo = AsBounds(lb),
         NEW hi, hi = AsBounds(ub)
  PROVE  ExactBounds(d, lo, hi)
<1>1. d \in Seq(Coupling) /\ DOMAIN d = 1..n
    BY CouplingsTyped
<1>2. /\ n \in Nat /\ lb \in Seq(Int) /\ ub \in Seq(Int) /\ DOMAIN lb = 1..n /\ DOMAIN ub = 1..n
      /\ \A i \in 1..n : /\ lb[i] = Fold(l.robot, names, i).lb
                         /\ ub[i] = Fold(l.robot, names, i).ub
    BY FoldedTyped
<1>3. lo \in [1..n -> Bound] /\ hi \in [1..n -> Bound]
  <2>1. \A s \in Int : AsBound(s) \in Bound
      BY BoundAssumption DEF AsBound, Bound, Position
  <2> QED BY <1>2, <2>1 DEF AsBounds
<1>4. ASSUME NEW i \in Mimics(d)
      PROVE  lo[i] <= hi[i] /\ (~Pins(d[i]) => Exact(d[i], lo[i]) /\ Exact(d[i], hi[i]))
  <2> DEFINE j == names[i]
             f == l.robot.model[j]
             u == l.robot.urdf[j]
             c == CouplingOf(f, Own)
  <2>1. i \in 1..n /\ IsMimic(d, i)
      BY <1>1 DEF Mimics
  <2>2. /\ f.mimics # NoJoint /\ j \in DOMAIN l.robot.model
        /\ d[i].multiplier = c.multiplier /\ d[i].offset = c.offset
    <3>1. f.mimics # NoJoint /\ j \in DOMAIN l.robot.model
        BY <2>1, CouplingsRead DEF IsMimic
    <3>2. d[i] = CouplingOf(f, d[i].mimicked)
        BY <2>1, <3>1, CouplingsRead
    <3> QED BY <3>1, <3>2 DEF CouplingOf
  <2>3. MimicsOutside(l.robot, names, i) = {}
      BY <2>1, <2>2, NothingFollowsMimic
  <2>4. lb[i] = OwnLower(u) /\ ub[i] = OwnUpper(u)
    <3>1. OwnLower(u) \in Int /\ OwnUpper(u) \in Int
        BY <2>1, OwnLimits
    <3>2. lb[i] \in Int /\ ub[i] \in Int
        BY <1>2, <2>1, FoldEnds, 0 \in Int
    <3>3. ASSUME NEW x \in Int
          PROVE  /\ lb[i] <= x <=> OwnLower(u) <= x
                 /\ x <= ub[i] <=> x <= OwnUpper(u)
      <4> DEFINE F == Fold(l.robot, names, i)
      <4>1. /\ F.lb <= x <=> OwnLower(u) <= x /\ \A k \in {} :
                               Through(l.robot, k, OwnLower(u), OwnUpper(u)).lb <= x
            /\ x <= F.ub <=> x <= OwnUpper(u) /\ \A k \in {} :
                               x <= Through(l.robot, k, OwnLower(u), OwnUpper(u)).ub
        <5>1. u = l.robot.urdf[names[i]] /\ F = Fold(l.robot, names, i)
            OBVIOUS
        <5> HIDE DEF u, F
        <5> QED BY <2>1, <2>3, <5>1, FoldEnds
      <4>2. lb[i] = F.lb /\ ub[i] = F.ub
          BY <1>2, <2>1
      <4> HIDE DEF F, u
      <4> QED BY <4>1, <4>2
    <3>4. /\ lb[i] <= OwnLower(u) /\ OwnLower(u) <= lb[i]
          /\ OwnUpper(u) <= ub[i] /\ ub[i] <= OwnUpper(u)
        BY <3>1, <3>2, <3>3
    <3> QED BY <3>1, <3>2, <3>4
  <2>5. PICK k \in VariableAt(l.robot) : l.robot.chain[k].joint = j
      BY <2>1, OwnLimits
  <2>6. InTicks(c, AsBound(OwnLower(u)), AsBound(OwnUpper(u)))
      BY <2>2, <2>5 DEF LimitsInTicks
  <2>7. lo[i] = AsBound(OwnLower(u)) /\ hi[i] = AsBound(OwnUpper(u))
      BY <1>2, <2>1, <2>4 DEF AsBounds
  <2> HIDE DEF c, u
  <2>8. Pins(d[i]) <=> Pins(c)
      BY <2>2 DEF Pins
  <2>9. \A y : Exact(d[i], y) <=> Exact(c, y)
      BY <2>2 DEF Exact, Couple, UncoupleBound
  <2> QED BY <2>6, <2>7, <2>8, <2>9 DEF InTicks
<1> QED BY <1>1, <1>3, <1>4 DEF ExactBounds

\* The positions of a configuration of the model, and of what follows them.
LEMMA ConfigurationsInRange ==
  ASSUME PositionsInRange, NEW l \in Loads, NEW n, n = Cardinality(VariableAt(l.robot)),
         NEW names, names = VariableJoints(l.robot), ChainInGroup(l.robot, names, n),
         NEW d, d = Couplings(l.robot, names, n), Valid(d),
         NEW r \in [Active(d) -> Positions]
  PROVE  InRange(l.robot, Expand(d, r))
<1>1. DOMAIN d = 1..n
    BY CouplingsTyped
<1>2. \A m \in Active(d) : r[m] \in Positions /\ r[m] \in Position /\ Expand(d, r)[m] = r[m]
    BY DEF PositionsInRange, Active, Expand
<1>3. ASSUME NEW i \in 1..n PROVE Expand(d, r)[i] \in Position
  <2>1. CASE ~IsMimic(d, i)
      BY <1>1, <1>2, <2>1 DEF Active
  <2>2. CASE IsMimic(d, i)
    <3> DEFINE f == l.robot.model[names[i]]
    <3>1. /\ names[i] \in DOMAIN l.robot.model /\ f.mimics # NoJoint
        BY <2>2, CouplingsRead DEF IsMimic
    <3>2. d[i] = CouplingOf(f, d[i].mimicked)
        BY <3>1, CouplingsRead
    <3>3. d[i].mimicked \in Active(d)
        BY <1>1, <2>2 DEF Valid, Active
    <3>4. Expand(d, r)[i] = Couple(d[i], r[d[i].mimicked])
        BY <1>1, <2>2 DEF Expand
    <3>5. Couple(d[i], r[d[i].mimicked]) = Couple(f, r[d[i].mimicked])
        BY <3>2 DEF CouplingOf, Couple
    <3>6. Couple(f, r[d[i].mimicked]) \in Position
        BY <1>2, <3>1, <3>3 DEF PositionsInRange
    <3> QED BY <3>4, <3>5, <3>6
  <2> QED BY <2>1, <2>2
<1>4. ASSUME NEW i \in 1..n, NEW j \in MimicsOutside(l.robot, names, i)
      PROVE  Couple(l.robot.model[j], Expand(d, r)[i]) \in Position
  <2>1. l.robot.model[names[i]].mimics = NoJoint
      BY <1>4, NothingFollowsMimic
  <2>2. i \in Active(d)
      BY <1>1, <2>1, CouplingsRead DEF IsMimic, Active
  <2>3. j \in DOMAIN l.robot.model /\ l.robot.model[j].mimics # NoJoint
      BY OutsideRead
  <2> QED BY <1>2, <2>2, <2>3 DEF PositionsInRange
<1>5. DOMAIN Expand(d, r) = 1..n
    BY <1>1 DEF Expand
<1> QED BY <1>3, <1>4, <1>5 DEF InRange

\* Positions in range are positions.
LEMMA InRangeRead ==
  ASSUME NEW r, NEW d, NEW x, InRange(r, Expand(d, x))
  PROVE  /\ HasPositions(d, x)
         /\ \A i \in DOMAIN d : \A j \in MimicsOutside(r, VariableJoints(r), i) :
              Couple(r.model[j], Expand(d, x)[i]) \in Position
<1>1. DOMAIN Expand(d, x) = DOMAIN d
    BY DEF Expand
<1>2. \A m \in Active(d) : m \in DOMAIN d /\ Expand(d, x)[m] = x[m]
    BY DEF Expand, Active
<1>3. \A i \in DOMAIN d : /\ Expand(d, x)[i] \in Position
                         /\ \A j \in MimicsOutside(r, VariableJoints(r), i) :
                              Couple(r.model[j], Expand(d, x)[i]) \in Position
    BY <1>1 DEF InRange
<1> QED BY <1>2, <1>3 DEF HasPositions

\* The group holds where each joint of the chain does, with those outside it.
LEMMA GroupByJoints ==
  ASSUME NEW l \in Loads, NEW n, n = Cardinality(VariableAt(l.robot)),
         NEW names, names = VariableJoints(l.robot),
         NEW c, DOMAIN c = 1..n, c = Held(l.robot, c)
  PROVE  GroupHolds(l.robot, c) <=>
           \A i \in 1..n :
             /\ InUrdfLimits(l.robot.urdf[names[i]], c[i])
             /\ \A j \in MimicsOutside(l.robot, names, i) :
                  InModelBounds(l.robot.model[j], Couple(l.robot.model[j], c[i]))
<1> DEFINE r == l.robot
           inside(i) == \A j \in MimicsOutside(r, names, i) :
                          InModelBounds(r.model[j], Couple(r.model[j], c[i]))
<1>1. \A i \in 1..n : HeldAt(r, c, names[i]) = c[i]
    BY DEF Held
<1>2. DOMAIN names = 1..n
    BY LoadedSize
<1>3. ASSUME NEW i \in 1..n, NEW j \in MimicsOutside(r, names, i)
      PROVE  j \in Outside(r) /\ HeldAt(r, c, j) = Couple(r.model[j], c[i])
  <2>1. r.model[j].mimics = names[i] /\ r.model[j].mimics # NoJoint
      BY OutsideRead
  <2>2. j \in Outside(r)
      BY <1>2, <2>1 DEF MimicsOutside, Outside, Range
  <2>3. IndexIn(names, names[i]) = i
      BY PlaceIn
  <2> QED BY <2>1, <2>2, <2>3 DEF HeldAt
<1>4. ASSUME NEW j \in Outside(r)
      PROVE  \E i \in 1..n : j \in MimicsOutside(r, names, i)
    BY <1>2 DEF Outside, MimicsOutside, Range
<1>5. (\A j \in Outside(r) : InModelBounds(r.model[j], HeldAt(r, c, j))) <=> \A i \in 1..n : inside(i)
    BY <1>3, <1>4
<1>6. (\A i \in DOMAIN c : InUrdfLimits(r.urdf[names[i]], HeldAt(r, c, names[i])))
      <=> \A i \in 1..n : InUrdfLimits(r.urdf[names[i]], c[i])
    BY <1>1
<1> HIDE DEF inside
<1>7. GroupHolds(r, c) <=> \A i \in 1..n : InUrdfLimits(r.urdf[names[i]], c[i]) /\ inside(i)
    BY <1>5, <1>6 DEF GroupHolds
<1> QED BY <1>7 DEF inside

\* Nothing is refused in folding; what bounds admit; and joints beside the chain
\* that can be folded.
AllFold(r, names, n) == \A i \in 1..n : Fold(r, names, i).ok
Admits(t, c)         == \A i \in DOMAIN c : Inside(c[i], t.lb[i], t.ub[i])
SinglyOutside(r)     == \A j \in Outside(r) : r.model[j].variables = 1 /\ r.model[j].finite

\* A configuration and what its joints are judged by: the folded bounds of the
\* chain admit those the group holds.
LEMMA FoldsAdmit ==
  ASSUME LimitsInTicks,
         NEW l \in Loads, NEW n, n = Cardinality(VariableAt(l.robot)),
         NEW names, names = VariableJoints(l.robot), ChainInGroup(l.robot, names, n),
         NEW d, d = Couplings(l.robot, names, n), Valid(d),
         NEW lb, lb = Folded(l.robot, names, n)[1], NEW ub, ub = Folded(l.robot, names, n)[2],
         NEW lo, lo = AsBounds(lb),
         NEW hi, hi = AsBounds(ub),
         NEW r, InRange(l.robot, Expand(d, r))
  PROVE  /\ AllFold(l.robot, names, n)
            => (AllInside(d, lo, hi, r) <=> GroupHolds(l.robot, Expand(d, r)))
         /\ GroupHolds(l.robot, Expand(d, r)) /\ SinglyOutside(l.robot)
            => AllFold(l.robot, names, n) /\ AllInside(d, lo, hi, r)
<1> DEFINE c == Expand(d, r)
           all(i) == MimicsOutside(l.robot, names, i)
           F(i) == Fold(l.robot, names, i)
           own(i) == InUrdfLimits(l.robot.urdf[names[i]], c[i])
           outside(i) == \A j \in all(i) :
                           InModelBounds(l.robot.model[j], Couple(l.robot.model[j], c[i]))
<1>1. DOMAIN d = 1..n /\ DOMAIN c = 1..n
    BY CouplingsTyped DEF Expand
<1>2. HasPositions(d, r) /\ \A i \in 1..n : \A j \in all(i) : Couple(l.robot.model[j], c[i]) \in Position
    BY <1>1, InRangeRead
<1>3. \A i \in 1..n : c[i] \in Position
    BY <1>1, <1>2 DEF HasPositions
<1>4. /\ lb \in Seq(Int) /\ ub \in Seq(Int) /\ DOMAIN lb = 1..n /\ DOMAIN ub = 1..n
      /\ Len(lb) = n /\ Len(ub) = n
      /\ \A i \in 1..n : lb[i] = F(i).lb /\ ub[i] = F(i).ub
    BY FoldedTyped
<1>5. c = Held(l.robot, c)
  <2>1. RebuildMimicEntries(d, c) = Held(l.robot, c)
      BY <1>1, HeldRebuilt
  <2>2. RebuildMimicEntries(d, c) = c
      BY ExpandTwice DEF RebuildMimicEntries
  <2> QED BY <2>1, <2>2
<1>6. GroupHolds(l.robot, c) <=> \A i \in 1..n : own(i) /\ outside(i)
    BY <1>1, <1>5, GroupByJoints
<1>7. ASSUME NEW i \in 1..n
      PROVE  Inside(c[i], lo[i], hi[i]) <=> Inside(c[i], F(i).lb, F(i).ub)
  <2>1. lo[i] = AsBound(lb[i]) /\ hi[i] = AsBound(ub[i]) /\ lb[i] \in Int /\ ub[i] \in Int
    <3> HIDE DEF c, F
    <3>1. i \in DOMAIN lb /\ i \in DOMAIN ub
        BY <1>4
    <3>2. lb[i] \in Int /\ ub[i] \in Int
        BY <1>4, <3>1
    <3> QED BY <3>1, <3>2, Zenon DEF AsBounds
  <2>2. lb[i] = F(i).lb /\ ub[i] = F(i).ub
      BY <1>4
  <2> HIDE DEF c, F
  <2> QED BY <1>3, <2>1, <2>2, ReadExactly DEF Inside
<1>8. ASSUME NEW i \in 1..n
      PROVE  /\ F(i).ok => (Inside(c[i], F(i).lb, F(i).ub) <=> own(i) /\ outside(i))
             /\ (/\ own(i) /\ outside(i)
                 /\ \A j \in all(i) : l.robot.model[j].variables = 1 /\ l.robot.model[j].finite)
                => F(i).ok /\ Inside(c[i], F(i).lb, F(i).ub)
  <2>1. c[i] \in Position /\ \A j \in all(i) : Couple(l.robot.model[j], c[i]) \in Position
      BY <1>2, <1>3
  <2> DEFINE a == all(i)
             f == F(i)
             x == c[i]
  <2>2. a = MimicsOutside(l.robot, names, i) /\ f = Fold(l.robot, names, i)
      OBVIOUS
  <2> HIDE DEF a, f, x
  <2>3. /\ f.ok => (Inside(x, f.lb, f.ub) <=> /\ InUrdfLimits(l.robot.urdf[names[i]], x)
                     /\ \A j \in a : InModelBounds(l.robot.model[j], Couple(l.robot.model[j], x)))
        /\ (/\ InUrdfLimits(l.robot.urdf[names[i]], x)
            /\ \A j \in a : InModelBounds(l.robot.model[j], Couple(l.robot.model[j], x))
            /\ \A j \in a : l.robot.model[j].variables = 1 /\ l.robot.model[j].finite)
           => f.ok /\ Inside(x, f.lb, f.ub)
    <3>1. x \in Position /\ \A j \in a : Couple(l.robot.model[j], x) \in Position
        BY <2>1 DEF x, a
    <3>2. n = Cardinality(VariableAt(l.robot))
        OBVIOUS
    <3> QED BY <2>2, <3>1, <3>2, FoldExact
  <2> QED BY <2>3 DEF a, f, x
<1>9. ASSUME NEW i \in 1..n, NEW j \in all(i) PROVE j \in Outside(l.robot)
  <2>1. DOMAIN names = 1..n
      BY LoadedSize
  <2>2. j \in l.robot.group /\ l.robot.model[j].mimics = names[i] /\ j \notin Range(names)
      BY DEF MimicsOutside
  <2> QED BY <2>1, <2>2 DEF Outside, Range
<1>10. AllInside(d, lo, hi, r) <=> \A i \in 1..n : Inside(c[i], lo[i], hi[i])
    BY <1>1 DEF AllInside
<1> HIDE DEF c, F, all, own, outside
<1>11. AllInside(d, lo, hi, r) <=> \A i \in 1..n : Inside(c[i], F(i).lb, F(i).ub)
    BY <1>7, <1>10
<1>12. (\A i \in 1..n : F(i).ok) => (AllInside(d, lo, hi, r) <=> GroupHolds(l.robot, c))
    BY <1>6, <1>8, <1>11
<1>13. ASSUME GroupHolds(l.robot, c), SinglyOutside(l.robot)
       PROVE  (\A i \in 1..n : F(i).ok) /\ AllInside(d, lo, hi, r)
  <2>1. \A i \in 1..n : F(i).ok /\ Inside(c[i], F(i).lb, F(i).ub)
      BY <1>6, <1>8, <1>9, <1>13 DEF SinglyOutside
  <2> QED BY <1>11, <2>1
<1>14. AllFold(l.robot, names, n) <=> \A i \in 1..n : F(i).ok
    BY DEF AllFold, F
<1> QED BY <1>12, <1>13, <1>14 DEF c

\* What the constructor of a solver makes of the folded bounds admits the same.
LEMMA TightenedAdmit ==
  ASSUME LimitsInTicks,
         NEW l \in Loads, NEW n, n = Cardinality(VariableAt(l.robot)),
         NEW names, names = VariableJoints(l.robot), ChainInGroup(l.robot, names, n),
         NEW d, d = Couplings(l.robot, names, n), Valid(d),
         NEW lb, lb = Folded(l.robot, names, n)[1], NEW ub, ub = Folded(l.robot, names, n)[2],
         NEW r, InRange(l.robot, Expand(d, r)), NEW t, t = Tighten(d, lb, ub)
  PROVE  /\ t.ok /\ AllFold(l.robot, names, n)
            => (Admits(t, Expand(d, r)) <=> GroupHolds(l.robot, Expand(d, r)))
         /\ GroupHolds(l.robot, Expand(d, r)) /\ SinglyOutside(l.robot)
            => t.ok /\ AllFold(l.robot, names, n)
<1> DEFINE lo == AsBounds(lb)
           hi == AsBounds(ub)
           single == SinglyOutside(l.robot)
           ok == AllFold(l.robot, names, n)
           holds == GroupHolds(l.robot, Expand(d, r))
<1>1. d \in Seq(Coupling) /\ DOMAIN d = 1..n /\ Len(d) = n
  <2>1. d \in Seq(Coupling) /\ DOMAIN d = 1..n /\ n \in Nat
      BY CouplingsTyped, LoadedSize
  <2> QED BY <2>1
<1>2. lb \in Seq(Int) /\ Len(lb) = n /\ ub \in Seq(Int) /\ Len(ub) = n
    BY FoldedTyped
<1>3. HasPositions(d, r)
    BY InRangeRead
<1>4. /\ lo = AsBounds(lb)
      /\ hi = AsBounds(ub)
    OBVIOUS
<1> HIDE DEF lo, hi
<1>5. ExactBounds(d, lo, hi)
    BY <1>4, FoldedInTicks
<1>6. (ok => (AllInside(d, lo, hi, r) <=> holds)) /\ (holds /\ single => ok /\ AllInside(d, lo, hi, r))
    BY <1>4, FoldsAdmit
<1> HIDE DEF ok, holds, single
<1>7. /\ t.ok => (AllInside(d, lo, hi, r)
                  <=> \A i \in DOMAIN d : Inside(Expand(d, r)[i], t.lb[i], t.ub[i]))
      /\ AllInside(d, lo, hi, r) => t.ok
  <2>1. Len(lb) = Len(d) /\ Len(ub) = Len(d)
      BY <1>1, <1>2
  <2>2. Valid(d) /\ t = Tighten(d, lb, ub)
      OBVIOUS
  <2> QED BY ONLY <1>1, <1>2, <1>3, <1>4, <1>5, <2>1, <2>2, TightenAdmits
<1>8. Admits(t, Expand(d, r)) <=> \A i \in DOMAIN d : Inside(Expand(d, r)[i], t.lb[i], t.ub[i])
    BY DEF Admits, Expand
<1>9. /\ t.ok /\ ok => (Admits(t, Expand(d, r)) <=> holds)
      /\ holds /\ single => t.ok /\ ok
    BY <1>6, <1>7, <1>8
<1> QED BY <1>9 DEF ok, holds, single

\* So does a load.
LEMMA LoadAdmits ==
  ASSUME LimitsInTicks, PositionsInRange, NEW l \in Loads,
         NEW p, p = Initialized(l.robot, l.params), p.active,
         NEW m, m = Initialize(ChainOf(l.robot, p)),
         NEW c \in Configurations(p.couplings)
  PROVE  (\A i \in DOMAIN c : Inside(c[i], m.lb[i], m.ub[i])) <=> GroupHolds(l.robot, c)
<1>1. PICK n, names, d, lb, ub, t :
        /\ n = Cardinality(VariableAt(l.robot)) /\ names = VariableJoints(l.robot)
        /\ d = Couplings(l.robot, names, n) /\ lb = Folded(l.robot, names, n)[1]
        /\ ub = Folded(l.robot, names, n)[2] /\ t = Tighten(d, lb, ub)
    OBVIOUS
<1>2. /\ p.couplings = d /\ p.joint_min = lb /\ p.joint_max = ub
      /\ ChainInGroup(l.robot, names, n) /\ Valid(d) /\ t.ok
      /\ AllFold(l.robot, names, n)
    BY <1>1, LoadRead DEF Folded, AllFold
<1>3. m.lb = t.lb /\ m.ub = t.ub
    BY <1>1, <1>2, LoadedInitializes
<1>4. PICK r \in [Active(d) -> Positions] : c = Expand(d, r)
    BY <1>2 DEF Configurations
<1>5. InRange(l.robot, Expand(d, r))
    BY <1>1, <1>2, ConfigurationsInRange
<1>6. Admits(t, Expand(d, r)) <=> GroupHolds(l.robot, Expand(d, r))
    BY <1>1, <1>2, <1>5, TightenedAdmit
<1> QED BY <1>3, <1>4, <1>6 DEF Admits

\* Only a load writes the robot and the plugin.
LEMMA OnlyLoad ==
  ASSUME [Next]_vars, plugin' # plugin
  PROVE  \E l \in Loads : robot' = l.robot /\ plugin' = Initialized(l.robot, l.params)
<1>1. \E l \in Loads : Load(l.robot, l.params)
    BY DEF Next, Step, vars, loadVars, Search, RefuseSearch, TestTime, Attempt, Expire, Answered,
           Take, Judge, Collect, Tick
<1> QED BY <1>1 DEF Load

-----------------------------------------------------------------------------
(* Refusals.                                                               *)

\* Of a robot whose movable joints all have a variable, there is no misfit.
LEMMA IndexableFits ==
  ASSUME NEW l \in Loads, Indexable(l.robot),
         NEW n, n = Cardinality(VariableAt(l.robot)), NEW names, names = VariableJoints(l.robot)
  PROVE  Misfits(l.robot) = {} /\ ChainInGroup(l.robot, names, n)
<1> DEFINE r == l.robot
<1>1. \A k \in DOMAIN r.chain : Movable(JointOf(r, k)) =>
        LET j == r.chain[k].joint IN
        /\ HasVariable(JointOf(r, k)) /\ j \in r.group /\ r.model[j].variables = 1
        /\ r.model[j].finite /\ r.model[j].mimics \in {NoJoint} \cup Range(names)
    BY DEF Indexable, JointOf, Range
<1>2. MovableAt(r) = VariableAt(r) /\ r.group \subseteq DOMAIN r.model
    BY <1>1, RobotsAssumption DEF MovableAt, VariableAt, HasVariable, Movable
<1>3. ASSUME NEW k \in DOMAIN r.chain PROVE ~Misfit(r, k)
  <2>1. VariableAt(r) \in SUBSET DOMAIN r.chain
      BY DEF VariableAt
  <2>2. UpTo(VariableAt(r), k) \subseteq VariableAt(r) /\ IsFiniteSet(VariableAt(r))
      BY <2>1, ChainRead DEF UpTo
  <2>3. ~(Cardinality(UpTo(MovableAt(r), k)) > Cardinality(VariableAt(r)))
      BY <1>2, <2>2, FS_Subset, FS_CardinalityType
  <2> QED BY <1>1, <2>3 DEF Misfit
<1>4. ASSUME NEW i \in 1..n
      PROVE  /\ names[i] \in DOMAIN r.model /\ names[i] \in r.group
             /\ r.model[names[i]].mimics \in {NoJoint} \cup Range(names)
  <2>1. PICK k \in VariableAt(r) : r.chain[k].joint = names[i]
      BY OwnLimits
  <2>2. k \in DOMAIN r.chain /\ Movable(JointOf(r, k))
      BY <2>1 DEF VariableAt, HasVariable, Movable
  <2> QED BY <1>1, <1>2, <2>1, <2>2
<1>5. r.group # {}
    BY DEF Indexable
<1> QED BY <1>3, <1>4, <1>5 DEF Misfits, ChainInGroup

\* ... and its couplings can be searched in, and those beside the chain folded.
LEMMA IndexableValid ==
  ASSUME NEW l \in Loads, Indexable(l.robot),
         NEW n, n = Cardinality(VariableAt(l.robot)), NEW names, names = VariableJoints(l.robot),
         NEW d, d = Couplings(l.robot, names, n)
  PROVE  Valid(d) /\ SinglyOutside(l.robot)
<1> DEFINE r == l.robot
<1>1. ChainInGroup(r, names, n)
    BY IndexableFits
<1>2. DOMAIN d = 1..n
    BY <1>1, CouplingsTyped
<1>3. ASSUME NEW i \in 1..n
      PROVE  /\ d[i].variable_count = 1
             /\ IsMimic(d, i) => /\ d[i].mimicked \in 1..n /\ d[i].mimicked # i
                                 /\ ~IsMimic(d, d[i].mimicked) /\ d[i].finite
  <2> DEFINE f == r.model[names[i]]
  <2>1. PICK k \in VariableAt(r) : r.chain[k].joint = names[i]
      BY OwnLimits
  <2>2. f.variables = 1 /\ f.finite
      BY <2>1 DEF Indexable, VariableAt, HasVariable, Movable, JointOf, Range
  <2>3. d[i].variable_count = f.variables /\ (f.mimics = NoJoint => ~IsMimic(d, i))
      BY <1>1, CouplingsRead DEF IsMimic
  <2>4. ASSUME f.mimics # NoJoint
        PROVE  /\ d[i].mimicked \in 1..n /\ d[i].mimicked # i
               /\ ~IsMimic(d, d[i].mimicked) /\ d[i].finite
    <3>1. /\ names[i] \in DOMAIN r.model /\ d[i].mimicked \in 1..n
          /\ names[d[i].mimicked] = f.mimics /\ d[i] = CouplingOf(f, d[i].mimicked)
        BY <1>1, <2>4, CouplingsRead
    <3>2. r.model[f.mimics].mimics = NoJoint
        BY <2>4, <3>1, RobotsAssumption
    <3>3. ~IsMimic(d, d[i].mimicked)
        BY <1>1, <3>1, <3>2, CouplingsRead DEF IsMimic
    <3>4. d[i].mimicked # i
        BY <2>4, <3>1, <3>2
    <3>5. d[i].finite = f.finite
        BY <3>1 DEF CouplingOf
    <3> QED BY <2>2, <3>1, <3>3, <3>4, <3>5
  <2> QED BY <2>2, <2>3, <2>4
<1>4. Valid(d)
    BY <1>2, <1>3 DEF Valid
<1>5. SinglyOutside(r)
    BY DEF Indexable, SinglyOutside
<1> QED BY <1>4, <1>5

\* What a load needs, besides.
LEMMA LoadSucceeds ==
  ASSUME NEW l \in Loads, l.robot.tips = 1, l.robot.connected, Misfits(l.robot) = {},
         NEW n, n = Cardinality(VariableAt(l.robot)), NEW names, names = VariableJoints(l.robot),
         ChainInGroup(l.robot, names, n), AllFold(l.robot, names, n),
         NEW d, d = Couplings(l.robot, names, n), Valid(d),
         NEW lb, lb = Folded(l.robot, names, n)[1], NEW ub, ub = Folded(l.robot, names, n)[2],
         Tighten(d, lb, ub).ok
  PROVE  Initialized(l.robot, l.params).active
<1> DEFINE r == l.robot
           read == JointsAt(r, MovableAt(r) \cap ReadFully(r))
<1>1. read = names
    BY NoMisfit DEF VariableJoints
<1>2. /\ lb = [i \in 1..n |-> Fold(r, names, i).lb]
      /\ ub = [i \in 1..n |-> Fold(r, names, i).ub]
    BY DEF Folded
<1>3. Builds(Couplings(r, names, n), [i \in 1..n |-> Fold(r, names, i).lb],
                                     [i \in 1..n |-> Fold(r, names, i).ub])
    BY <1>2 DEF Builds
<1>4. Initialized(r, l.params).active
        = /\ ChainInGroup(r, read, n) /\ \A i \in 1..n : Fold(r, read, i).ok
          /\ Builds(Couplings(r, read, n), [i \in 1..n |-> Fold(r, read, i).lb],
                                           [i \in 1..n |-> Fold(r, read, i).ub])
    BY DEF Initialized
<1> HIDE DEF read
<1> QED BY <1>1, <1>3, <1>4, Zenon DEF AllFold

-----------------------------------------------------------------------------
(* What a search may take from its solver.                                 *)

\* What an answer is judged with: what the load left, by the names of FoldsAdmit.
LEMMA SolverRead ==
  ASSUME NEW l \in Loads, NEW p, p = Initialized(l.robot, l.params), p.active,
         NEW m, m = Initialize(ChainOf(l.robot, p))
  PROVE  \E n, names, d, lb, ub, t :
           /\ n = Cardinality(VariableAt(l.robot)) /\ names = VariableJoints(l.robot)
           /\ d = Couplings(l.robot, names, n) /\ lb = Folded(l.robot, names, n)[1]
           /\ ub = Folded(l.robot, names, n)[2] /\ t = Tighten(d, lb, ub)
           /\ ChainInGroup(l.robot, names, n) /\ Valid(d) /\ t.ok /\ AllFold(l.robot, names, n)
           /\ m.couplings = d /\ m.own_lb = lb /\ m.own_ub = ub /\ m.lb = t.lb /\ m.ub = t.ub
           /\ p.num_joints = n /\ p.couplings = d
           /\ n \in Nat /\ d \in Seq(Coupling) /\ DOMAIN d = 1..n
           /\ \A i \in 1..n : m.rev[i] \in Nat \ {0}
<1>1. PICK n, names, d, lb, ub, t :
        /\ n = Cardinality(VariableAt(l.robot)) /\ names = VariableJoints(l.robot)
        /\ d = Couplings(l.robot, names, n) /\ lb = Folded(l.robot, names, n)[1]
        /\ ub = Folded(l.robot, names, n)[2] /\ t = Tighten(d, lb, ub)
    OBVIOUS
<1>2. /\ p.couplings = d /\ p.joint_min = lb /\ p.joint_max = ub /\ p.num_joints = n
      /\ ChainInGroup(l.robot, names, n) /\ Valid(d) /\ t.ok /\ AllFold(l.robot, names, n)
    BY <1>1, LoadRead DEF Folded, AllFold
<1>3. m.couplings = d /\ m.own_lb = lb /\ m.own_ub = ub /\ m.lb = t.lb /\ m.ub = t.ub
    BY <1>1, <1>2, LoadedInitializes
<1>4. n \in Nat /\ d \in Seq(Coupling) /\ DOMAIN d = 1..n /\ DOMAIN names = 1..n
    BY <1>1, <1>2, LoadedSize, CouplingsTyped
<1>5. ASSUME NEW i \in 1..n PROVE m.rev[i] \in Nat \ {0}
  <2>1. PICK k \in VariableAt(l.robot) : names[i] = l.robot.chain[k].joint
      BY <1>1, OwnLimits
  <2>2. l.robot.urdf[names[i]].rev \in Nat \ {0}
      BY <2>1, RobotsAssumption DEF JointOf
  <2>3. m.rev = [j \in DOMAIN names |-> l.robot.urdf[names[j]].rev]
      BY <1>1 DEF Initialize, ChainOf
  <2> QED BY <1>4, <2>2, <2>3
<1> QED BY <1>1, <1>2, <1>3, <1>4, <1>5

\* A configuration that answers a search from inside is one the group holds.
LEMMA AnswerHeld ==
  ASSUME LimitsInTicks, NEW l \in Loads, NEW p, p = Initialized(l.robot, l.params), p.active,
         NEW m, m = Initialize(ChainOf(l.robot, p)), NEW q, ~PerCallBounds(q),
         StartsInside(m, q), NEW c, IsAnswer(m, q, c), InRange(l.robot, c)
  PROVE  GroupHolds(l.robot, c)
<1>1. PICK n, names, d, lb, ub, t :
        /\ n = Cardinality(VariableAt(l.robot)) /\ names = VariableJoints(l.robot)
        /\ d = Couplings(l.robot, names, n) /\ lb = Folded(l.robot, names, n)[1]
        /\ ub = Folded(l.robot, names, n)[2]
        /\ ChainInGroup(l.robot, names, n) /\ Valid(d) /\ AllFold(l.robot, names, n)
        /\ m.couplings = d /\ m.own_lb = lb /\ m.own_ub = ub /\ DOMAIN d = 1..n
    BY SolverRead
<1>2. PICK r : c = Expand(d, r)
    BY <1>1 DEF IsAnswer, RebuildMimicEntries
<1>3. PICK lo, hi : lo = AsBounds(lb) /\ hi = AsBounds(ub)
    OBVIOUS
<1>4. /\ lb \in Seq(Int) /\ ub \in Seq(Int) /\ Len(lb) = n /\ Len(ub) = n
      /\ DOMAIN lb = 1..n /\ DOMAIN ub = 1..n
    BY <1>1, FoldedTyped
<1>5. DOMAIN c = 1..n /\ \A i \in 1..n : lb[i] <= c[i] /\ c[i] <= ub[i]
    BY <1>1, <1>2 DEF IsAnswer, WithinAsked, AskedBounds, Expand
<1>6. ASSUME NEW i \in 1..n PROVE Inside(c[i], lo[i], hi[i])
  <2>1. lb[i] \in Int /\ ub[i] \in Int /\ lo[i] = AsBound(lb[i]) /\ hi[i] = AsBound(ub[i])
      BY <1>3, <1>4 DEF AsBounds
  <2>2. c[i] \in Position
      BY <1>5 DEF InRange
  <2> QED BY <1>5, <2>1, <2>2, ReadExactly DEF Inside
<1>7. AllInside(d, lo, hi, r)
    BY <1>1, <1>2, <1>6 DEF AllInside
<1>8. InRange(l.robot, Expand(d, r))
    BY <1>2
<1> QED BY <1>1, <1>2, <1>3, <1>7, <1>8, FoldsAdmit

\* A search that starts where the group can be starts inside the solver's bounds.
LEMMA StartHeld ==
  ASSUME LimitsInTicks, NEW l \in Loads, NEW p, p = Initialized(l.robot, l.params), p.active,
         NEW m, m = Initialize(ChainOf(l.robot, p)), NEW q, ~PerCallBounds(q),
         InRange(l.robot, StartOf(m, q)), GroupHolds(l.robot, StartOf(m, q))
  PROVE  StartsInside(m, q)
<1>1. PICK n, names, d, lb, ub, t :
        /\ n = Cardinality(VariableAt(l.robot)) /\ names = VariableJoints(l.robot)
        /\ d = Couplings(l.robot, names, n) /\ lb = Folded(l.robot, names, n)[1]
        /\ ub = Folded(l.robot, names, n)[2] /\ t = Tighten(d, lb, ub)
        /\ ChainInGroup(l.robot, names, n) /\ Valid(d) /\ t.ok /\ AllFold(l.robot, names, n)
        /\ m.couplings = d /\ m.lb = t.lb /\ m.ub = t.ub
    BY SolverRead
<1>2. PICK r : StartOf(m, q) = Expand(d, r)
    BY <1>1 DEF StartOf, RepairSeed, RebuildMimicEntries
<1>3. Admits(t, Expand(d, r))
    BY <1>1, <1>2, TightenedAdmit
<1>4. ASSUME NEW i \in Active(d) PROVE Inside(StartOf(m, q)[i], t.lb[i], t.ub[i])
    BY <1>2, <1>3 DEF Admits, Expand, Active
<1>5. Resolve(m, q).lb = t.lb /\ Resolve(m, q).ub = t.ub
    BY <1>1 DEF Resolve
<1> QED BY <1>1, <1>4, <1>5 DEF StartsInside

\* A search in progress is of a request, from its seed or one drawn for the robot.
StartInv ==
  /\ at # "idle" => request \in Requests
                    /\ start \in {request.seed} \cup RandomSeeds(robot, plugin.num_joints)
  /\ plugin = Unloaded => at = "idle" /\ returned # "true"

\* Only a search or a judgement gives it another start.
LEMMA StartInvStep == ASSUME Inv, StartInv, [Next]_vars PROVE StartInv'
<1>1. ASSUME NEW l \in Loads, Load(l.robot, l.params) PROVE StartInv'
  <2>1. /\ plugin = Unloaded /\ at = "idle" /\ returned # "true"
        /\ UNCHANGED <<at, returned>>
      BY <1>1 DEF Load, StartInv, callVars
  <2> QED BY <2>1 DEF StartInv
<1>2. ASSUME NEW q \in Requests, Search(q) PROVE StartInv'
  <2>1. /\ request' = q /\ start' = q.seed /\ returned' = "nothing" /\ at' = "testing"
        /\ plugin.active /\ UNCHANGED <<robot, plugin>>
      BY <1>2 DEF Search, Ready, loadVars
  <2>2. plugin # Unloaded
      BY <2>1 DEF Unloaded
  <2> QED BY <2>1, <2>2 DEF StartInv
<1>3. ASSUME NEW q \in Requests, RefuseSearch(q) PROVE StartInv'
    BY <1>3 DEF RefuseSearch, StartInv, loadVars
<1>4. CASE TestTime
    BY <1>4 DEF TestTime, StartInv, loadVars
<1>5. ASSUME Attempt \/ Collect \/ Expire \/ Answered \/ Tick PROVE StartInv'
  <2>1. at # "idle" /\ UNCHANGED <<robot, plugin, request, start, returned>>
      BY <1>5 DEF Attempt, Collect, Expire, Answered, Tick, loadVars, callVars
  <2>2. plugin.active
      BY <2>1 DEF Inv, SearchInv
  <2>3. plugin # Unloaded
      BY <2>2 DEF Unloaded
  <2> QED BY <2>1, <2>3 DEF StartInv
<1>6. CASE Take
  <2>1. plugin.active /\ at # "idle" /\ UNCHANGED <<robot, plugin, request, start>>
      BY <1>6 DEF Take, Inv, SearchInv, loadVars
  <2>2. plugin # Unloaded
      BY <2>1 DEF Unloaded
  <2> QED BY <2>1, <2>2 DEF StartInv
<1>7. CASE Judge
  <2>1. /\ plugin.active /\ at # "idle" /\ UNCHANGED <<robot, plugin, request>>
        /\ start' = start \/ start' \in RandomSeeds(robot, plugin.num_joints)
      BY <1>7 DEF Judge, Inv, SearchInv, loadVars
  <2>2. plugin # Unloaded
      BY <2>1 DEF Unloaded
  <2> QED BY <2>1, <2>2 DEF StartInv
<1>8. CASE UNCHANGED vars
    BY <1>8 DEF vars, loadVars, callVars, StartInv
<1> QED BY <1>1, <1>2, <1>3, <1>4, <1>5, <1>6, <1>7, <1>8 DEF Next, Step

\* So it is always.
LEMMA StartInvariant == Spec => []StartInv
<1>1. Init => StartInv
    BY DEF Init, StartInv
<1> QED BY <1>1, StartInvStep, InvInvariant, PTL DEF Spec

\* What it holds on to, from a start the group can be in, the group can be in.
StartHolds == GroupHolds(robot, StartOf(mech, query))
HeldInv ==
  /\ at = "solving" => \A c \in cands : StartHolds => GroupHolds(robot, c)
  /\ at = "taking"  => (answer.rc >= 0 /\ StartHolds => GroupHolds(robot, answer.q_out))
  /\ at = "judging" => (StartHolds => GroupHolds(robot, solution))
  /\ SolutionHeld

\* What a solver may collect.
LEMMA CollectedHeld ==
  ASSUME LimitsInTicks, PositionsInRange, SeedsInRange, Inv, StartInv, at = "solving", StartHolds,
         NEW c \in Configurations(mech.couplings), IsAnswer(mech, query, c)
  PROVE  GroupHolds(robot, c)
<1>1. /\ plugin.active /\ mech = Initialize(ChainOf(robot, plugin)) /\ Len(start) = plugin.num_joints
      /\ request \in Requests
      /\ start \in {request.seed} \cup RandomSeeds(robot, plugin.num_joints)
    BY DEF Inv, SearchInv, StartInv
<1>2. PICK l \in Loads : robot = l.robot /\ plugin = Initialized(l.robot, l.params)
    BY <1>1 DEF Inv, LoadInv, Unloaded
<1>3. PICK t : query = QueryOf(plugin, request, start, t)
    BY DEF Inv, AttemptInv
<1>4. ~PerCallBounds(query)
    BY <1>3 DEF QueryOf, PerCallBounds
<1>5. StartOf(mech, query) = StartOf(mech, QueryOf(plugin, request, start, 0))
    BY <1>3 DEF StartOf, Resolve, PerCallBounds, QueryOf
<1>6. InRange(l.robot, StartOf(mech, query))
  <2>1. mech.initialized
      BY <1>1, <1>2, LoadedInitializes
  <2> QED BY <1>1, <1>2, <1>5, <2>1 DEF SeedsInRange
<1>7. StartsInside(mech, query)
    BY <1>1, <1>2, <1>4, <1>6, StartHeld DEF StartHolds
<1>8. InRange(l.robot, c)
  <2>1. /\ ChainInGroup(l.robot, VariableJoints(l.robot), Cardinality(VariableAt(l.robot)))
        /\ mech.couplings = Couplings(l.robot, VariableJoints(l.robot), Cardinality(VariableAt(l.robot)))
        /\ Valid(mech.couplings)
      BY <1>1, <1>2, SolverRead
  <2> QED BY <2>1, ConfigurationsInRange DEF Configurations
<1> QED BY <1>1, <1>2, <1>4, <1>7, <1>8, AnswerHeld

\* Each step.
LEMMA HeldInvStep ==
  ASSUME LimitsInTicks, PositionsInRange, SeedsInRange, Inv, StartInv, HeldInv, [Next]_vars
  PROVE  HeldInv'
<1>1. ASSUME NEW l \in Loads, Load(l.robot, l.params) PROVE HeldInv'
  <2>1. /\ at = "idle" /\ returned # "true" /\ UNCHANGED <<at, returned>>
      BY <1>1 DEF Load, StartInv, callVars
  <2> QED BY <2>1 DEF HeldInv, SolutionHeld
<1>2. ASSUME NEW q \in Requests, Search(q) PROVE HeldInv'
  <2>1. returned' = "nothing" /\ at' = "testing"
      BY <1>2 DEF Search
  <2> QED BY <2>1 DEF HeldInv, SolutionHeld
<1>3. ASSUME NEW q \in Requests, RefuseSearch(q) PROVE HeldInv'
    BY <1>3 DEF RefuseSearch, HeldInv, SolutionHeld, loadVars
<1>4. CASE TestTime
    BY <1>4 DEF TestTime, HeldInv, SolutionHeld, StartHolds, loadVars, timeVars, solverVars
<1>5. CASE Attempt
  <2>1. returned = "nothing" /\ UNCHANGED returned
      BY <1>5 DEF Attempt, Inv, SearchInv, callVars
  <2>2. (at' = "solving" /\ cands' = {}) \/ (at' = "taking" /\ answer'.rc = -1)
      BY <1>5 DEF Attempt, Solver!Ask, Solver!Refuse, Solver!Refused
  <2> QED BY <2>1, <2>2 DEF HeldInv, SolutionHeld
<1>6. CASE Collect
  <2>1. PICK c \in Configurations(mech.couplings) : Solver!Collect(c)
      BY <1>6 DEF Collect
  <2>2. /\ at = "solving" /\ IsAnswer(mech, query, c) /\ cands' = cands \cup {c}
        /\ UNCHANGED <<robot, plugin, request, start, solution, returned, at, mech, query>>
      BY <1>6, <2>1 DEF Collect, Solver!Collect, loadVars, callVars, timeVars
  <2>3. StartHolds => GroupHolds(robot, c)
      BY <2>2, CollectedHeld
  <2> QED BY <2>2, <2>3 DEF HeldInv, SolutionHeld, StartHolds
<1>7. CASE Expire
    BY <1>7 DEF Expire, Solver!Expire, HeldInv, SolutionHeld, StartHolds, loadVars, callVars, timeVars
<1>8. CASE Answered
  <2>1. /\ at = "solving" /\ at' = "taking"
        /\ UNCHANGED <<robot, plugin, request, start, solution, returned, mech, query>>
      BY <1>8 DEF Answered, Solver!Answer, loadVars, callVars, timeVars
  <2>2. answer'.rc >= 0 => answer'.q_out \in cands
    <3>1. CASE answer' = [rc |-> -3, q_out |-> query.seed]
        BY <3>1
    <3> QED BY <1>8, <3>1 DEF Answered, Solver!Answer
  <2> QED BY <2>1, <2>2 DEF HeldInv, SolutionHeld, StartHolds
<1>9. CASE Take
  <2>1. /\ at = "taking" /\ at' \in {"testing", "judging", "idle"} /\ returned = "nothing"
        /\ UNCHANGED <<robot, plugin, request, start, mech, query>>
        /\ at' \in {"judging", "idle"} => answer.rc >= 0 /\ solution' = answer.q_out
        /\ at' # "idle" => returned' = "nothing"
      BY <1>9 DEF Take, Inv, SearchInv, loadVars, timeVars, solverVars
  <2> QED BY <2>1 DEF HeldInv, SolutionHeld, StartHolds
<1>10. CASE Judge
    BY <1>10 DEF Judge, Inv, SearchInv, HeldInv, SolutionHeld, StartHolds, loadVars, timeVars, solverVars
<1>11. CASE Tick
    BY <1>11 DEF Tick, HeldInv, SolutionHeld, StartHolds, loadVars, callVars, solverVars
<1>12. CASE UNCHANGED vars
    BY <1>12 DEF vars, loadVars, callVars, timeVars, solverVars, HeldInv, SolutionHeld, StartHolds
<1> QED BY <1>1, <1>2, <1>3, <1>4, <1>5, <1>6, <1>7, <1>8, <1>9, <1>10, <1>11, <1>12 DEF Next, Step

-----------------------------------------------------------------------------
(* What a solver is given.                                                 *)

\* The chain of a plugin that loaded is one a solver can be constructed for.
LEMMA ChainConstructible ==
  ASSUME NEW l \in Loads, NEW p, p = Initialized(l.robot, l.params), p.active
  PROVE  Constructible(ChainOf(l.robot, p))
<1> DEFINE g == ChainOf(l.robot, p)
           m == Initialize(g)
<1>1. PICK n, names, d, lb, ub :
        /\ n = Cardinality(VariableAt(l.robot)) /\ names = VariableJoints(l.robot)
        /\ d = Couplings(l.robot, names, n) /\ lb = Folded(l.robot, names, n)[1]
        /\ ub = Folded(l.robot, names, n)[2]
        /\ m.own_lb = lb /\ m.own_ub = ub /\ p.couplings = d
        /\ n \in Nat /\ d \in Seq(Coupling)
        /\ \A i \in 1..n : m.rev[i] \in Nat \ {0}
    BY SolverRead
<1>2. DOMAIN names = 1..n
    BY <1>1, LoadedSize
<1>3. /\ g.kinds = [i \in 1..n |-> Kind(l.robot.urdf[names[i]])]
      /\ g.rev = [i \in 1..n |-> l.robot.urdf[names[i]].rev]
      /\ g.lb = p.joint_min /\ g.ub = p.joint_max /\ g.couplings = d
    BY <1>1, <1>2 DEF ChainOf
<1>4. m.rev = g.rev /\ m.own_lb = g.lb /\ m.own_ub = g.ub
    BY DEF Initialize
<1>5. /\ lb \in Seq(Int) /\ Len(lb) = n /\ ub \in Seq(Int) /\ Len(ub) = n
    BY <1>1, FoldedTyped
<1> HIDE DEF g, m
<1>6. g.kinds \in Seq({"Rot", "Trans"}) /\ Len(g.kinds) = n /\ DOMAIN g.kinds = 1..n
  <2>1. g.kinds \in [1..n -> {"Rot", "Trans"}]
      BY <1>3 DEF Kind
  <2> QED BY <1>1, <2>1, FunctionIsSequence
<1>7. g.rev \in [DOMAIN g.kinds -> Nat \ {0}]
    BY <1>1, <1>3, <1>4, <1>6
<1> QED BY <1>1, <1>3, <1>4, <1>5, <1>6, <1>7 DEF Constructible, g

\* A seed drawn for the robot of a plugin that loaded is one number per joint.
LEMMA DrawnSeed ==
  ASSUME PositionsInRange, NEW l \in Loads, NEW n, n = Cardinality(VariableAt(l.robot)),
         ChainInGroup(l.robot, VariableJoints(l.robot), n), NEW s \in RandomSeeds(l.robot, n)
  PROVE  s \in Seq(Int) /\ Len(s) = n
<1> DEFINE r == l.robot
           names == VariableJoints(r)
<1>1. /\ n \in Nat /\ Len(names) = n /\ DOMAIN names = 1..n
    BY LoadedSize
<1>2. PICK state \in RandomStates(r, n) : s = [i \in 1..n |-> VariableIn(r, state, i)]
    BY DEF RandomSeeds
<1>3. Positions \subseteq Int
    BY DEF PositionsInRange, Position
<1>4. r.variables \in Seq(DOMAIN r.model) /\ n <= Len(r.variables)
  <2>1. Range(names) \subseteq DOMAIN r.model
      BY <1>1 DEF ChainInGroup, Range
  <2> QED BY <1>1, <2>1, RobotsAssumption
<1>5. ASSUME NEW i \in 1..n PROVE state[DrawnFor(r, i)] \in Int
    BY <1>2, <1>3 DEF RandomStates
<1>6. ASSUME NEW i \in 1..n PROVE VariableIn(r, state, i) \in Int
  <2> DEFINE j == r.variables[i]
             x == state[DrawnFor(r, i)]
  <2>1. j \in DOMAIN r.model
      BY <1>1, <1>4
  <2>2. r.model[j].multiplier \in Int /\ r.model[j].offset \in Int
      BY <2>1, RobotsAssumption DEF CouplingOf, Coupling
  <2>3. x \in Int
      BY <1>5
  <2>4. VariableIn(r, state, i) = x
          \/ VariableIn(r, state, i) = r.model[j].multiplier * x + r.model[j].offset
      BY DEF VariableIn, Couple
  <2> HIDE DEF j, x
  <2> QED BY <2>2, <2>3, <2>4
<1> HIDE DEF r, names
<1>7. s \in [1..n -> Int]
    BY <1>2, <1>6
<1> QED BY <1>1, <1>7, FunctionIsSequence

\* The bounds asked of a solver are the folded ones.
LEMMA LoadAsksExactly ==
  ASSUME LimitsInTicks, NEW l \in Loads, NEW p, p = Initialized(l.robot, l.params), p.active,
         NEW q, ~PerCallBounds(q)
  PROVE  AsksExactly(Initialize(ChainOf(l.robot, p)), q)
<1> DEFINE m == Initialize(ChainOf(l.robot, p))
<1>1. PICK n, names, d, lb, ub :
        /\ n = Cardinality(VariableAt(l.robot)) /\ names = VariableJoints(l.robot)
        /\ d = Couplings(l.robot, names, n) /\ lb = Folded(l.robot, names, n)[1]
        /\ ub = Folded(l.robot, names, n)[2]
        /\ ChainInGroup(l.robot, names, n)
        /\ m.couplings = d /\ m.own_lb = lb /\ m.own_ub = ub
    BY SolverRead
<1>2. ExactBounds(d, AsBounds(lb), AsBounds(ub))
    BY <1>1, FoldedInTicks
<1> HIDE DEF m
<1>3. AskedBounds(m, q)[1] = lb /\ AskedBounds(m, q)[2] = ub
    BY <1>1 DEF AskedBounds
<1> QED BY <1>1, <1>2, <1>3 DEF AsksExactly, AsBounds, m

-----------------------------------------------------------------------------
(* The theorems.                                                           *)

\* What a plugin is, in every state: its lists go together, and so does what the
\* caller was given.
THEOREM TypeCorrect == Spec => []TypeOK
<1>1. ASSUME Inv, plugin = Unloaded PROVE TypeOK
    BY <1>1 DEF Inv, LoadInv, SearchInv, TimeInv, SolutionInv, TypeOK, Unloaded
<1>2. ASSUME Inv, plugin # Unloaded PROVE TypeOK
  <2>1. PICK l \in Loads : robot = l.robot /\ plugin = Initialized(l.robot, l.params)
      BY <1>2 DEF Inv, LoadInv
  <2>2. plugin.active \in BOOLEAN
      BY <2>1 DEF Initialized
  <2>3. plugin.num_joints \in Nat
      BY <2>1, LoadedSize DEF Initialized
  <2>4. ASSUME plugin.active
        PROVE  /\ DOMAIN plugin.joint_min = 1..plugin.num_joints
               /\ DOMAIN plugin.joint_max = 1..plugin.num_joints
               /\ plugin.couplings \in Seq(Coupling)
      BY <2>1, <2>4, LoadRead, CouplingsTyped
  <2>5. /\ at # "idle" => Len(start) = plugin.num_joints
        /\ at \in {"idle", "testing", "asking", "solving", "taking", "judging"}
        /\ left \in Nat /\ budget \in Nat
        /\ Len(solution) \in {0, plugin.num_joints}
        /\ returned \in {"nothing", "true", "false"}
      BY <1>2 DEF Inv, SearchInv, TimeInv, SolutionInv
  <2> QED BY <2>2, <2>3, <2>4, <2>5 DEF TypeOK
<1>3. Inv => TypeOK
    BY <1>1, <1>2
<1> QED BY <1>3, InvInvariant, PTL

\* The robot and plugin at hand are of a load, and a configuration of as many
\* entries as the plugin has joints is rebuilt as MoveIt holds it.
LEMMA LoadedHolds ==
  ASSUME LoadInv, plugin.active, NEW c, DOMAIN c = 1..plugin.num_joints
  PROVE  /\ RebuildMimicEntries(plugin.couplings, c) = Held(robot, c)
         /\ Repair(plugin.couplings, c) = Held(robot, c)
<1>1. plugin # Unloaded
    BY DEF Unloaded
<1>2. PICK l \in Loads : robot = l.robot /\ plugin = Initialized(l.robot, l.params)
    BY <1>1 DEF LoadInv
<1>3. /\ plugin.num_joints = Cardinality(VariableAt(l.robot))
      /\ plugin.couplings = Couplings(l.robot, VariableJoints(l.robot), plugin.num_joints)
      /\ ChainInGroup(l.robot, VariableJoints(l.robot), plugin.num_joints)
      /\ Valid(plugin.couplings)
    BY <1>2, LoadRead
<1> DEFINE n == plugin.num_joints
           d == plugin.couplings
           r == l.robot
<1>4. /\ n = Cardinality(VariableAt(r)) /\ d = Couplings(r, VariableJoints(r), n)
      /\ ChainInGroup(r, VariableJoints(r), n) /\ Valid(d) /\ DOMAIN c = 1..n
    BY <1>3
<1>5. RebuildMimicEntries(d, c) = Held(r, c) /\ Repair(d, c) = Held(r, c)
  <2> HIDE DEF n, d
  <2> QED BY <1>4, HeldRebuilt
<1> QED BY <1>2, <1>5

\* Entry i of a configuration is the same joint to KDL, to the couplings and to
\* MoveIt, whatever is in the chain (initialize, 102-171).
THEOREM EntriesAreJoints == Spec => []IndicesAgree
<1> SUFFICES ASSUME Inv, plugin.active
             PROVE  /\ plugin.joint_names = VariableJoints(robot)
                    /\ \A c \in [1..plugin.num_joints -> 0..1] :
                         RebuildMimicEntries(plugin.couplings, c) = Held(robot, c)
    BY InvInvariant, PTL DEF IndicesAgree
<1>1. plugin # Unloaded
    BY DEF Unloaded
<1>2. PICK l \in Loads : robot = l.robot /\ plugin = Initialized(l.robot, l.params)
    BY <1>1 DEF Inv, LoadInv
<1>3. plugin.joint_names = VariableJoints(robot)
    BY <1>2, LoadRead
<1>4. \A c \in [1..plugin.num_joints -> 0..1] :
        RebuildMimicEntries(plugin.couplings, c) = Held(robot, c)
    BY LoadedHolds DEF Inv
<1> QED BY <1>3, <1>4

\* Forward kinematics is of the configuration MoveIt will hold (getPositionFK,
\* 374-383).
THEOREM KinematicsAsHeld == Spec => []FkAsHeld
<1>1. ASSUME Inv, plugin.active, NEW f \in FkRequests,
             PositionFK(robot, plugin, f.links, f.angles).ok, NEW k \in DOMAIN f.links
      PROVE  PositionFK(robot, plugin, f.links, f.angles).poses[k]
               = LinkPose(SegmentOf(robot, f.links[k]), Held(robot, f.angles))
  <2>1. Len(f.angles) = plugin.num_joints
      BY <1>1 DEF PositionFK
  <2>2. DOMAIN f.angles = 1..plugin.num_joints
      BY <2>1, FkAssumption
  <2>3. Repair(plugin.couplings, f.angles) = Held(robot, f.angles)
      BY <1>1, <2>2, LoadedHolds DEF Inv
  <2>4. PositionFK(robot, plugin, f.links, f.angles).poses[k]
          = LinkPose(SegmentOf(robot, f.links[k]), Repair(plugin.couplings, f.angles))
      BY <1>1, <2>1 DEF PositionFK
  <2> QED BY <2>3, <2>4
<1>2. Inv => FkAsHeld
    BY <1>1 DEF FkAsHeld
<1> QED BY <1>2, InvInvariant, PTL

\* A plugin that loaded gives its solvers bounds that admit exactly the
\* configurations in which every joint of the group is inside its own, whatever
\* the robot, the couplings and the joints beside the chain
\* (foldOutOfChainMimicBounds, and the constructor of the solver after it).
THEOREM BoundsAdmit ==
  ASSUME LimitsInTicks, PositionsInRange PROVE Spec => BoundsAdmitExactly
<1>1. ASSUME [Next]_vars, plugin' # plugin, plugin'.active,
             NEW c \in Configurations(plugin'.couplings),
             NEW m, m = Initialize(ChainOf(robot', plugin'))
      PROVE  (\A i \in DOMAIN c : m.lb[i] <= c[i] /\ c[i] <= m.ub[i]) <=> GroupHolds(robot', c)
  <2>1. PICK l \in Loads : robot' = l.robot /\ plugin' = Initialized(l.robot, l.params)
      BY <1>1, OnlyLoad
  <2>2. (\A i \in DOMAIN c : Inside(c[i], m.lb[i], m.ub[i])) <=> GroupHolds(l.robot, c)
      BY <1>1, <2>1, LoadAdmits
  <2> QED BY <2>1, <2>2 DEF Inside
<1>2. [Next]_vars =>
        [plugin' # plugin /\ plugin'.active =>
           LET m == Initialize(ChainOf(robot', plugin')) IN
           \A c \in Configurations(plugin'.couplings) :
             (\A i \in DOMAIN c : m.lb[i] <= c[i] /\ c[i] <= m.ub[i]) <=> GroupHolds(robot', c)]_plugin
    BY <1>1
<1> QED BY <1>2, PTL DEF Spec, BoundsAdmitExactly

\* A robot whose joints can be indexed and that some configuration would satisfy
\* is not refused: never for a joint the group does not have, and never for
\* bounds that leave room (initialize, buildCouplings).
THEOREM RefusalsHaveReasons ==
  ASSUME LimitsInTicks, PositionsInRange PROVE Spec => RefusedForAReason
<1>1. ASSUME NEW l \in Loads, Indexable(l.robot),
             NEW c \in Configurations(Couplings(l.robot, VariableJoints(l.robot),
                                                Len(VariableJoints(l.robot)))),
             GroupHolds(l.robot, c)
      PROVE  Initialized(l.robot, l.params).active
  <2>1. PICK n, names, d, lb, ub, t :
          /\ n = Cardinality(VariableAt(l.robot)) /\ names = VariableJoints(l.robot)
          /\ d = Couplings(l.robot, names, n) /\ lb = Folded(l.robot, names, n)[1]
          /\ ub = Folded(l.robot, names, n)[2] /\ t = Tighten(d, lb, ub)
      OBVIOUS
  <2>2. /\ Misfits(l.robot) = {} /\ ChainInGroup(l.robot, names, n)
        /\ Valid(d) /\ SinglyOutside(l.robot)
      BY <1>1, <2>1, IndexableFits, IndexableValid
  <2>3. Len(VariableJoints(l.robot)) = n
      BY <2>1, LoadedSize
  <2>4. PICK r \in [Active(d) -> Positions] : c = Expand(d, r)
      BY <1>1, <2>1, <2>3 DEF Configurations
  <2>5. t.ok /\ AllFold(l.robot, names, n)
    <3>1. InRange(l.robot, Expand(d, r))
        BY <2>1, <2>2, ConfigurationsInRange
    <3> QED BY <1>1, <2>1, <2>2, <2>4, <3>1, TightenedAdmit
  <2>6. l.robot.tips = 1 /\ l.robot.connected
      BY <1>1 DEF Indexable
  <2> QED BY <2>1, <2>2, <2>5, <2>6, LoadSucceeds
<1>2. [Next]_vars =>
        [plugin' # plugin /\ ~plugin'.active /\ Indexable(robot') =>
           LET names == VariableJoints(robot') IN
           \A c \in Configurations(Couplings(robot', names, Len(names))) : ~GroupHolds(robot', c)]_plugin
  <2> SUFFICES ASSUME [Next]_vars, plugin' # plugin, ~plugin'.active, Indexable(robot'),
                      NEW c \in Configurations(Couplings(robot', VariableJoints(robot'),
                                                         Len(VariableJoints(robot')))),
                      GroupHolds(robot', c)
               PROVE  FALSE
      OBVIOUS
  <2>1. PICK l \in Loads : robot' = l.robot /\ plugin' = Initialized(l.robot, l.params)
      BY OnlyLoad
  <2> QED BY <1>1, <2>1
<1> QED BY <1>2, PTL DEF Spec, RefusedForAReason

\* A search that starts where the group can be returns only where it can be, with
\* the joints outside the chain, although a solver may answer with the seed
\* itself, normalised (searchPositionIK, 562-615; ChainIkSolverPos_TL::CartToJnt).
THEOREM SolutionsHeld ==
  ASSUME LimitsInTicks, PositionsInRange, SeedsInRange PROVE Spec => []SolutionHeld
<1>1. Init => HeldInv
    BY DEF Init, HeldInv, SolutionHeld
<1>2. Inv /\ StartInv /\ HeldInv /\ [Next]_vars => HeldInv'
    BY HeldInvStep
<1>3. HeldInv => SolutionHeld
    BY DEF HeldInv
<1> QED BY <1>1, <1>2, <1>3, InvInvariant, StartInvariant, PTL DEF Spec

\* No call of a plugin that loaded is refused by the solver it makes, whatever
\* the robot: the checks of the load are the constructor's (initialize, 562-565).
THEOREM SolversTakeAll == Spec => []SolverNeverRefuses
<1>1. Inv => SolverNeverRefuses
    BY DEF Inv, AttemptInv, SolverNeverRefuses
<1> QED BY <1>1, InvInvariant, PTL

\* Each solver a search constructs, and each question it puts to one, is as the
\* theorems about the racer assume: a mechanism of one kind, revolution and pair of
\* bounds per joint, a seed of numbers whether the caller's or drawn, time that is
\* not negative, and bounds that the couplings map to whole ticks (562-572).
THEOREM SolversAsked ==
  ASSUME LimitsInTicks, PositionsInRange PROVE Spec => []SolverAskedAsAssumed
<1>1. ASSUME Inv, StartInv, at = "asking" PROVE SolverAskedAsAssumed
  <2> DEFINE g == ChainOf(robot, plugin)
             q == QueryOf(plugin, request, start, left)
  <2>1. /\ plugin.active /\ mech = Initialize(g) /\ Len(start) = plugin.num_joints /\ left \in Nat
      BY <1>1 DEF Inv, SearchInv, TimeInv
  <2>2. PICK l \in Loads : robot = l.robot /\ plugin = Initialized(l.robot, l.params)
      BY <1>1, <2>1 DEF Inv, LoadInv, Unloaded
  <2>3. Constructible(g)
      BY <2>1, <2>2, ChainConstructible
  <2>4. WellFormed(mech, q)
      BY <1>1, Asked
  <2>5. ~PerCallBounds(q)
      BY DEF QueryOf, PerCallBounds
  <2>6. AsksExactly(mech, q)
      BY <2>1, <2>2, <2>5, LoadAsksExactly
  <2>7. start \in Seq(Int)
    <3>1. CASE start = request.seed
        BY <1>1, <3>1, RequestsAssumption DEF StartInv
    <3>2. CASE start \in RandomSeeds(robot, plugin.num_joints)
      <4>1. /\ plugin.num_joints = Cardinality(VariableAt(l.robot))
            /\ ChainInGroup(l.robot, VariableJoints(l.robot), Cardinality(VariableAt(l.robot)))
          BY <2>1, <2>2, LoadRead
      <4> QED BY <2>2, <3>2, <4>1, DrawnSeed
    <3> QED BY <1>1, <3>1, <3>2 DEF StartInv
  <2>8. plugin.params.epsilon \in Int
    <3>1. plugin.params = l.params
        BY <2>2 DEF Initialized
    <3> QED BY <3>1, RobotsAssumption
  <2>9. Askable(q)
    <3>1. /\ q.seed = start /\ q.timeout = left /\ q.epsilon = plugin.params.epsilon
          /\ q.solve_type = SolveType(plugin.params.solve_type)
          /\ q.q_min = <<>> /\ q.q_max = <<>>
        BY DEF QueryOf
    <3>2. SolveType(plugin.params.solve_type) \in SolveTypes
        BY DEF SolveType, SolveTypes, Manip
    <3> HIDE DEF q
    <3> QED BY <2>1, <2>7, <2>8, <3>1, <3>2 DEF Askable
  <2> QED BY <2>1, <2>3, <2>4, <2>6, <2>9 DEF SolverAskedAsAssumed
<1>2. Inv /\ StartInv => SolverAskedAsAssumed
    BY <1>1 DEF SolverAskedAsAssumed
<1> QED BY <1>2, InvInvariant, StartInvariant, PTL

\* No attempt is given time beyond the end of its search (searchPositionIK, 571).
THEOREM AttemptsOnTime == Spec => []OnTime
<1>1. Inv => OnTime
    BY DEF Inv, TimeInv, OnTime
<1> QED BY <1>1, InvInvariant, PTL

\* What IkSearch sees of an idle plugin and a search in progress.
LEMMA PromiseInit == ASSUME Init PROVE Promise!Init
BY DEF Init, Promise!Init, Promise!Pending

\* initialize is a Load: it leaves something in the members either way.
LEMMA LoadKeepsPromise ==
  ASSUME Inv, NEW l \in Loads, Load(l.robot, l.params)
  PROVE  Promise!Load
<1>1. plugin' # Unloaded
  <2>1. "params" \in DOMAIN plugin' /\ "params" \notin DOMAIN Unloaded
      BY DEF Load, Initialized, Unloaded
  <2> QED BY <2>1
<1>2. plugin = Unloaded /\ UNCHANGED <<request, at, left, returned, error_code, solution>>
    BY DEF Load, callVars, timeVars
<1> QED BY <1>1, <1>2 DEF Promise!Load

\* The two outcomes of asking.
LEMMA AskKeepsPromise ==
  ASSUME Inv, NEW q \in Requests, Search(q) \/ RefuseSearch(q)
  PROVE  Promise!Ask(q) \/ Promise!Refuse(q)
<1>1. CASE Search(q)
  <2>1. Promise!Ask(q)
      BY <1>1 DEF Search, loadVars, Promise!Ask, Promise!Pending
  <2> QED BY <2>1
<1>2. CASE RefuseSearch(q)
  <2>1. Promise!Refuse(q)
      BY <1>2 DEF RefuseSearch, loadVars, timeVars, Promise!Refuse, Promise!Failed
  <2> QED BY <2>1
<1> QED BY <1>1, <1>2

\* The loop is left at the end of the time, and not before.
LEMMA TestTimeKeepsPromise ==
  ASSUME Inv, TestTime
  PROVE  Promise!Fail \/ UNCHANGED Promise!vars
<1>1. left \in Nat /\ returned = "nothing" /\ at = "testing"
    BY DEF TestTime, Inv, TimeInv, SearchInv
<1>2. CASE left > 0
    BY <1>1, <1>2 DEF TestTime, loadVars, timeVars, Promise!vars
<1>3. CASE left = 0
  <2>1. /\ at' = "idle" /\ returned' = "false" /\ error_code' = "NO_IK_SOLUTION"
        /\ UNCHANGED <<plugin, request>>
      BY <1>3 DEF TestTime, loadVars
  <2>2. Promise!Fail
      BY <1>1, <1>3, <2>1 DEF Promise!Fail, Promise!Failed
  <2> QED BY <2>2
<1> QED BY <1>1, <1>2, <1>3

\* What the solver does is not seen.
LEMMA SolverKeepsPromise ==
  ASSUME Inv, Attempt \/ Collect \/ Expire \/ Answered
  PROVE  UNCHANGED Promise!vars
BY DEF Attempt, Collect, Expire, Answered, loadVars, callVars, timeVars, Promise!vars

\* An answer that reaches the pose is what the search returns if nobody judges it.
LEMMA TakeKeepsPromise ==
  ASSUME Inv, Take
  PROVE  Promise!Succeed \/ UNCHANGED Promise!vars
<1>1. at = "taking" /\ returned = "nothing"
      /\ UNCHANGED <<plugin, request, error_code, left>>
    BY DEF Take, Inv, SearchInv, loadVars, timeVars
<1>2. CASE at' # "idle"
    BY <1>1, <1>2 DEF Take, Promise!vars
<1>3. CASE at' = "idle"
  <2>1. /\ answer.rc >= 0 /\ request.callback = NoCallback /\ returned' = "true"
        /\ solution' = answer.q_out
      BY <1>3 DEF Take
  <2>2. Answers(plugin, request, solution')
      BY <1>1, <2>1 DEF Inv, AttemptInv, Reaches, Answers
  <2>3. error_code = request.error_code
      BY <1>1, <2>1 DEF Inv, SearchInv
  <2>4. Promise!Succeed
      BY <1>1, <1>3, <2>1, <2>2, <2>3 DEF Promise!Succeed
  <2> QED BY <2>4
<1> QED BY <1>2, <1>3

\* An answer the callback accepts is, too; if it wrote nothing, the code was the
\* caller's own, as no candidate before can have left SUCCESS.
LEMMA JudgeKeepsPromise ==
  ASSUME Inv, Judge
  PROVE  Promise!Succeed \/ UNCHANGED Promise!vars
<1>1. /\ at = "judging" /\ returned = "nothing" /\ Reaches(solution)
      /\ request.callback # NoCallback
      /\ UNCHANGED <<plugin, request, solution, left>>
    BY DEF Judge, Inv, SearchInv, AttemptInv, loadVars, timeVars
<1>2. CASE error_code' # "SUCCESS"
    BY <1>1, <1>2 DEF Judge, Promise!vars
<1>3. CASE error_code' = "SUCCESS"
  <2>1. at' = "idle" /\ returned' = "true" /\ Verdict(solution) = "SUCCESS"
      BY <1>3 DEF Judge
  <2>2. error_code = "SUCCESS" => request.error_code = "SUCCESS"
      BY <1>1 DEF Inv, SearchInv
  <2>3. \/ Writes(request.callback, solution) = "SUCCESS"
        \/ Writes(request.callback, solution) = Silent /\ request.error_code = "SUCCESS"
      BY <2>1, <2>2 DEF Verdict
  <2>4. Answers(plugin, request, solution')
      BY <1>1, <2>3 DEF Reaches, Answers
  <2>5. Promise!Succeed
      BY <1>1, <1>3, <2>1, <2>4 DEF Promise!Succeed
  <2> QED BY <2>5
<1> QED BY <1>2, <1>3

\* Time that runs out is seen, other time is not.
LEMMA TickKeepsPromise ==
  ASSUME Inv, Tick
  PROVE  Promise!Expire \/ UNCHANGED Promise!vars
<1>1. at # "idle" /\ left \in Nat
      /\ UNCHANGED <<plugin, request, at, returned, error_code, solution>>
    BY DEF Tick, Inv, TimeInv, loadVars, callVars
<1>2. CASE left = 0 \/ left > 1
    BY <1>1, <1>2 DEF Tick, Spent, Promise!vars
<1>3. CASE left = 1
  <2>1. left' = 0
      BY <1>3 DEF Tick, Spent
  <2>2. Promise!Expire
      BY <1>1, <1>3, <2>1 DEF Promise!Expire
  <2> QED BY <2>2
<1> QED BY <1>1, <1>2, <1>3

\* Every search of every plugin ends as IkSearch allows, whatever the callback
\* says and whichever of its answers the solver gives (searchPositionIK).
THEOREM IsSearch == Spec => KeepsSearchPromise
<1>1. Init => Promise!Init
    BY PromiseInit
<1>2. Inv /\ [Next]_vars => [Promise!Next]_(Promise!vars)
  <2> SUFFICES ASSUME Inv, [Next]_vars
               PROVE  Promise!Next \/ UNCHANGED Promise!vars
      OBVIOUS
  <2>1. CASE UNCHANGED vars
      BY <2>1 DEF vars, loadVars, callVars, timeVars, Promise!vars
  <2>2. ASSUME NEW l \in Loads, Load(l.robot, l.params)
        PROVE  Promise!Next
      BY <2>2, LoadKeepsPromise DEF Promise!Next
  <2>3. ASSUME NEW q \in Requests, Search(q) \/ RefuseSearch(q)
        PROVE  Promise!Next
      BY <2>3, AskKeepsPromise DEF Promise!Next
  <2>4. CASE Step \/ Collect \/ Tick
      BY <2>4, TestTimeKeepsPromise, SolverKeepsPromise, TakeKeepsPromise, JudgeKeepsPromise,
         TickKeepsPromise DEF Step, Promise!Next
  <2> QED BY <2>1, <2>2, <2>3, <2>4 DEF Next
<1> QED BY <1>1, <1>2, InvInvariant, PTL DEF Spec, KeepsSearchPromise, Promise!SafeSpec

=============================================================================
