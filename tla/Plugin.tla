---------------------------------- MODULE Plugin ----------------------------------
(***************************************************************************)
(* TRAC_IKKinematicsPlugin: what MoveIt loads for a group of a robot and   *)
(* then asks for configurations.  Loading reads the chain from the URDF    *)
(* and the couplings and groups from MoveIt's robot model; a search asks a *)
(* solver of its own, which is IkQuery here, again and again until a       *)
(* configuration passes the caller's callback or time is up.               *)
(*                                                                         *)
(* A robot r is a record with                                              *)
(*   tips, connected : number of tip frames, and is there a chain to one,  *)
(*   chain  : its segments, <<[link, joint], ...>>,                        *)
(*   urdf   : for a joint of the chain its type, limits and revolution,    *)
(*            "soft" if it has a safety controller with limits too,        *)
(*   model  : for every joint its variables, bounds, and which joint it    *)
(*            mimics how, as MoveIt holds them,                            *)
(*   group  : the joints of the group, none if there is no such group,     *)
(*   variables : the joint of each variable, in the order of the model.    *)
(* MoveIt makes a new plugin for each group it loads, so one loads once.   *)
(***************************************************************************)
EXTENDS Query, SequencesExt

CONSTANTS
  Loads,             \* what is loaded: a robot and the parameters of the solver
  Requests,          \* what may be searched for
  FkRequests,        \* links and joint angles forward kinematics is asked of
  Positions,         \* positions a joint may be found in or seeded with
  DefaultTimeout,    \* of KinematicsBase
  Writes(_, _),      \* the error code a callback writes for a configuration,
                     \* Silent if it leaves the code as it is
  LinkPose(_, _),    \* pose of a segment, by its number from the base
  Loosened(_)        \* a pose with its orientation left free

ASSUME RequestsAssumption ==
  DefaultTimeout \in Nat /\ \A q \in Requests : q.timeout \in Nat /\ q.seed \in Seq(Int)

NoJoint    == "none"
NoCallback == "none"
Silent     == "silent"
NoRobot    == [chain |-> <<>>]
Unloaded   == [active |-> FALSE, num_joints |-> 0]

VARIABLES
  robot,      \* the robot loaded
  plugin,     \* what initialize left in the members
  request,    \* the search's arguments
  at,         \* where the search is
  start,      \* the seed of the next attempt ("in" in the code)
  left,       \* time to end_time
  budget,     \* time left of the attempt in progress
  solution, error_code,  \* the caller's, written on the way
  returned,   \* what the last search returned
  \* the solver of the search
  mech, query, searching, expired, cands, answer

loadVars   == <<robot, plugin>>
timeVars   == <<left, budget>>
callVars   == <<request, start, solution, error_code, returned>>
solverVars == <<mech, query, searching, expired, cands, answer>>
vars == <<loadVars, callVars, at, timeVars, solverVars>>

-----------------------------------------------------------------------------
(* Reading the chain.                                                      *)

Movable(u)     == u.type \notin {"fixed", "unknown"}
\* kdl_parser makes a fixed joint of a planar or floating one.
HasVariable(u) == u.type \in {"revolute", "continuous", "prismatic"}

JointOf(r, k)  == r.urdf[r.chain[k].joint]
MovableAt(r)   == {k \in DOMAIN r.chain : Movable(JointOf(r, k))}
VariableAt(r)  == {k \in DOMAIN r.chain : HasVariable(JointOf(r, k))}
UpTo(S, k)     == {l \in S : l <= k}

\* The joints of some segments, in the order of the segments.
Nth(S, i)      == CHOOSE k \in S : Cardinality(UpTo(S, k)) = i
JointsAt(r, S) == [i \in 1..Cardinality(S) |-> r.chain[Nth(S, i)].joint]

VariableJoints(r) == JointsAt(r, VariableAt(r))

\* Chains are sequences of segments, each with a joint of its own.
ASSUME LoadsAssumption ==
  \A l \in Loads : LET chain == l.robot.chain IN
    /\ Len(chain) \in Nat /\ DOMAIN chain = 1..Len(chain)
    /\ \A k \in DOMAIN chain : chain[k].joint # NoJoint
    /\ \A j, k \in DOMAIN chain : chain[j].joint = chain[k].joint => j = k

\* Fault: a joint need not have a variable of the chain's.
MisfitNever(r, k) == FALSE

\* A movable joint to which no single entry of a configuration corresponds.
Misfit(r, k) ==
  LET j == r.chain[k].joint IN
  /\ Movable(JointOf(r, k))
  /\ \/ j \in DOMAIN r.model /\ r.model[j].variables # 1
     \/ Cardinality(UpTo(MovableAt(r), k)) > Cardinality(VariableAt(r))

Misfits(r) == {k \in DOMAIN r.chain : Misfit(r, k)}

\* The segments read: up to the first misfit, whose link is noted and whose joint is not.
LinksRead(r) == {k \in DOMAIN r.chain : \A l \in Misfits(r) : k <= l}
ReadFully(r) == LinksRead(r) \ Misfits(r)

\* Fault: the safety controller's upper limit is left out.
OwnUpperHard(u) == IF u.type = "continuous" THEN Sentinel ELSE u.upper

\* The narrower of the limits and the safety controller's, and no limits for a
\* continuous joint.
OwnLower(u) == IF u.type = "continuous" THEN -Sentinel
               ELSE IF u.soft THEN Max({u.lower, u.soft_lower}) ELSE u.lower
OwnUpper(u) == IF u.type = "continuous" THEN Sentinel
               ELSE IF u.soft THEN Min({u.upper, u.soft_upper}) ELSE u.upper

-----------------------------------------------------------------------------
(* buildCouplings and foldOutOfChainMimicBounds.                           *)

IndexIn(names, j) == Min({i \in DOMAIN names : names[i] = j})

CouplingOf(j, index) ==
  [mimicked |-> index, multiplier |-> j.multiplier, offset |-> j.offset,
   finite |-> j.finite, variable_count |-> j.variables]

Couplings(r, names, n) ==
  [i \in 1..n |->
     LET j == r.model[names[i]] IN
     IF j.mimics = NoJoint THEN [ActiveJoint EXCEPT !.variable_count = j.variables]
                           ELSE CouplingOf(j, IndexIn(names, j.mimics))]

\* Limits and couplings are numbers, and MoveIt has replaced what follows a joint
\* that follows another (the comment before buildCouplings).  Of a chain it has
\* the joints of it has the variables, too.
ASSUME RobotsAssumption ==
  \A l \in Loads : LET r == l.robot IN
    /\ l.params.epsilon \in Int
    /\ r.group \subseteq DOMAIN r.model /\ IsFiniteSet(DOMAIN r.model)
    /\ r.variables \in Seq(DOMAIN r.model)
    /\ Range(VariableJoints(r)) \subseteq DOMAIN r.model =>
         Len(VariableJoints(r)) <= Len(r.variables)
    /\ \A j \in DOMAIN r.model : LET f == r.model[j] IN
         /\ CouplingOf(f, Own) \in Coupling
         /\ f.mimics # NoJoint =>
              f.mimics \in DOMAIN r.model /\ r.model[f.mimics].mimics = NoJoint
         /\ f.bounded => f.min \in Position /\ f.max \in Position
    /\ \A k \in VariableAt(r) : LET u == JointOf(r, k) IN
         /\ u.lower \in Position /\ u.upper \in Position
         /\ u.soft => u.soft_lower \in Position /\ u.soft_upper \in Position
         /\ u.rev \in Nat \ {0}

\* Every chain joint can be seeded, and the joint it mimics too.
ChainInGroup(r, names, n) ==
  /\ r.group # {}
  /\ \A i \in 1..n :
       /\ names[i] \in DOMAIN r.model /\ names[i] \in r.group
       /\ r.model[names[i]].mimics \in {NoJoint} \cup Range(names)

\* Fault: joints that are not in the group have a say, too.
MimicsAnywhere(r, names, i) ==
  {j \in DOMAIN r.model : r.model[j].mimics = names[i] /\ j \notin Range(names)}

\* The joints outside the chain that the search answers for with joint i.
MimicsOutside(r, names, i) ==
  {j \in r.group : r.model[j].mimics = names[i] /\ j \notin Range(names)}

\* Fault: whatever the mimic joint's bounds are, the chain joint keeps its own.
ThroughUntightened(r, j, lb, ub) == [ok |-> TRUE, lb |-> lb, ub |-> ub]

\* The interval a mimic joint outside the chain leaves [lb, ub].
Through(r, j, lb, ub) ==
  LET f == r.model[j] IN
  TightenThroughCoupling(CouplingOf(f, Own), IF f.bounded THEN f.min ELSE -Infinity,
                                             IF f.bounded THEN f.max ELSE Infinity, lb, ub)

\* All of them one after the other.  Each step intersects, so their order does
\* not matter, and one of them refuses exactly if nothing is left in the end.
Fold(r, names, i) ==
  LET own   == r.urdf[names[i]]
      all   == MimicsOutside(r, names, i)
      steps == {Through(r, j, OwnLower(own), OwnUpper(own)) : j \in all}
      lo    == Max({OwnLower(own)} \cup {s.lb : s \in steps})
      hi    == Min({OwnUpper(own)} \cup {s.ub : s \in steps})
  IN  [ok |-> /\ \A j \in all : r.model[j].variables = 1
              /\ \A s \in steps : s.ok
              /\ (\E j \in all : ~Pins(r.model[j])) => lo <= hi,
       lb |-> lo, ub |-> hi]

-----------------------------------------------------------------------------
(* initialize.  What a refusal leaves behind, besides the lists of names,  *)
(* is read by nobody.                                                      *)

\* Fault: the description is validated, the bounds are left to the library.
BuildsUntightened(d, lb, ub) == Valid(d)

\* The solver will take this description and find something to search.
Builds(d, lb, ub) == Valid(d) /\ Tighten(d, lb, ub).ok

Initialized(r, params) ==
  LET found == r.tips = 1 /\ r.connected
      names == IF found THEN JointsAt(r, MovableAt(r) \cap ReadFully(r)) ELSE <<>>
      n     == IF found THEN Cardinality(VariableAt(r)) ELSE 0
      folds == [i \in 1..n |-> Fold(r, names, i)]
      lb    == [i \in 1..n |-> folds[i].lb]
      ub    == [i \in 1..n |-> folds[i].ub]
      d     == Couplings(r, names, n)
      ok    == /\ found /\ Misfits(r) = {}
               /\ ChainInGroup(r, names, n)
               /\ \A i \in 1..n : folds[i].ok
               /\ Builds(d, lb, ub)
  IN  [active      |-> ok,
       joint_names |-> names,
       link_names  |-> IF found THEN [k \in LinksRead(r) |-> r.chain[k].link] ELSE <<>>,
       num_joints  |-> n,
       joint_min   |-> IF ok THEN lb ELSE <<>>,
       joint_max   |-> IF ok THEN ub ELSE <<>>,
       couplings   |-> IF ok THEN d ELSE <<>>,
       params      |-> params]

Load(r, params) ==
  /\ plugin = Unloaded
  /\ robot' = r /\ plugin' = Initialized(r, params)
  /\ UNCHANGED <<callVars, at, timeVars, solverVars>>

-----------------------------------------------------------------------------
(* getPositionFK.                                                          *)

ASSUME FkAssumption ==
  \A f \in FkRequests : Len(f.angles) \in Nat /\ DOMAIN f.angles = 1..Len(f.angles)

\* A link outside the chain has no index, and KDL then takes the whole chain.
SegmentOf(r, link) ==
  IF \E k \in DOMAIN r.chain : r.chain[k].link = link
  THEN Min({k \in DOMAIN r.chain : r.chain[k].link = link}) ELSE Len(r.chain)

\* Fault: the angles are taken as they come.
RepairNothing(d, angles) == angles

\* The mimic entries follow, whatever they were.
Repair(d, angles) ==
  [i \in DOMAIN angles |->
     IF IsMimic(d, i) THEN Couple(d[i], angles[d[i].mimicked]) ELSE angles[i]]

PositionFK(r, p, links, angles) ==
  IF ~p.active \/ Len(angles) # p.num_joints THEN [ok |-> FALSE, poses |-> <<>>]
  ELSE [ok |-> TRUE,
        poses |-> [k \in DOMAIN links |->
                     LinkPose(SegmentOf(r, links[k]), Repair(p.couplings, angles))]]

-----------------------------------------------------------------------------
(* searchPositionIK.                                                       *)

\* Its overloads with a callback: consistency limits are never looked at.
SearchRequest(pose, from, timeout, callback, code) ==
  [pose |-> pose, seed |-> from, timeout |-> timeout, callback |-> callback,
   error_code |-> code]

\* Its overloads without a callback, and getPositionIK.
UnjudgedRequest(pose, from, timeout, code) ==
  SearchRequest(pose, from, timeout, NoCallback, code)
PositionIKRequest(pose, from, code) == UnjudgedRequest(pose, from, DefaultTimeout, code)

NoRequest == [pose |-> <<>>, seed |-> <<>>, timeout |-> 0, callback |-> NoCallback,
              error_code |-> "none"]

SolveType(name) ==
  CASE name = "Manipulation1" -> "Manip1" [] name = "Manipulation2" -> "Manip2"
    [] name = "Manipulation3" -> "Manip3" [] name = "Distance" -> "Distance"
    [] OTHER -> "Speed"

\* The chain as a mechanism, and what is asked about it.
Kind(u) == IF u.type = "prismatic" THEN "Trans" ELSE "Rot"

ChainOf(r, p) ==
  LET joints == VariableJoints(r) IN
  [kinds |-> [i \in DOMAIN joints |-> Kind(r.urdf[joints[i]])],
   rev   |-> [i \in DOMAIN joints |-> r.urdf[joints[i]].rev],
   lb    |-> p.joint_min, ub |-> p.joint_max, couplings |-> p.couplings]

\* Fault: a tick is kept back for the callback, whether there is one left or not.
QueryOfReserving(p, q, from, timeout) ==
  [seed |-> from, goal |-> q.pose, timeout |-> timeout - 1, epsilon |-> p.params.epsilon,
   solve_type |-> SolveType(p.params.solve_type), q_min |-> <<>>, q_max |-> <<>>]

\* A timeout that is over already counts as none (runSolver tests for <= 0).
QueryOf(p, q, from, timeout) ==
  [seed |-> from, goal |-> IF p.params.position_only THEN Loosened(q.pose) ELSE q.pose,
   timeout |-> timeout, epsilon |-> p.params.epsilon,
   solve_type |-> SolveType(p.params.solve_type), q_min |-> <<>>, q_max |-> <<>>]

\* The solver, as TracIk is proved to behave.
Solver == INSTANCE IkQuery WITH Mechanisms <- {}, Queries <- {}, Searchers <- 2

Configurations(d) == {Expand(d, r) : r \in [Active(d) -> Positions]}

\* What is drawn for variable i: a position of its joint, or of the one it mimics,
\* and each variable of a joint of several by itself.
DrawnFor(r, i) ==
  LET own == r.variables[i]
      j   == IF r.model[own].mimics = NoJoint THEN own ELSE r.model[own].mimics
  IN  <<j, IF r.model[j].variables = 1 THEN 1 ELSE i>>

\* getVariableRandomPositions: every joint of one variable inside its bounds, the
\* variables of the others wherever they may be, the mimic joints behind the
\* ones they follow.  Of these the first n are looked at.
RandomStates(r, n) ==
  LET drawn == {DrawnFor(r, i) : i \in 1..n}
  IN  {s \in [drawn -> Positions] :
         \A k \in drawn : LET f == r.model[k[1]] IN
           f.variables = 1 => f.min <= s[k] /\ s[k] <= f.max}
VariableIn(r, s, i) ==
  LET f == r.model[r.variables[i]]
      x == s[DrawnFor(r, i)]
  IN  IF f.mimics = NoJoint THEN x ELSE Couple(f, x)

\* A new seed takes the first variables of the model, as many as the chain has
\* joints, whichever joints they belong to.
RandomSeeds(r, n) == {[i \in 1..n |-> VariableIn(r, s, i)] : s \in RandomStates(r, n)}

Init ==
  /\ robot = NoRobot /\ plugin = Unloaded
  /\ request = NoRequest /\ at = "idle" /\ start = <<>>
  /\ left = 0 /\ budget = 0
  /\ solution = <<>> /\ error_code = "none" /\ returned = "nothing"
  /\ mech = Unloaded /\ query = NoQuery
  /\ searching = FALSE /\ expired = FALSE /\ cands = {} /\ answer = Refused

Ready(p, q) == p.active /\ Len(q.seed) = p.num_joints

\* A solver is constructed for the call.
Search(q) ==
  /\ at = "idle" /\ Ready(plugin, q)
  /\ request' = q /\ start' = q.seed /\ left' = q.timeout /\ budget' = 0
  /\ solution' = <<>> /\ error_code' = q.error_code /\ returned' = "nothing"
  /\ mech' = Initialize(ChainOf(robot, plugin))
  /\ query' = NoQuery /\ searching' = FALSE /\ expired' = FALSE
  /\ cands' = {} /\ answer' = Refused
  /\ at' = "testing"
  /\ UNCHANGED loadVars

RefuseSearch(q) ==
  /\ at = "idle" /\ ~Ready(plugin, q)
  /\ error_code' = "NO_IK_SOLUTION" /\ returned' = "false"
  /\ UNCHANGED <<loadVars, request, start, solution, at, timeVars, solverVars>>

\* The condition of the loop, and the return after it.
TestTime ==
  /\ at = "testing"
  /\ IF left > 0
     THEN at' = "asking" /\ UNCHANGED <<error_code, returned>>
     ELSE at' = "idle" /\ error_code' = "NO_IK_SOLUTION" /\ returned' = "false"
  /\ UNCHANGED <<loadVars, request, start, solution, timeVars, solverVars>>

\* Fault: each attempt is given the time of the whole search.
AttemptAfresh ==
  LET q == QueryOf(plugin, request, start, request.timeout) IN
  /\ at = "asking"
  /\ \/ Solver!Ask(q) /\ at' = "solving"
     \/ Solver!Refuse(q) /\ at' = "taking"
  /\ budget' = request.timeout
  /\ UNCHANGED <<loadVars, callVars, left>>

\* The clock is read again: what is left now, if anything, is the attempt's.
Attempt ==
  LET q == QueryOf(plugin, request, start, left) IN
  /\ at = "asking"
  /\ \/ Solver!Ask(q) /\ at' = "solving"
     \/ Solver!Refuse(q) /\ at' = "taking"
  /\ budget' = left
  /\ UNCHANGED <<loadVars, callVars, left>>

Collect ==
  /\ at = "solving"
  /\ \E c \in Configurations(mech.couplings) : Solver!Collect(c)
  /\ UNCHANGED <<loadVars, callVars, at, timeVars>>

Expire ==
  /\ at = "solving" /\ budget = 0
  /\ Solver!Expire
  /\ UNCHANGED <<loadVars, callVars, at, timeVars>>

Answered ==
  /\ at = "solving"
  /\ Solver!Answer
  /\ at' = "taking"
  /\ UNCHANGED <<loadVars, callVars, timeVars>>

Resized(s, n) == [i \in 1..n |-> IF i \in DOMAIN s THEN s[i] ELSE 0]

\* An attempt without an answer is repeated from the same seed.
Take ==
  /\ at = "taking"
  /\ solution' = IF answer.rc >= 0 THEN answer.q_out ELSE Resized(solution, plugin.num_joints)
  /\ \/ answer.rc < 0 /\ at' = "testing" /\ UNCHANGED returned
     \/ answer.rc >= 0 /\ request.callback # NoCallback /\ at' = "judging" /\ UNCHANGED returned
     \/ answer.rc >= 0 /\ request.callback = NoCallback /\ at' = "idle" /\ returned' = "true"
  /\ UNCHANGED <<loadVars, request, start, error_code, timeVars, solverVars>>

\* The error code once the callback has seen c: what it wrote, or what was there.
Verdict(c) ==
  IF Writes(request.callback, c) = Silent THEN error_code ELSE Writes(request.callback, c)

\* Fault: the error code is tested as it was before the callback wrote it.
JudgeStale ==
  /\ at = "judging"
  /\ error_code' = Verdict(solution)
  /\ IF error_code = "SUCCESS"
     THEN at' = "idle" /\ returned' = "true" /\ UNCHANGED start
     ELSE at' = "testing" /\ start' \in RandomSeeds(robot, plugin.num_joints) /\ UNCHANGED returned
  /\ UNCHANGED <<loadVars, request, solution, timeVars, solverVars>>

\* Fault: a new seed comes with new time.
JudgeAfresh ==
  /\ at = "judging"
  /\ error_code' = Verdict(solution)
  /\ IF error_code' = "SUCCESS"
     THEN at' = "idle" /\ returned' = "true" /\ UNCHANGED <<start, left>>
     ELSE /\ at' = "testing" /\ start' \in RandomSeeds(robot, plugin.num_joints)
          /\ left' = request.timeout /\ UNCHANGED returned
  /\ UNCHANGED <<loadVars, request, solution, budget, solverVars>>

\* The callback may write the error code, and the code decides: what an earlier
\* candidate's callback wrote, or the caller put there, if it does not.
Judge ==
  /\ at = "judging"
  /\ error_code' = Verdict(solution)
  /\ IF error_code' = "SUCCESS"
     THEN at' = "idle" /\ returned' = "true" /\ UNCHANGED start
     ELSE at' = "testing" /\ start' \in RandomSeeds(robot, plugin.num_joints) /\ UNCHANGED returned
  /\ UNCHANGED <<loadVars, request, solution, timeVars, solverVars>>

\* Fault: the clock runs on when an attempt's time is over.
SpentPastZero(t) == t - 1

Spent(t) == IF t > 0 THEN t - 1 ELSE 0

Tick ==
  /\ at # "idle"
  /\ left > 0 \/ budget > 0
  /\ left' = Spent(left) /\ budget' = Spent(budget)
  /\ UNCHANGED <<loadVars, callVars, at, solverVars>>

-----------------------------------------------------------------------------
Step == TestTime \/ Attempt \/ Expire \/ Answered \/ Take \/ Judge

Next == \/ \E l \in Loads : Load(l.robot, l.params)
        \/ \E q \in Requests : Search(q) \/ RefuseSearch(q)
        \/ Step \/ Collect \/ Tick

Spec == Init /\ [][Next]_vars

\* The search goes on and so does time; a solver need find nothing.
FairSpec == Spec /\ WF_vars(Step) /\ WF_vars(Tick)

-----------------------------------------------------------------------------
(* Properties.                                                             *)

\* What MoveIt makes of a configuration: it writes the mimic joints itself, by
\* name, and a joint of the group outside the chain with them.
HeldAt(r, c, j) ==
  LET f == r.model[j] IN
  IF f.mimics = NoJoint THEN c[IndexIn(VariableJoints(r), j)]
                        ELSE Couple(f, c[IndexIn(VariableJoints(r), f.mimics)])
Held(r, c) == [i \in DOMAIN c |-> HeldAt(r, c, VariableJoints(r)[i])]

InUrdfLimits(u, x) ==
  \/ u.type = "continuous"
  \/ /\ u.lower <= x /\ x <= u.upper
     /\ u.soft => u.soft_lower <= x /\ x <= u.soft_upper
InModelBounds(f, x) == f.bounded => f.min <= x /\ x <= f.max

Outside(r) == {j \in r.group : /\ r.model[j].mimics \in Range(VariableJoints(r))
                               /\ j \notin Range(VariableJoints(r))}

\* The group can be where MoveIt takes c to put it.
GroupHolds(r, c) ==
  /\ \A i \in DOMAIN c :
       LET j == VariableJoints(r)[i] IN InUrdfLimits(r.urdf[j], HeldAt(r, c, j))
  /\ \A j \in Outside(r) : InModelBounds(r.model[j], HeldAt(r, c, j))

\* Types, and that the caller's solution has an entry for every joint.
TypeOK ==
  /\ plugin.active \in BOOLEAN /\ plugin.num_joints \in Nat
  /\ plugin.active => /\ DOMAIN plugin.joint_min = 1..plugin.num_joints
                      /\ DOMAIN plugin.joint_max = 1..plugin.num_joints
                      /\ plugin.couplings \in Seq(Coupling)
  /\ at \in {"idle", "testing", "asking", "solving", "taking", "judging"}
  /\ left \in Nat /\ budget \in Nat
  /\ Len(solution) \in {0, plugin.num_joints}
  /\ at # "idle" => Len(start) = plugin.num_joints
  /\ returned \in {"nothing", "true", "false"}

\* Entry i of a configuration is the same joint to KDL, to the couplings and to
\* MoveIt, which goes by the names the plugin reports (initialize, lines
\* 102-171): a joint that takes a name and no variable would shift them all.
IndicesAgree ==
  plugin.active /\ at = "idle" =>
    /\ plugin.joint_names = VariableJoints(robot)
    /\ \A c \in [1..plugin.num_joints -> 0..1] :
         RebuildMimicEntries(plugin.couplings, c) = Held(robot, c)

\* The limits of a joint that follows another are an interval, and map back to
\* whole ticks of that other; and a joint is never as far out as "unbounded".
InTicks(c, lo, hi) == lo <= hi /\ (~Pins(c) => Exact(c, lo) /\ Exact(c, hi))
LimitsInTicks ==
  \A l \in Loads : LET r == l.robot IN
    /\ \A k \in VariableAt(r) :
         LET j == r.chain[k].joint IN
         j \in DOMAIN r.model /\ r.model[j].mimics # NoJoint =>
           InTicks(CouplingOf(r.model[j], Own), AsBound(OwnLower(r.urdf[j])),
                                                AsBound(OwnUpper(r.urdf[j])))
    /\ \A j \in r.group :
         LET f == r.model[j] IN
         f.mimics # NoJoint /\ f.bounded => InTicks(CouplingOf(f, Own), f.min, f.max)
PositionsInRange ==
  /\ Positions \subseteq Position
  /\ \A l \in Loads : \A j \in DOMAIN l.robot.model : \A x \in Positions :
       l.robot.model[j].mimics # NoJoint => Couple(l.robot.model[j], x) \in Position

\* ... nor does a search start so far out, its seed once repaired.
InRange(r, c) ==
  \A i \in DOMAIN c :
    /\ c[i] \in Position
    /\ \A j \in MimicsOutside(r, VariableJoints(r), i) : Couple(r.model[j], c[i]) \in Position
SeedsInRange ==
  \A l \in Loads, q \in Requests :
    LET p == Initialized(l.robot, l.params)
        m == Initialize(ChainOf(l.robot, p))
        seeds == {q.seed} \cup RandomSeeds(l.robot, p.num_joints)
    IN  p.active /\ m.initialized =>
          \A s \in {x \in seeds : Len(x) = p.num_joints} :
            InRange(l.robot, StartOf(m, QueryOf(p, q, s, 0)))

\* A plugin that loaded gives its solvers bounds that, tightened by them for the
\* couplings inside the chain, admit exactly the configurations in which every
\* joint of the group is inside its own (foldOutOfChainMimicBounds, and the
\* constructor of the solver after it).
BoundsAdmitExactly ==
  [][plugin' # plugin /\ plugin'.active =>
       LET m == Initialize(ChainOf(robot', plugin')) IN
       \A c \in Configurations(plugin'.couplings) :
         (\A i \in DOMAIN c : m.lb[i] <= c[i] /\ c[i] <= m.ub[i]) <=> GroupHolds(robot', c)
    ]_plugin

\* The robots a plugin can index and drive, were there a configuration.
Indexable(r) ==
  LET joints == {s.joint : s \in Range(r.chain)} IN
  /\ r.tips = 1 /\ r.connected /\ r.group # {}
  /\ \A j \in joints : Movable(r.urdf[j]) =>
       /\ HasVariable(r.urdf[j]) /\ j \in r.group /\ r.model[j].variables = 1
       /\ r.model[j].finite
       /\ r.model[j].mimics \in {NoJoint} \cup Range(VariableJoints(r))
  /\ \A j \in Outside(r) : r.model[j].variables = 1 /\ r.model[j].finite

\* A robot is refused at load for its structure, or because no configuration
\* whatever satisfies its bounds: never for a joint the group does not have, and
\* never for bounds that leave room (initialize, buildCouplings).
RefusedForAReason ==
  [][plugin' # plugin /\ ~plugin'.active /\ Indexable(robot') =>
       LET names == VariableJoints(robot') IN
       \A c \in Configurations(Couplings(robot', names, Len(names))) : ~GroupHolds(robot', c)
    ]_plugin

\* No call of a plugin that loaded is refused by the solver it makes: the checks
\* of the constructor were all made at load (the comment at lines 562-564).
SolverNeverRefuses == at = "taking" => answer.rc # -1

\* What the racer assumes of its mechanism and its queries holds of the solver
\* that each search constructs and of every question put to it, drawn seeds and
\* what time is left included (lines 562-572); MoveIt's limits are the bounds
\* asked for.
SolverAskedAsAssumed ==
  at = "asking" =>
    LET g == ChainOf(robot, plugin)
        q == QueryOf(plugin, request, start, left)
    IN  /\ mech = Initialize(g) /\ Constructible(g)
        /\ Askable(q) /\ WellFormed(mech, q) /\ AsksExactly(mech, q)

\* A search that was started, the last time, from a seed that is where the group
\* can be once the solver has repaired it, returns only where the group can be,
\* joints outside the chain included.
SolutionHeld ==
  /\ returned = "true"
  /\ GroupHolds(robot, StartOf(mech, query))
  => GroupHolds(robot, solution)

\* No attempt is given time beyond the end of the search (line 571).
OnTime == at \in {"solving", "taking"} => budget <= left

\* Forward kinematics of a link of the chain is of the configuration MoveIt will
\* hold, whatever the caller left in the mimic entries (lines 374-383).
FkAsHeld ==
  plugin.active /\ at = "idle" =>
    \A f \in FkRequests :
      LET fk == PositionFK(robot, plugin, f.links, f.angles) IN
      fk.ok => \A k \in DOMAIN f.links :
        (\E s \in Range(robot.chain) : s.link = f.links[k]) =>
          fk.poses[k] = LinkPose(SegmentOf(robot, f.links[k]), Held(robot, f.angles))

\* A configuration a search may return, wherever it started.
Answers(p, q, c) ==
  /\ c = RebuildMimicEntries(p.couplings, c)
  /\ Residual(IF p.params.position_only THEN Loosened(q.pose) ELSE q.pose, c)
       < Abs(p.params.epsilon)
  /\ q.callback # NoCallback =>
       \/ Writes(q.callback, c) = "SUCCESS"
       \/ Writes(q.callback, c) = Silent /\ q.error_code = "SUCCESS"

Promise == INSTANCE IkSearch WITH
  searching <- at # "idle",
  late      <- at # "idle" /\ left = 0,
  reply     <- [ok         |-> returned = "true",
                error_code |-> IF returned = "nothing" THEN "none" ELSE error_code,
                solution   |-> IF returned = "true" THEN solution ELSE <<>>]

\* Each search ends as IkSearch allows: with a solution that reaches its pose and
\* that its callback accepted, or, when its time is up and not before, without.
\* A callback that says nothing of a solution accepts it only for a caller who
\* came with SUCCESS already: what the code was set to for a candidate before it
\* can turn a solution down, and never let one through (lines 595-612).
KeepsSearchPromise == Promise!SafeSpec

\* Every search returns, although its callback may reject all there is.
EverySearchReturns == Promise!Live

\* What the header (trac_ik_kinematics_plugin.hpp:81) says of the error code, for
\* a success: it encodes that.  Without a callback nobody writes it.
ErrorCodeEncodesSuccess == returned = "true" => error_code = "SUCCESS"

=============================================================================
