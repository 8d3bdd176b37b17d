# A TLA+ model of TRAC-IK

TRAC-IK answers inverse-kinematics queries for one kinematic chain. A query is raced by two
threads: a Newton solver with random restarts (KDL) and a numerical optimiser (NLopt). This
directory models the racer, the loops of the two solvers, the joint couplings that let the chain
have mimic joints, what is done to a solution before it is returned, and the MoveIt plugin that
loads a robot for the solver and searches with it. TLC checks the models on small mechanisms;
TLAPS proves every invariant and refinement of the runs for all mechanisms, robots, queries and
kinematics that satisfy named assumptions, and that each layer keeps the assumptions of the next.

Paths below are relative to the repository; `trac_ik.cpp` is `trac_ik_lib/src/trac_ik.cpp`.

## The system

| Component | State it keeps | Operations | Modelled in |
|---|---|---|---|
| `JointCouplings` (`joint_coupling.cpp`) | the coupling of each joint, immutable | validate, reduce, expand, tighten, fold a Jacobian; `tightenThroughCoupling` | `JointCouplings` |
| `normalizeAngle` (`trac_ik.cpp:191-213`) | none | bring a joint near a target or into limits by whole revolutions | `Angles` |
| `TRAC_IK`, its pure part (`trac_ik.cpp`) | kinds, effective bounds, which joints may be turned | constructor, classification, seed repair, normalisation, ranking keys | `Mechanism` |
| `TRAC_IK`, a call (`CartToJnt`, `runSolver`, `trac_ik.hpp:getSolutions`) | cached solvers and their bounds, classification in force, candidates, ranking, lock, start time | refuse, prepare, race, join, sort, return | `Query`, `TracIk` |
| Newton branch (`kdl_tl.cpp`) | bounds, epsilon, abort flag, time | iterate, clip or wrap, restart, accept | `KdlBranch`; its outcomes, in `TracIk` |
| Optimising branch (`nlopt_ik.cpp`) | bounds, epsilon, abort flag, time, best point, progress | wrap the seed, optimise, retry | `NloptBranch`; its outcomes, in `TracIk` |
| MoveIt plugin (`trac_ik_kinematics_plugin.cpp`) | chain, bounds, couplings, names, parameters, whether it is active | initialise, forward kinematics, the `searchPositionIK` retry loop and the calls that lead to it | `Plugin` |
| Python wrapper, benchmark, build, CI | none of its own | conversions, measurements | no |

How they interact. A caller constructs a `TRAC_IK` for a chain, its own bounds and its couplings;
the constructor validates the couplings and tightens the bounds, once, to the *effective bounds*.
`CartToJnt` resolves the query's bounds (the mechanism's, or the caller's tightened in a copy),
rebuilds the inner solvers if these differ from the ones baked in, repairs the seed, clears the
abort flags and lists and starts two threads. Each thread repeats its inner solver with the time
that is left; what it finds is normalised and, under the lock, compared with the candidates there
are, appended and ranked. The list is then looked at *without* the lock, to stop a Speed query. A
thread that leaves sets the abort flag of the other's inner solver. The call joins both, sorts the
ranking and returns its head. Solvers, classification, lists and flags outlive the call.

The plugin stands between MoveIt and a `TRAC_IK`. `initialize` reads the chain and its limits from
the URDF, the couplings and the group from MoveIt's robot model, tightens the limits for mimic
joints of the group that are outside the chain, and refuses a robot it could not answer for.
`searchPositionIK` constructs a solver for the call and asks it again and again, each time with the
time that is left, handing each answer to the caller's callback and reseeding at random when that
rejects it.

What is hard: two threads on two vectors that must stay paired; an unlocked read; flags and cached
solvers that survive from call to call; a clock looked at only between inner solves; couplings that
must hold through seeds, searches, normalisation and per-call bounds; and interval arithmetic with
signs, pins and a finite number spelling "unbounded"; one index for a joint in three data models
(KDL's, the couplings', MoveIt's); and a retry loop around all that, whose error code the callback
writes. `PROJECT.json` lists the hazards line by line.

## The modules

- **`JointCouplings`**: a description as a sequence of records, one per joint. `Valid` is the
  constructor's verdict; `Tighten` and `TightenThroughCoupling` are the two tighteners;
  `FoldJacobian` the fold. Joints are numbered from 1 and `Own` (0) stands for the code's -1. A
  reduced configuration is a function on the active joints, where the code keys by rank.
- **`Angles`**: the two `normalizeAngle` functions on integers, and their use for one joint.
- **`Mechanism`**: classification, the constructor (`Initialize`), the seed repair, both
  normalisations, the ranking keys.
- **`Query`**: a call as its caller sees it: the bounds in force (`Resolve`), when it is refused
  (`WellFormed`), which configurations answer it (`IsAnswer`) and how they compare
  (`AtLeastAsGood`). An answer holds the couplings and reaches the pose; it is inside the bounds
  asked for if the search starts inside the bounds in force, once its seed is repaired (`StartOf`,
  `StartsInside`): from a seed outside them the Newton branch may return that seed (`outside_seed`
  below). `Askable` and `AsksExactly` are what queries are, and `Constructible` (in `Mechanism`)
  what mechanisms are; theorems assume them in one place and prove them in another.
  `TracIk`, `IkQuery` and `Plugin` build on it.
- **`TracIk`**: the racer as a state machine. `Call` is `CartToJnt` up to the joins, `Refuse` its
  early returns, `Return` all from the second join on. `CheckTime` to `Leave` are the steps of
  `runSolver` that another thread can see in between, with `pc[b]` as program counter. `Push` and
  `Rank` are separate because the unlocked read can fall between them. `PushUnpublished` is the
  data race on `solutions.empty()`: a reader may miss a first `push_back` that is in progress.
- **`IkQuery`**: what a caller is promised, with no threads, locks, flags or cached solvers. An
  ill-formed question is refused and leaves no trace; a well-formed one collects candidates that
  answer it and is answered with one that is at least as good as all of them, not before its time
  is up unless it is a Speed question with a candidate. `TracIk` defines `Promise` as its instance,
  with `searching <- running`, `expired <- running /\ left = 0` and `cands <- Range(solutions)`.
- **`InnerSolve`**: what the racer relies on in an inner solver. Asked from a seed, it finds a
  configuration that answers the problem (couplings, limits, pose error) or gives up, and it gives
  up only when its time is over or it was aborted. Its `Succeed`, `GiveUp` and `Answers` are what
  `TracIk` takes as `Find`, `GiveUp` and `InnerAnswers`. Three parameters tell the branches
  apart: the fewest variables they accept, whether they judge the seed wherever it is, and how far
  past an upper limit they may judge.
- **`KdlBranch`**: `ChainIkSolverPos_TL::CartToJnt`. `Judge` is the test at the head of the loop,
  `Step` the velocity step with the clip or wrap of each joint and the restart, `Again` the loop's
  condition and the return after it. Restarts and wrapping are on, as `configureSolvers` sets them.
- **`NloptBranch`**: `NLOPT_IK::CartToJnt` and its objective. `Begin` brings the seed into the
  limits and builds the box around it; `Hit`, `NotANumber` and `Stop` are the ways a call of the
  objective can end that change anything; `Optimized` is `optimize` returning or throwing;
  `Decide` the retry loop and the return. The seed's size is not tested again: the racer refuses
  such a query first.
- **`Plugin`**: the plugin as a state machine. A robot is a record of what the plugin reads: the
  chain, URDF limits, the model's joints with their bounds and mimicry, the group, the order of the
  variables. `Load` is `initialize` (with `Fold`, `Couplings` and `Builds` for the two functions it
  calls); `PositionFK` is `getPositionFK`; `Search`, `RefuseSearch`, `TestTime`, `Attempt`, `Take`
  and `Judge` are the steps of `searchPositionIK`, split where the clock can be read or the solver
  runs. The overloads and `getPositionIK` are the requests they make. The solver of a search is an
  instance of `IkQuery` (`Solver`), whose steps are `Attempt`, `Collect`, `Expire` and `Answered`.
  So the plugin rests on what the racer is proved to promise, and not on its threads. A timeout
  that is over counts as none, as the loops of the racer take it.
- **`IkSearch`**: what a search promises MoveIt, with no retries, seeds, budgets or solver: it is
  refused at once, or ends with a solution that holds the couplings, reaches the pose and passed
  the callback, or without one when its time is up. `Plugin` defines `Promise` as its instance,
  with `searching <- at # "idle"` and `late <- at # "idle" /\ left = 0`.
- **`MCKdlBranch`, `MCNloptBranch`, `MCPlugin`**: the problems TLC runs the branches on, and the
  robots and requests for the plugin.
- **`MCJointCouplings`, `MCAngles`, `MCTracIk`**: state machines or instances for TLC. The first
  two enumerate inputs: the first step is the call, a second step of the first is a second call
  on the bounds the first one left.
- **`Answerable`, `MCRacer`**: three conditions under which every candidate of the racer answers its
  query, and the instances of `TracIk` for which TLC evaluates them before it checks that.
  `Answerable` also states what the racer owes the branches: `InnerSolver(b)` is the instance of
  `InnerSolve` that stands behind branch `b`, `InnerProblem(b)` the problem baked into it, and
  `InnerSolversAsAssumed` says that the branch was proved for that problem and that its answers,
  from any seed of `runSolver`, are among `InnerAnswers`.
- **`ChainLemmas`, `JointCouplingsProofs`, `AnglesProofs`, `KdlBranchProofs`,
  `NloptBranchProofs`, `TracIkProofs`, `PromiseProofs`, `PluginProofs`**: theorems.

All but the abstract specifications contain operators marked *Fault*. Each is a plausible bug,
written beside the definition it would replace; no specification uses them. Replacing the
definition by its fault breaks the property named next to it below, which is how the strength of
each property is kept under test.

### What is abstracted

- Positions are integers in ticks, with a revolution `rev[i]` per joint; each joint has its own
  tick, so that a multiplier of 1/2 is 1 onto a joint with a tick half the size. Rounding is thus
  outside the model. In particular the slack `kBoundTol` (1e-9) and the tolerance on whole
  multipliers (1e-12) are exact tests, and `SameTol` stands for the 1e-4 of `myEqual`.
- Kinematics is the constants `Residual` and `ManipValue`. `Residual(goal, c) < eps` stands for
  the success test of the inner solvers; tolerance bounds are part of the goal. `ManipValue` is
  any number that depends on the solve type, the bounds in force and the configuration: the product
  of penalty and manipulability by which the Manip types rank, where the penalty is not zero.
- In `TracIk` an inner solve is its outcomes: any configuration inside its bounds that reaches the goal, or
  giving up once its time is over or it is aborted. A Newton solve on its first seed may return
  that seed as it is (`kdl_tl.cpp:166`, before any clip). That a finite difference may take NLopt
  `FLT_EPSILON` past an upper limit is kept in `NloptBranch` (`Jump`) and is below a tick here.
- The velocity step of `KdlBranch` (Jacobian, SVD) goes anywhere, or nowhere as when the
  decomposition fails; a step smaller than `FLT_EPSILON` is no step. NLopt is external: from a
  start inside the box it was given it evaluates the objective as often as it likes, at points of
  the box and, for a gradient, `Jump` beyond one in one joint; it returns when it likes, and in
  time. Values of the objective matter only by whether they reach the goal.
- Bounds are compared as values; `sameBounds` is equality.
- Random seeds are not represented: any solution may follow from them.
- Whether the penalty is positive is what is kept of `manipPenalty` (`PenaltyPositive`): a joint at
  the end of its limits makes the product zero, one pinned to where it is 0/0, which `max` turns
  into 0, one away from its pin infinite with a sign, and two joints outside cancel. `IkQuery` has
  a definition of its own (`Score`): of configurations inside the bounds, those with a limited
  joint at an end count for nothing. It compares no others. A NaN from the singular values
  themselves is left out.
- In `Plugin` a plugin loads once, as MoveIt uses it. What a refused load leaves in the members is
  kept only where something could read it. The caller's solution starts empty; consistency limits
  do not appear because the code never looks at them. The limits of a joint are exact, where the
  code reads them into floats. The poses of a search and of forward kinematics are values of the
  constants `Residual` and `LinkPose`. A link the chain does not have gets the pose of the tip, as
  KDL does for index -1. A callback writes an error code or none (`Writes`), and what is there
  afterwards decides (`Judge`). MoveIt's random state has a position for every variable of the
  model (`RandomStates`, external): joints of one variable are inside their bounds, variables of
  joints of several may be anywhere, and mimic joints are behind the ones they follow, bounded or
  not.

## Runs

| Run | Question | Bounds and why they are enough | States |
|---|---|---|---|
| `couplings` | Do the tighteners and the fold do what they are for? | Three joints: the middle one active, each outer one active or following it with multiplier -2..2 (reversed, doubled, pinned) and offset 0 or 1, intervals with ends in {-3,-1,1,3} or unbounded. Two followers of one joint, one of them upstream, are the most a tightening step relates. Reference configurations are tried over -4..4, one past every end. | 224422 |
| `angles` | Does normalising keep the pose and end inside? | Revolutions of 4 and 6 ticks, values and targets in -9..9 (up to three revolutions off), all limits in -5..5. | 95304 |
| `racer` | Do two threads keep the lists right over several calls, and is each call answered as `IkQuery` says? | Four mechanisms: a wrist at half the speed of the shoulder beside a continuous joint that becomes limited in one query; a reversed mimic joint before its driver; one active joint, so one thread; an invalid coupling. Nine queries in any order, without end: Speed, Manip and Distance, the mechanism's own bounds handed back, a pinned joint, unsatisfiable bounds, bounds of the wrong size. `SameTol` is 1, so that equality is not transitive. | 199518 |
| `fair` | Is every call answered if time passes, and does an abort end a Speed call whatever the clock does? Is every inner solve one the branches were proved for? | An uncoupled gantry; a goal out of reach among the queries, and one query with bounds of its own, of the size of the mechanism's, so that solvers are rebuilt and kept. | 26075 |
| `kdl` | Is the Newton branch an inner solver? | A joint with half a revolution of room, one that follows it reversed and doubled, and a slide; a continuous joint beside one with more than a revolution; the same with an epsilon nothing meets. Seeds up to a revolution and more outside; velocity steps to any of -4..4. | 49344 |
| `nlopt` | Is the optimising branch? | The same, and a mechanism with a single variable. Seeds on both sides, one of which fits the narrow joint by no number of revolutions. | 372545 |
| `plugin` | Are loading, forward kinematics and searching what the robot model and `IkSearch` ask for? | Two robots and two variants that load: one with a mimic joint inside the chain, one beside it in the group and one outside the group, safety limits, a fixed tool and model variables in another order than the chain; one with a continuous joint limited only by the joint beside it, on a slide. Fourteen that are refused, one for each reason there is. Searches with callbacks that reject some of what they see and either accept the rest or say nothing, for callers who came with SUCCESS (to whom silence is consent until a code was written) and with another code (to whom it never is, so that all is rejected), without one, with a seed outside the limits, of the wrong size, with no time; up to two ticks, enough for an attempt to begin with all, half or none of the time. The three conditions on limits, positions and seeds below are evaluated first. | 470976 |

In `kdl` and `nlopt` aborts come at any time and solves follow each other without end.
The time of a call is 2 ticks (an inner solve can begin with all, half or none of it elapsed).
Counters need no further bound: `left` and `maxtime` only fall, and candidates are distinct.

The properties, with the fault that breaks each:

- `couplings`: `TightenExact` (ends not put in order), `MimicBoundsReached` (mimic joints keep
  their own bounds), `TightenersAgree` (the sentinel divided as a number), `TightenIdempotent`
  (mapped with the inverse coupling), `FoldIsChainRule` (multiplier forgotten), `TypeOK` (reduced
  bounds returned).
- `angles`: `TurnsByRevolutions` (reflection), `EndsWithinLimits` (a revolution short), `Settles`
  (one revolution only).
- `racer`: `ErrorsIndexSolutions` (index off by one), `CandidatesDistinct` (lock not
  awaited), `SpeedStopsAtFirst` (the list always looks empty), `NothingHidden` (bounds compared by
  size), `CandidatesAnswer` (a revolution shared whatever the multiplier), `RankingOfLastCall`
  (the ranking cleared before the arguments are looked at), `AbortsJustified` (one flag not reset), `KeepsPromise` (Manip sorted
  ascending; a joint at the end of its limits passed over in the penalty), `TypeOK` (clock below zero).
- `fair`: `InnerSolversAsAssumed` (bounds compared by size, so that a kept solver answers for those
  of an earlier call), `KeepsPromiseInTime` (a thread stays until there is a candidate), `SpeedReturnsEarly`
  (the other thread is not aborted).
- `plugin`: `IndicesAgree` (a planar joint takes a name and is not refused), `BoundsAdmitExactly`
  (the joint beside the chain not folded in), `RefusedForAReason` (joints outside the group folded
  in, too), `SolverNeverRefuses` (bounds not tightened at load), `SolverAskedAsAssumed` (a tick kept
  back for the callback when none is left), `SolutionHeld` (the safety
  controller's limit forgotten), `OnTime` (each attempt given the whole time), `FkAsHeld` (mimic
  entries taken as they come), `KeepsSearchPromise` (the error code tested as it was before the
  callback), `EverySearchReturns` (a new seed comes with new time), `TypeOK` (clock below zero).
- `kdl`: `IteratesInside` (a joint goes round whether or not there is room), `Implements` (the
  configuration written before the loop returned), `StopsWhenTold` (time *and* an abort needed).
- `nlopt`: `StartsInBox` (no room for a revolution not noticed), `HitKept` (the objective goes on
  after a hit), `RetriesSearch` (the not-a-number code remembered), `Implements` (the last start
  returned), `StopsWhenTold` (an abort only stops the optimiser).

### Where the code differs from what is said of it

Each of these is a run that TLC ends with a counterexample.

- `angles_limits`: a comment (`trac_ik.cpp:344-345`) promises that "joint limits are met". When the
  limits span less than a revolution and the target is outside them, a value that was inside ends
  outside: a joint at its lower limit with a seed more than half a revolution below is first turned
  down, then up to the wrong side. `EndsWithinLimits` is what does hold.
- `outside_seed`: the tests (`test_trac_ik.cpp:5`) state that "every joint value lies inside its
  limits". A seed outside them that reaches the goal is a solution, because the Newton solver
  judges it before it clips (`kdl_tl.cpp:166`). A joint that nothing follows is not clamped by
  `repairSeed`.
- `signed_epsilon`: `trac_ik.hpp:52-53` says nothing of a call is hidden in solver state. A negative
  epsilon is kept by the constructor of the Newton solver and made positive by `setEps`, so its
  meaning depends on whether the last call had the same bounds.
- `couplings_swapped`: `tighten` is false "for a mechanism no configuration satisfies"
  (`joint_coupling.hpp:167-168`), but a mimic joint whose own bounds are the wrong way round passes,
  because mapping its interval back puts the ends in order.

- `plugin_error_code`: the header says of `error_code` that it "encodes the reason for failure or
  success" (`trac_ik_kinematics_plugin.hpp:81`). Without a callback a search that succeeds does not
  write it (`trac_ik_kinematics_plugin.cpp:615`), as the tests know (`test_plugin.cpp:537-541`).
  `IkSearch` states what the code does: SUCCESS with a callback, the caller's own value without.

After a refused call `getSolutions` still has the candidates of the call before, whose query was
another one; `IkQuery` promises no more than that a refusal leaves no trace, and
`RankingOfLastCall` that the list is then still all of one call, ranked by that call's query.

A query's bounds may also be wider than the mechanism's own, and are then searched as they are. We
take that as the meaning of the query (`AskedBounds`), since the documentation can be read either way.

## Fairness

In `TracIk`, `FairSpec` has weak fairness on the steps of each thread and on `Return`: threads are
scheduled and a joined call returns. It does *not* assume that an inner solver succeeds: `Find` is
not among the fair steps, only `GiveUp`, which is enabled once time is over or the abort flag is
up. The Newton solver tests both once an iteration (`kdl_tl.cpp:261`) and NLopt is given its time
and polls the flag in its objective. Weak fairness is enough for `Acquire` because the lock's
holder never waits for anything and a thread that leaves a critical section in these runs finds at
most finitely many new candidates. The clock is not part of it: `SpeedReturnsEarly` holds without
any, so it is the abort that ends the call, and `KeepsPromiseInTime` has `WF_vars(Tick)`, that time
passes, as its hypothesis.

The branches run with less. `KdlBranch` has weak fairness on its loop only, and none on the clock.
`NloptBranch` has it on `Stop` (NLopt evaluates its objective again as long as it does not
return), on `Optimized` once the optimiser was told to stop or its time is over, and on `Decide`;
NLopt need never converge, and the objective need never hit.

In `Plugin`, `FairSpec` has weak fairness on the steps of the search together (they are steps of
one thread) and on `Tick`. `Collect` has none: the solver need find nothing. That the solver
answers when its time is up is what `KeepsPromiseInTime` shows of the racer.

## Proofs

All theorems hold for every mechanism, robot, query, set of positions and kinematics that satisfies
the named assumptions, which TLC evaluates on the instances of the runs:

- `BoundAssumption`, `SameTolAssumption`, `NumbersAssumption`: the sentinel is positive and below
  infinity, tolerances and positions are numbers.
- `MechanismsAssumption`: bounds and couplings are numbers and each joint has a bound (the
  constructor asserts the sizes). `QueriesAssumption`: the shape of a query.
- `LoadsAssumption`: a chain is a sequence of segments, with a joint each. `RobotsAssumption`:
  limits and couplings are numbers, a group has joints of the model, finitely many, and a joint
  mimics joints of the model only, and none that mimics another, because MoveIt has flattened such
  chains when the plugin reads them, as the comment before `buildCouplings` says; a robot model that
  has the joints of a chain has a variable for each, which is what the plugin copies from a random
  state (`trac_ik_kinematics_plugin.cpp:608`). `RequestsAssumption` and `FkAssumption`:
  timeouts are natural numbers, seeds and joint angles sequences. A robot may otherwise be anything;
  the theorems speak of those the load refuses, too.
- `ReachAssumption` (`MCJointCouplings`): what the runs enumerate, in numbers; the positions tried
  include every place one joint's bound puts another, and none is as far as the sentinel; a column
  of a Jacobian has a number for each joint.
- `ProblemsAssumption` (`KdlBranch`, `NloptBranch`): an inner solver is constructed with valid
  couplings and effective bounds in order (`Searchable`).

The layers assume things of each other, and these are proved as well. What the branches assume of
their problems holds of every solve the racer enters, and what `TracIk` takes an inner solve to
answer is no less than what the branches are proved to answer at the positions of the model, but
for the finite difference past an upper limit, which is below a tick (`InnerSolversGiven`): that is
why `TracIk` may have `InnerAnswers` where the code has two loops. What the racer assumes of mechanisms
and queries holds of every solver the plugin constructs and every question it asks
(`SolversAsked`), drawn seeds and remaining times included: that is why `Plugin` may have `IkQuery`
where the code has the racer. What `IkSearch` promises MoveIt thus rests on the assumptions about
robots and requests, and on the conditions `PoseKept` and `TurnedInRange` below, which are about
kinematics and the range of numbers.

Some theorems need more, and name it as their hypothesis:

- `AllAnswer` and `ImplementsIkQuery` need the three conditions of `Answerable`. `PoseKept`: turning
  rotational joints by whole revolutions does not move the tip, as long as the couplings hold. This
  is what `Residual` has of kinematics; the mimic joints have to turn by whole revolutions as well,
  and that they do is what the proof shows of `classifyRevolutions`. `AskedExactly`: bounds are intervals whose ends the couplings
  map to whole ticks, the price of integers. Seeds may be anywhere: of a call that starts outside
  the bounds in force `IkQuery` does not promise that it ends inside. `TurnedInRange`: nothing is turned as far as the
  number that spells "unbounded" (3.4e38 in the code). `MCRacer` evaluates all three for the
  mechanisms and queries of `racer`, `PoseKept` for positions in -4..4, where the theorem takes all
  integers; the poses of that run are of positions modulo a revolution.
- `BoundsAdmit`, `RefusalsHaveReasons` and `SolutionsHeld` need `LimitsInTicks` (limits of what
  follows a joint are in order, which `couplings_swapped` shows to be needed, and map to whole
  ticks) and `PositionsInRange` (no position is as far out as the sentinel); `SolutionsHeld` also
  `SeedsInRange`, the same for where a search starts. `SolversAsked` needs the first two. `MCPlugin`
  evaluates them.
- `InnerSolversGiven` needs positions that are not as far out as the sentinel.
- `NormalizedOnce` needs half a revolution to be a whole number of ticks: `normalizeAngle` compares
  with half a revolution, which with an odd number of ticks is none of them.
- `SolversAreOfTheQuery` needs that no query has a negative epsilon, as `signed_epsilon` shows.

The modules:

- `TracIkProofs`. The inductive invariant `Inv` has six parts: the mechanism is one the
  constructor made and, when it accepted it, consistent in its sizes (`MechInv`); types of the
  scalars (`ScalarInv`); a call in progress is of an accepted mechanism, with bounds and a seed for each
  joint (`CallInv`); a thread from `Find` to `Rank` carries a
  configuration of the right size (`FoundInv`); a thread is inside the critical section exactly if
  it holds the lock (`LockInv`); and what the lists look like at each point of the critical section
  (`ListInv`). `LockInv` and `ListInv` are why the properties are not inductive as they stand:
  `ErrorsIndexSolutions` speaks of the moment the lock is free, and is carried through the
  moments it is not. Each action has a lemma that it preserves `Inv`. On it rest `TypeCorrect`,
  `RankingComplete`, `NoDuplicates`, `SpeedBounded`, `AbortsHaveReasons` and, if no query has a
  negative epsilon, `SolversAreOfTheQuery`. That condition is exactly what the run
  `signed_epsilon` shows to be needed.
  `NoDuplicates` adds that a thread about to append has found its configuration unlike all listed
  ones; `SpeedBounded` that a thread which has appended under Speed does not start another solve,
  so that the missed read costs one candidate at most; `AbortsHaveReasons` that a thread on its way
  out has a reason.
- `PromiseProofs`. Three more invariants on top of those: between calls the lists are the last
  call's, ranked, and an answer with a solution is theirs (`HeadInv`), the bounds, classification and seed in force
  follow from the query (`QueryInv`), and once the Newton branch has joined, time is up or a Speed
  call has a candidate (`JoinInv`). `HeadIsFirst` is why the head of the ranking is the best: a
  ranking puts its entries in a strict order, so no two are equal and, by the pigeonhole principle,
  none is lost (`SortedIsOnto`). `LastRanking` follows, since a refusal changes nothing that a key or the order depends on
  (`RankingStable`). So does `IsQuery`, with `ScoreIsKey`, by which the key of a candidate inside the
  bounds is the score `IkQuery` gives it (`InsidePenalty`): each step of the racer is a
  step of `IkQuery` or a stutter. `Call` is `Ask`, `Push` is `Collect` (new because of
  `UniqueInv`, few under Speed because of `SpeedInv`), the tick that uses up the time is `Expire`,
  `Return` is `Answer`, and the other steps of a thread are not seen. `IsQuery` assumes
  `[]CandidatesAnswer`, and `AllAnswer` proves that under the conditions of `Answerable`. The
  invariant is that the inner solvers of a call were built for its bounds and are no more lax than
  its epsilon (`AskedInv`), and that every listed candidate, and every configuration a thread
  carries from `Find` to the list, is an answer (`AnswersInv`): what leaves an inner solver is inside
  the bounds and holds the couplings (`FoundInside`); normalising turns a joint only by revolutions
  that the joints following it make whole as well (`TurnedByRevolutions`), so neither the pose nor the
  couplings change, and leaves it inside the bounds of the active joints (`TurnedActive`), from
  which those of mimic joints follow through `TightenAdmits`. `ImplementsIkQuery` puts both together.
  `InnerSolversGiven` looks the other way, at what the inner solvers are given. Besides the
  invariants above it needs that only threads that were started run (`StartedInv`), since one
  active joint is too few for the optimiser, and that bounds in force are in order
  (`ResolvedOrdered`, on `TightenOrdered`). Answers inside the limits the solver was built with are
  inside those `Find` looks at, which also speak of continuous joints (`WithinInnerLimits`); the one
  answer that need not be, the seed of a Newton solve, is the call's own in the first solve and drawn
  inside the limits in the others (`InnerAnswersCover`).
- `PluginProofs`. The invariant `Inv` has five parts: a plugin that loaded has couplings and bounds that
  the constructor of a solver accepts (`LoadInv`, from `LoadedInitializes`: the checks of the load
  *are* the constructor's, on the same pair); a search in progress is of a loaded plugin, has the
  mechanism that follows from it, a seed of its size, an error code that no candidate left at SUCCESS,
  and has not returned (`SearchInv`); what the
  solver collects and what is taken of it reaches the pose and holds the couplings (`AttemptInv`);
  the attempt's time is inside
  the search's (`TimeInv`); and the caller's solution is empty or has an entry for each joint
  (`SolutionInv`). `TypeCorrect`, `SolversTakeAll` and `AttemptsOnTime` follow from it. `IsSearch` maps
  each step of the plugin to a step of `IkSearch` or a stutter: `Load` to `Load`, `Search` and
  `RefuseSearch` to the two outcomes of asking, the end of the loop to `Fail`, `Take` without a
  callback and `Judge` to `Succeed`, and the tick that uses up the time to `Expire`. It needs
  `AttemptInv` for what is returned and `SearchInv` for the error code: while a search is in progress
  SUCCESS is there only if the caller came with it, which is why a callback that says nothing lets
  nothing through for anybody else.
  That one index is one joint is a matter of counting: the movable segments and those with a
  variable are numbered by their rank in two sets, and if no segment is a misfit the sets are equal
  (`NoMisfit`, `NthOfRank`). `EntriesAreJoints` follows, and `KinematicsAsHeld`, for which a mimic
  entry is rebuilt from the joint MoveIt has it follow (`HeldRebuilt`).
  What bounds a robot gets is proved from the operators: folding all joints beside a chain joint
  into its limits admits what each of them admits alone (`FoldExact`, on `ThroughExact`), what is
  left still maps to whole ticks (`FoldedInTicks`), so tightening it inside the chain loses nothing
  (`TightenedAdmit`, on `TightenAdmits`), and the two together are the bounds of the group
  (`GroupByJoints`). `BoundsAdmit` and `RefusalsHaveReasons` are the two directions: what is
  admitted, and that a robot of a sound structure with anything to admit passes every check.
  `SolutionsHeld` adds two invariants: the seed of an attempt is the caller's or a drawn one
  (`StartInv`), and if the group can be at it, once repaired, it can be at whatever is collected,
  taken or judged (`HeldInv`). Such a start is inside the bounds in force (`StartHeld`), so every
  answer is inside those asked for, which are the group's (`AnswerHeld`).
  `SolversAsked` rests on `StartInv` too: a drawn seed is one number for each joint although it
  is cut from the variables of the whole robot (`DrawnSeed`), the chain of a plugin that loaded is
  one a solver can be constructed for (`ChainConstructible`), and what folding leaves maps to whole
  ticks (`LoadAsksExactly`).
- `ChainLemmas`: facts about the operators of `JointCouplings` and `Angles` for every chain and
  joint, on which the modules below and above rest. `TightenKeepsExactly`: if the ends of each mimic
  joint's bounds are in order and have integer preimages, then a configuration inside the own bounds
  of all joints, mimic joints included, is never refused, and the tightened bounds of the active
  joints admit exactly those configurations. It is proved over the extended bounds first, one
  coupling at a time for either sign of the multiplier, then through the stored spelling.
  `TightenKeepsMimics` adds that the tightened bounds of mimic joints say nothing the others do
  not, and `TightenAdmits` puts the two together. `ThroughExact` says of `tightenThroughCoupling`
  what `TightenKeepsExactly` says of `tighten`. `TightenOnce`: tightening the result again changes
  nothing, as long as no end of it grows past the sentinel (`Storable`); it needs no integer
  preimages, because the ends of a mimic joint are now positions of the joint it follows, coupled
  (`ImageBack`). `TightenTyped` gives the shape of the result, and `TightenOrdered` that its bounds are in order, also
  those of mimic joints under a negative multiplier. `FoldIsDerivative` is the chain rule for every
  chain, column, configuration and step: moving an active joint moves the sum over all joints by the
  folded column times the step. The sums of the community modules are folds over a set in an order
  nobody names, so the lemmas before it first show that such a sum is the one function on subsets
  that is 0 on the empty set and adds one element at a time (`Adds`, `AddsUnique`, `AddsExists`, by
  taking a smallest counterexample, `SmallestSubset`), and from that what a sum of differences is
  and that zeros do not count. Of angles: division with remainder,
  each branch of `NormalizeAngle`, and that turning once is enough (`TurnedOnce`).
- `JointCouplingsProofs`. The invariant of the run's machine is that the description and own bounds
  are of the kind it enumerates (`ChainInv`) and that what the last call left is what one call
  computes (`BoundsInv`), for any set of multipliers, offsets and ends. On it `TypeCorrect`,
  `TightenIsExact`, `TightenIsIdempotent` and `BoundsAreReached` state with the operators' theorems
  what the run checks, and `FoldIsTheChainRule` with `FoldIsDerivative`; `CallersFoldAgrees` compares the chain of three joints with the chain of two
  and the third folded in by the caller.
- `AnglesProofs`: `TurnsOnly`, `EndsInside` and `NormalizedOnce` prove the three invariants of the
  run for all integers.
- `KdlBranchProofs` and `NloptBranchProofs`. `IsInnerSolver` in each: initial states map to
  initial states of `InnerSolve` and each step to a step or a stutter, with `solving <- pc # "idle"`
  and the answer read off the return code. For the Newton branch the invariant is that the iterate
  is the reduced seed or inside the limits (`OnlySeedOutside`); it rests on `ConfinedInside`, that
  raising and then lowering a joint ends inside limits of any width. For the optimiser the
  invariant is that the box is inside the limits with the start in it (`StartsInside`, from
  `BroughtInside`), and that `best_x` answers whenever the progress code says so, which `HitIsKept` needs too;
  it also excludes the not-a-number code between attempts (`RetriesAfresh`). Problems are any that satisfy
  `ProblemsAssumption`, seeds any integers, steps and `Jump` anything
  (`SearchAssumption`).

Only model-checked: liveness (`KeepsPromiseInTime`, `SpeedReturnsEarly`, `StopsWhenTold` of both
branches, `EverySearchReturns`), which is out of the prover's reach. Every other property of a
passing run is stated by a theorem, some under the hypotheses above. The conditions on
bounds are in ticks and exact; that rounding does not cost more than the slack of the code is
neither proved nor checked.

## Not modelled

- The destructor, and a `std::thread` constructor that fails. If the second thread cannot be
  created, `CartToJnt` is left by an exception while the first thread still reads the query of that
  frame, although the comment above says both are joined; what follows is undefined, and the next
  call would assign to a joinable thread.
- The numerics of a velocity step and NLopt itself; floating-point rounding, including the middle
  of half-bounded limits near 1e38 and joint limits read into floats; the distribution of random
  seeds, and the data races on the state of `rand` and of the plugin's generator.
- Several searches of one plugin at once: they share only that generator. A second `initialize` of
  one plugin, which would append to its name lists: MoveIt makes a plugin for each group. A system
  clock that is set back. Overrides in `joint_limits.yaml`, which the code sees on one side only
  (the comment at `trac_ik_kinematics_plugin.cpp:291-293` says so).
- The Python wrapper, benchmark, build and CI, which hold no protocol, and the tests.

The abort flag is a plain `bool` (`kdl_tl.hpp:133`) that one thread writes and another polls: the
model takes reads and writes as atomic and eventually seen. No property speaks of the race itself.
The loop reads the clock between two polls, which keeps a compiler from reading the flag only once;
without that, only the early end of a call (`SpeedReturnsEarly`) would be lost.

## Plan

1. *Done*: `JointCouplings`, `Angles`, `Mechanism`, `TracIk`, `IkQuery` with their runs, and the
   theorems above.
2. *Done*: `KdlBranch` and `NloptBranch`, the loops inside the inner solvers, each proved to
   implement `InnerSolve`.
3. *Done*: `Plugin`, composed with `IkQuery` as its solver, and proved to implement `IkSearch`.
4. *Done*: the racer proved to implement `IkQuery`.
5. *Done*: that candidates are answers (`AllAnswer`), and what bounds a robot is searched in
   (`BoundsAdmit`, `RefusalsHaveReasons`, `SolutionsHeld`), from the theorems about `tighten` and
   `NormalizeAngle`.
6. *Done*: that the layers fit: what the racer asks of the branches (`InnerSolversGiven`), what the
   plugin asks of the racer (`SolversAsked`), and the fold (`FoldIsTheChainRule`).
7. Left: the destructor during and after a call, and a thread that cannot be created, in `TracIk`.
