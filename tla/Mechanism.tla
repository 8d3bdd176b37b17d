------------------------------- MODULE Mechanism -------------------------------
(***************************************************************************)
(* What TRAC_IK knows of a mechanism and computes from a configuration of  *)
(* it: the pure part of trac_ik_lib/src/trac_ik.cpp.                       *)
(*                                                                         *)
(* A mechanism is given as a record g with the sequences                   *)
(*   kinds     : "Rot" or "Trans" for each chain joint,                    *)
(*   rev       : ticks in a revolution of the joint,                       *)
(*   lb, ub    : its own bounds, in the stored spelling,                   *)
(*   couplings : a description, empty for an uncoupled chain.              *)
(***************************************************************************)
EXTENDS JointCouplings, Angles

CONSTANT SameTol   \* configurations this close in every joint are the same one

\* The tolerance 1e-4 of myEqual, in ticks.
ASSUME SameTolAssumption == SameTol \in Nat

\* What the constructor's arguments hold: one kind, one lower and one upper bound
\* for each joint, and couplings.
Constructible(g) ==
  /\ g.kinds \in Seq({"Rot", "Trans"})
  /\ g.rev \in [DOMAIN g.kinds -> Nat \ {0}]
  /\ g.lb \in Seq(Int) /\ Len(g.lb) = Len(g.kinds)
  /\ g.ub \in Seq(Int) /\ Len(g.ub) = Len(g.kinds)
  /\ g.couplings \in Seq(Coupling)

\* What an inner solver is constructed with: a valid description and its
\* effective bounds, which leave every joint something.
Searchable(p) ==
  /\ p.kinds \in Seq({"Rot", "Trans"})
  /\ p.rev \in [DOMAIN p.kinds -> Nat \ {0}]
  /\ p.couplings \in Seq(Coupling) /\ Valid(p.couplings)
  /\ DOMAIN p.couplings = DOMAIN p.kinds
  /\ p.lb \in [DOMAIN p.kinds -> Int] /\ p.ub \in [DOMAIN p.kinds -> Int]
  /\ \A i \in DOMAIN p.kinds : p.lb[i] <= p.ub[i]

-----------------------------------------------------------------------------
(* Classification.                                                         *)

Types(kinds, lb, ub) ==
  [i \in DOMAIN kinds |->
     IF kinds[i] = "Rot" /\ ub[i] >= Sentinel /\ lb[i] <= -Sentinel
     THEN "Continuous" ELSE kinds[i]]

\* Fault: any follower of the same kind shares a revolution.
SharesWithAnyMultiplier(d, kinds, rev) ==
  [m \in DOMAIN d |-> \A i \in Followers(d, m) : kinds[i] = kinds[m]]

\* The joints whose revolution is a revolution of everything that follows
\* them.  multiplier * rev[m] / rev[i] is the multiplier without its units.
SharesRevolutions(d, kinds, rev) ==
  [m \in DOMAIN d |->
     \A i \in Followers(d, m) :
       kinds[i] = kinds[m] /\ (d[i].multiplier * rev[m]) % rev[i] = 0]

\* The constructor: the effective bounds and the classification that is fixed
\* by the mechanism, or a mechanism that will refuse every call.
Initialize(g) ==
  LET n == Len(g.kinds)
      d == IF g.couplings = <<>> THEN Uncoupled(n) ELSE g.couplings
      t == Tighten(d, g.lb, g.ub)
      ok == Valid(d) /\ Len(d) = n /\ t.ok
  IN  [initialized |-> ok,
       kinds |-> g.kinds, rev |-> g.rev,
       own_lb |-> g.lb, own_ub |-> g.ub,
       couplings |-> d, lb |-> t.lb, ub |-> t.ub,
       shares_revolutions |-> IF ok THEN SharesRevolutions(d, g.kinds, g.rev) ELSE <<>>]

-----------------------------------------------------------------------------
(* Configurations.                                                         *)

RebuildMimicEntries(d, full) == Expand(d, Reduce(d, full))

\* The seed both branches start from: the caller's, with the joints a coupling
\* reads clamped into the bounds in force.
RepairSeed(d, types, full, lb, ub) ==
  RebuildMimicEntries(d,
    [i \in DOMAIN full |->
       IF ~IsMimic(d, i) /\ IsMimicked(d, i) /\ types[i] # "Continuous"
       THEN Min({Max({full[i], lb[i]}), ub[i]}) ELSE full[i]])

Manip == {"Manip1", "Manip2", "Manip3"}

\* normalize_limits aims a limited joint at the middle of its limits,
\* normalize_seed aims every joint at the seed.
Target(solve_type, type, seed, lb, ub) ==
  IF solve_type \in Manip /\ type # "Continuous" THEN (ub + lb) \div 2 ELSE seed

Normalize(m, types, solve_type, seed, solution, lb, ub) ==
  RebuildMimicEntries(m.couplings,
    [i \in DOMAIN solution |->
       LET target == Target(solve_type, types[i], seed[i], lb[i], ub[i]) IN
       IF IsMimic(m.couplings, i) \/ types[i] = "Trans" \/ ~m.shares_revolutions[i]
       THEN solution[i]
       ELSE IF types[i] = "Continuous" THEN NormalizeNear(solution[i], target, m.rev[i])
       ELSE NormalizeInto(solution[i], target, lb[i], ub[i], m.rev[i])])

\* Squared distance over the joints the solver chooses.
JointErr(d, a, b) ==
  MapThenSumSet(LAMBDA i : (a[i] - b[i]) * (a[i] - b[i]), Active(d))

\* myEqual
Same(a, b) == \A i \in DOMAIN a : a[i] - b[i] \in -SameTol..SameTol

\* Fault: a joint at the end of its limits is passed over.
PenaltyPastEnds(types, full, lb, ub) ==
  LET room(i) == (full[i] - lb[i]) * (ub[i] - full[i])
  IN  Cardinality({i \in DOMAIN full : types[i] # "Continuous" /\ room(i) < 0}) % 2 = 0

\* manipPenalty is positive exactly when the product over the limited joints of
\* (distance to the lower end) * (distance to the upper end) / range^2 is.  A
\* joint pinned to where it is makes it 0/0, not a number, which max turns into
\* 0; one away from its pin makes it infinite, and only the sign tells.
PenaltyPositive(types, full, lb, ub) ==
  LET room(i) == (full[i] - lb[i]) * (ub[i] - full[i])
      limited == {i \in DOMAIN full : types[i] # "Continuous"}
  IN  /\ \A i \in limited : room(i) # 0
      /\ Cardinality({i \in limited : room(i) < 0}) % 2 = 0

=============================================================================
