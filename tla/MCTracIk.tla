-------------------------------- MODULE MCTracIk --------------------------------
(***************************************************************************)
(* Small mechanisms and queries for TracIk.  A tick of joint position is   *)
(* an eighth or a quarter of a revolution, so every seed, bound and wrap   *)
(* case occurs within a dozen positions.                                   *)
(***************************************************************************)
EXTENDS TracIk

Unbounded == 100

Follows(m, multiplier, offset) ==
  [mimicked |-> m, multiplier |-> multiplier, offset |-> offset,
   finite |-> TRUE, variable_count |-> 1]

\* A wrist that follows the shoulder at half its speed, and a free joint: its
\* own limits tighten the shoulder's, and a revolution of the shoulder is half
\* a one of the wrist.
HalfWrist ==
  [kinds |-> <<"Rot", "Rot", "Rot">>, rev |-> <<4, 8, 4>>,
   lb |-> <<-6, -3, -Unbounded>>, ub |-> <<6, 3, Unbounded>>,
   couplings |-> <<ActiveJoint, Follows(1, 1, 0), ActiveJoint>>]

\* The crane's shape: the mimic joint comes first and turns the other way.
Crane ==
  [kinds |-> <<"Rot", "Rot", "Trans">>, rev |-> <<4, 4, 4>>,
   lb |-> <<-3, -4, 0>>, ub |-> <<3, 4, 3>>,
   couplings |-> <<Follows(2, -1, 1), ActiveJoint, ActiveJoint>>]

\* Two joints, one of them a mimic: the optimising branch is not started.
OneActive ==
  [kinds |-> <<"Rot", "Rot">>, rev |-> <<4, 4>>,
   lb |-> <<-3, -4>>, ub |-> <<3, 4>>,
   couplings |-> <<ActiveJoint, Follows(1, 2, 0)>>]

\* A mimic joint that follows a joint outside the chain: never initialised.
Broken == [OneActive EXCEPT !.couplings = <<ActiveJoint, Follows(3, 2, 0)>>]

\* Uncoupled: a slide and a limited joint.
Gantry ==
  [kinds |-> <<"Trans", "Rot">>, rev |-> <<4, 4>>,
   lb |-> <<0, -2>>, ub |-> <<2, 2>>, couplings |-> <<>>]

CoupledMechanisms == {HalfWrist, Crane, OneActive, Broken}
GantryMechanisms  == {Gantry}

MCPositions == -6..6

-----------------------------------------------------------------------------
(* Kinematics: a goal names a total turn, in eighths of a revolution, and  *)
(* a reach.  The goals of the half wrist and of the crane are out of reach *)
(* for a mechanism coupled differently.                                    *)

Turn(eighths, target) == LET off == (eighths - target) % 8 IN Min({off, 8 - off})
Distance(x, y) == Abs(x - y)

MCResidual(goal, c) ==
  CASE goal = "half"  /\ c[2] = c[1]     -> Turn(2*c[1] + c[2] + 2*c[3], 2)
    [] goal = "crane" /\ c[1] = 1 - c[2] -> Turn(2*c[1] + 4*c[2], 4) + Distance(c[3], 1)
    [] goal = "single"  -> Turn(2*c[1] + 2*c[2], 2)
    [] goal = "gantry"  -> Distance(c[1], 1) + Turn(2*c[2], 4)
    [] goal = "far"     -> Distance(c[1], 4) + Turn(2*c[2], 0)
    [] OTHER            -> 99

\* Largest where the last joint is at zero or a revolution away from it, and a
\* little larger with the first one in the middle of its limits.
MCManipValue(solve_type, bounds, c) ==
  1 + Abs((c[Len(c)] % 4) - 2) + (IF 2 * c[1] = bounds[1][1] + bounds[2][1] THEN 1 ELSE 0)

-----------------------------------------------------------------------------
(* Queries.                                                                *)

Ask(start, goal, solve_type) ==
  [seed |-> start, goal |-> goal, timeout |-> 2, epsilon |-> 1,
   solve_type |-> solve_type, q_min |-> <<>>, q_max |-> <<>>]

Between(q, lo, hi) == [q EXCEPT !.q_min = lo, !.q_max = hi]
Loosely(q)         == [q EXCEPT !.epsilon = 2]

\* Of the half wrist: seeds off their coupling, and a call that bounds the
\* continuous joint.  Of the crane: its own bounds handed back, a slide pinned
\* for one call that starts beside it, bounds no configuration is inside, arguments of the wrong
\* size.  Of the mechanism with one active joint: its only goal.  Asked of
\* another mechanism, each has the wrong size or no answer.
CoupledQueries ==
  {Ask(<<0, 0, 0>>, "half", "Speed"),
   Ask(<<-3, 3, 1>>, "half", "Distance"),
   Between(Ask(<<2, 2, 0>>, "half", "Speed"), <<-6, -3, -1>>, <<6, 3, 2>>),
   Loosely(Ask(<<5, -6, 1>>, "crane", "Manip1")),
   Loosely(Between(Ask(<<0, -3, 0>>, "crane", "Distance"), <<-3, -4, 0>>, <<3, 4, 3>>)),
   Loosely(Between(Ask(<<0, 1, 2>>, "crane", "Manip2"), <<-1, -4, 1>>, <<1, 4, 1>>)),
   Between(Ask(<<0, 1, 1>>, "crane", "Speed"), <<2, 0, 0>>, <<3, 4, 2>>),
   Between(Ask(<<0, 1, 1>>, "crane", "Speed"), <<-3, -4>>, <<3, 4>>),
   Ask(<<0, 0>>, "single", "Distance")}

\* Of the gantry: goals it reaches, one it does not, and bounds of the call's own
\* with a seed outside them.
GantryQueries ==
  {Ask(<<0, 1>>, "gantry", "Speed"), Ask(<<2, -1>>, "gantry", "Manip3"),
   Ask(<<0, 0>>, "nowhere", "Distance"), Ask(<<0, 0>>, "nowhere", "Speed"),
   Loosely(Between(Ask(<<4, 0>>, "far", "Distance"), <<0, -2>>, <<3, 2>>)),
   Ask(<<0>>, "gantry", "Speed")}

\* A seed past the end of the slide that reaches the goal there.
OutsideQueries == {Ask(<<4, 0>>, "far", "Speed")}
\* The sign of epsilon, which only a solver that is not rebuilt drops.
SignedQueries  == {[Ask(<<0, 1>>, "gantry", "Speed") EXCEPT !.epsilon = -1]}
=============================================================================
