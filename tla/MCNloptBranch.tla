----------------------------- MODULE MCNloptBranch -----------------------------
(***************************************************************************)
(* Small problems for NloptBranch.                                         *)
(***************************************************************************)
EXTENDS NloptBranch

\* The goal is a total of the joints' positions, modulo a revolution of 4.
MCResidual(goal, c) == LET off == (SumFunction(c) - goal) % 4 IN Min({off, 4 - off})

Follows(m, multiplier, offset) ==
  [mimicked |-> m, multiplier |-> multiplier, offset |-> offset,
   finite |-> TRUE, variable_count |-> 1]

\* A joint with less than a revolution of room, one that follows it the other
\* way, and a slide; a continuous joint beside one with more room; a goal out
\* of reach; and a single variable.
Narrow == [kinds |-> <<"Rot", "Rot", "Trans">>, rev |-> <<4, 4, 4>>,
           couplings |-> <<ActiveJoint, Follows(1, -2, 1), ActiveJoint>>,
           lb |-> <<-1, -1, 0>>, ub |-> <<1, 3, 2>>, goal |-> 2, eps |-> 1]
Wide   == [kinds |-> <<"Rot", "Rot">>, rev |-> <<4, 4>>,
           couplings |-> Uncoupled(2),
           lb |-> <<-2, -Sentinel>>, ub |-> <<3, Sentinel>>, goal |-> 1, eps |-> 1]
Stuck  == [Wide EXCEPT !.eps = 0]
Single == [Narrow EXCEPT !.kinds = <<"Rot", "Rot">>, !.rev = <<4, 4>>,
             !.couplings = <<ActiveJoint, Follows(1, -2, 1)>>,
             !.lb = <<-1, -1>>, !.ub = <<1, 3>>]

MCProblems      == {Narrow, Wide, Stuck, Single}
MCSeedPositions == {-6, 0, 4}
=============================================================================
