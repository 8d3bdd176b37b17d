-------------------------------- MODULE MCPlugin --------------------------------
(***************************************************************************)
(* Robots for the plugin to load, two that it can drive and one for each   *)
(* reason it has to refuse, and searches to ask of them.  A tick of joint  *)
(* position is an eighth of a revolution.                                  *)
(***************************************************************************)
EXTENDS Plugin

Revolute(lower, upper) ==
  [type |-> "revolute", lower |-> lower, upper |-> upper,
   soft |-> FALSE, soft_lower |-> 0, soft_upper |-> 0, rev |-> 8]
Softly(u, lower, upper) == [u EXCEPT !.soft = TRUE, !.soft_lower = lower, !.soft_upper = upper]
OfType(type) == [Revolute(-3, 3) EXCEPT !.type = type]

\* A joint of the robot model, and one that mimics another.
Bounded(min, max) ==
  [variables |-> 1, mimics |-> NoJoint, multiplier |-> 1, offset |-> 0, finite |-> TRUE,
   bounded |-> TRUE, min |-> min, max |-> max]
Mimicking(j, multiplier, offset, min, max) ==
  [Bounded(min, max) EXCEPT !.mimics = j, !.multiplier = multiplier, !.offset = offset]

Segments(joints) == [k \in DOMAIN joints |-> [link |-> <<"after", joints[k]>>, joint |-> joints[k]]]

-----------------------------------------------------------------------------
(* Robots.                                                                 *)

\* The second joint is followed, reversed, inside the chain, by a narrower joint
\* of the group beside it, and by one that the group does not have and that
\* could not follow it anywhere.  The first joint has a safety controller.  The
\* model lists the joint beside the chain first.
Branching ==
  [tips |-> 1, connected |-> TRUE,
   chain |-> Segments(<<"turret", "lift", "level", "tool">>),
   urdf  |-> [turret |-> Softly(Revolute(-2, 3), -3, 1), lift |-> Revolute(-3, 4),
              level |-> Revolute(-3, 3), tool |-> OfType("fixed")],
   model |-> [turret |-> Bounded(-2, 3), lift |-> Bounded(-3, 4),
              level  |-> Mimicking("lift", -1, 1, -3, 3),
              beside |-> Mimicking("lift", 1, 0, -1, 2),
              astray |-> Mimicking("lift", 1, 9, -1, 0)],
   group |-> {"turret", "lift", "level", "beside"},
   variables |-> <<"beside", "level", "turret", "lift", "astray">>]

\* A joint without limits, which only the joint beside it limits, on a slide.
\* The slide carries a table of three variables as well, outside the group.
Wheeled ==
  [tips |-> 1, connected |-> TRUE,
   chain |-> Segments(<<"slide", "wheel">>),
   urdf  |-> [slide |-> [Revolute(0, 2) EXCEPT !.type = "prismatic"], wheel |-> OfType("continuous")],
   model |-> [slide |-> Bounded(0, 2), table |-> [Bounded(-1, 1) EXCEPT !.variables = 3],
              wheel |-> [Bounded(-4, 4) EXCEPT !.bounded = FALSE],
              gear |-> Mimicking("wheel", 2, 0, -2, 4)],
   group |-> {"slide", "wheel", "gear"},
   variables |-> <<"slide", "table", "table", "table", "wheel", "gear">>]

\* A joint at the end of the chain that KDL gives no variable.
Planar ==
  [Wheeled EXCEPT
     !.chain = Segments(<<"slide", "wheel", "table">>),
     !.urdf  = [table |-> OfType("planar")] @@ @,
     !.group = @ \cup {"table"}]

ModelWith(r, j, f) == [r EXCEPT !.model[j] = f]

Unusable ==
  {Planar,
   [Wheeled EXCEPT !.tips = 2],
   [Wheeled EXCEPT !.connected = FALSE],
   [Wheeled EXCEPT !.group = {}],
   [Wheeled EXCEPT !.group = {"slide"}],
   \* the chain follows a joint outside it
   ModelWith(ModelWith(Wheeled, "gear", Bounded(-2, 4)), "slide", Mimicking("gear", 1, 0, 0, 2)),
   \* couplings that are not numbers, inside and outside the chain
   ModelWith(Branching, "level",  [Branching.model.level  EXCEPT !.finite = FALSE]),
   ModelWith(Branching, "beside", [Branching.model.beside EXCEPT !.finite = FALSE]),
   \* two variables to follow with
   ModelWith(Branching, "beside", [Branching.model.beside EXCEPT !.variables = 2]),
   \* nothing satisfies the joint beside the chain, pinned or not
   ModelWith(Branching, "beside", Mimicking("lift", 1, 7, -1, 2)),
   ModelWith(Branching, "beside", Mimicking("lift", 0, 3, -1, 2)),
   \* ... the two beside it together
   [ModelWith(Branching, "astray", Mimicking("lift", -1, 0, -3, -3)) EXCEPT !.group = @ \cup {"astray"}],
   \* ... or the mimic joint in the chain, or the safety controller
   [Branching EXCEPT !.urdf.level = Revolute(5, 6)],
   [Branching EXCEPT !.urdf.turret = Softly(@, 4, 5)]}

\* The joint beside the chain is pinned where it may be.
Pinned == ModelWith(Branching, "beside", Mimicking("lift", 0, 2, -1, 2))

Params(solve_type, position_only) ==
  [epsilon |-> 1, solve_type |-> solve_type, position_only |-> position_only]

MCLoads ==
  {[robot |-> Branching, params |-> Params("Speed", FALSE)],
   [robot |-> Branching, params |-> Params("Distance", TRUE)],
   [robot |-> Pinned,    params |-> Params("Fast", FALSE)],
   [robot |-> Wheeled,   params |-> Params("Manipulation2", FALSE)]}
  \cup {[robot |-> r, params |-> Params("Speed", FALSE)] : r \in Unusable}

-----------------------------------------------------------------------------
(* Searches.                                                               *)

MCPositions == -4..4

\* A pose is how far the first two joints go together, and which way.
Pose(reach, turn) == [reach |-> reach, turns |-> {turn}]
MCLoosened(pose)  == [pose EXCEPT !.turns = {0, 1}]

Apart(x, y) == IF x < y THEN y - x ELSE x - y
MCResidual(pose, c) ==
  Apart(c[1] + c[2], pose.reach) + (IF c[1] % 2 \in pose.turns THEN 0 ELSE 9)

MCManipValue(solve_type, bounds, c) == 4 - Apart(c[1], 0)

\* Both callbacks reject some of what reaches a pose; of the rest one says that it
\* is accepted, and the other says nothing, so that it never accepts anything for
\* a caller whose own code is not SUCCESS.
MCWrites(callback, c) ==
  CASE c[2] <= 1                -> "INVALID"
    [] callback = "raised"      -> "SUCCESS"
    [] callback = "objecting"   -> Silent

\* A link's pose is where the joints before it are.
MCLinkPose(k, c) == [i \in 1..Min({k, Len(c)}) |-> c[i]]

MCDefaultTimeout == 1

MCRequests ==
  {SearchRequest(Pose(1, 1), <<0, 0, 1>>, 2, "raised", "unset"),
   SearchRequest(Pose(2, 0), <<0, 0>>, 2, "raised", "SUCCESS"),
   SearchRequest(Pose(1, 1), <<0, 0, 1>>, 1, "objecting", "SUCCESS"),
   SearchRequest(Pose(2, 0), <<0, 0>>, 1, "objecting", "unset"),
   UnjudgedRequest(Pose(1, 1), <<3, 3, 3>>, 0, "unset"),
   UnjudgedRequest(Pose(2, 0), <<0, 0>>, 1, "unset"),
   PositionIKRequest(Pose(1, 1), <<0, 0, 1>>, "unset"),
   PositionIKRequest(Pose(1, 1), <<0>>, "unset")}

\* Mimic entries as the couplings would have them and not, the tip and a link
\* inside the chain, and a link it does not have.
MCFkRequests ==
  [links : {<<<<"after", "tool">>, <<"after", "lift">>>>, <<<<"after", "gear">>>>,
            <<<<"after", "wheel">>>>},
   angles : {<<1, 1, 0>>, <<1, 2, 2>>, <<1, 2>>}]

\* The conditions under which the theorems about bounds are proved hold of the
\* robots and the searches here.
ASSUME ConditionsMet == LimitsInTicks /\ PositionsInRange /\ SeedsInRange

=============================================================================
