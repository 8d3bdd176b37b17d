-------------------------------- MODULE IkSearch --------------------------------
(***************************************************************************)
(* What TRAC_IKKinematicsPlugin promises MoveIt of a searchPositionIK, with *)
(* no retries, seeds, budgets or solver in it: a request that cannot be    *)
(* searched fails at once; any other one ends, with a solution the         *)
(* callback accepts, or without one when its time is up.                   *)
(***************************************************************************)
EXTENDS Naturals

CONSTANTS
  Requests, NoRequest, NoCallback, Unloaded,
  Ready(_, _),       \* a plugin can search for this
  Answers(_, _, _)   \* a configuration of its robot answers it

VARIABLES
  plugin,     \* the plugin, Unloaded before initialize
  request,    \* what was asked last
  searching,  \* and is not answered yet
  late,       \* its time is up
  reply       \* what the last search returned

vars == <<plugin, request, searching, late, reply>>

Failed  == [ok |-> FALSE, error_code |-> "NO_IK_SOLUTION", solution |-> <<>>]
Pending == [ok |-> FALSE, error_code |-> "none", solution |-> <<>>]

Init ==
  /\ plugin = Unloaded /\ request = NoRequest
  /\ searching = FALSE /\ late = FALSE
  /\ reply = Pending

Load ==
  /\ plugin = Unloaded /\ plugin' # Unloaded
  /\ UNCHANGED <<request, searching, late, reply>>

Ask(q) ==
  /\ ~searching /\ Ready(plugin, q)
  /\ request' = q /\ searching' = TRUE /\ late' = (q.timeout = 0)
  /\ reply' = Pending
  /\ UNCHANGED plugin

Refuse(q) ==
  /\ ~searching /\ ~Ready(plugin, q)
  /\ reply' = Failed
  /\ UNCHANGED <<plugin, request, searching, late>>

Expire ==
  /\ searching /\ ~late
  /\ late' = TRUE
  /\ UNCHANGED <<plugin, request, searching, reply>>

\* The error code says SUCCESS if a callback was asked, whoever wrote it, and is
\* the caller's own otherwise.
Succeed ==
  /\ searching /\ reply'.ok
  /\ Answers(plugin, request, reply'.solution)
  /\ reply' = [ok |-> TRUE,
               error_code |-> IF request.callback = NoCallback THEN request.error_code
                                                               ELSE "SUCCESS",
               solution |-> reply'.solution]
  /\ searching' = FALSE /\ late' = FALSE
  /\ UNCHANGED <<plugin, request>>

Fail ==
  /\ searching /\ late
  /\ reply' = Failed
  /\ searching' = FALSE /\ late' = FALSE
  /\ UNCHANGED <<plugin, request>>

Next == Load \/ (\E q \in Requests : Ask(q) \/ Refuse(q)) \/ Expire \/ Succeed \/ Fail

SafeSpec == Init /\ [][Next]_vars

\* Every search returns.
Live == searching ~> ~searching

=============================================================================
