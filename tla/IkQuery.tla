-------------------------------- MODULE IkQuery --------------------------------
(***************************************************************************)
(* What TRAC_IK promises of a call to CartToJnt, with no threads, lock,    *)
(* abort flags or cached solvers in it: a question is refused at once or   *)
(* answered with the best of the candidates collected for it, and nothing  *)
(* an earlier question left behind has any part in that.                   *)
(***************************************************************************)
EXTENDS Integers, FiniteSets

CONSTANTS
  Mechanisms, Queries, NoQuery,
  WellFormed(_, _),           \* the mechanism can be asked this
  IsAnswer(_, _, _),          \* the configuration answers it ...
  AtLeastAsGood(_, _, _, _),  \* ... at least as well as another one does
  Searchers                   \* how many searches share a question

VARIABLES
  mech,      \* the mechanism, fixed
  query,     \* the question asked last
  searching, \* it is not answered yet
  expired,   \* its time is up
  cands,     \* the candidates collected for it
  answer     \* the last answer: return code and configuration

vars == <<mech, query, searching, expired, cands, answer>>

Refused == [rc |-> -1, q_out |-> <<>>]
Pending == [rc |-> 0, q_out |-> <<>>]

Init ==
  /\ mech \in Mechanisms
  /\ searching = FALSE /\ expired = FALSE /\ cands = {}
  /\ query = NoQuery
  /\ answer = Refused

Ask(q) ==
  /\ ~searching /\ WellFormed(mech, q)
  /\ query' = q /\ searching' = TRUE
  /\ expired' = (q.timeout <= 0)
  /\ cands' = {} /\ answer' = Pending
  /\ UNCHANGED mech

Refuse(q) ==
  /\ ~searching /\ ~WellFormed(mech, q)
  /\ answer' = Refused
  /\ UNCHANGED <<mech, query, searching, expired, cands>>

\* Under Speed each searcher stops at the first candidate there is, so no more
\* are collected than there are searchers.
Collect(c) ==
  /\ searching /\ c \notin cands /\ IsAnswer(mech, query, c)
  /\ query.solve_type = "Speed" => Cardinality(cands) < Searchers
  /\ cands' = cands \cup {c}
  /\ UNCHANGED <<mech, query, searching, expired, answer>>

Expire ==
  /\ searching /\ ~expired
  /\ expired' = TRUE
  /\ UNCHANGED <<mech, query, searching, cands, answer>>

\* Only a Speed question with a candidate may be answered before its time is
\* up, and only a question without one is answered with the caller's own seed.
Answer ==
  /\ searching
  /\ expired \/ (query.solve_type = "Speed" /\ cands # {})
  /\ \/ /\ cands = {}
        /\ answer' = [rc |-> -3, q_out |-> query.seed]
     \/ \E c \in cands :
          /\ \A other \in cands \ {c} : AtLeastAsGood(mech, query, c, other)
          /\ answer' = [rc |-> Cardinality(cands), q_out |-> c]
  /\ searching' = FALSE /\ expired' = FALSE /\ cands' = {}
  /\ UNCHANGED <<mech, query>>

Next ==
  \/ \E q \in Queries : Ask(q) \/ Refuse(q)
  \/ \E c \in cands' : Collect(c)
  \/ Expire
  \/ Answer

SafeSpec == Init /\ [][Next]_vars

\* Time passes, and a question that may be answered is.
Live == WF_vars(Expire) /\ WF_vars(Answer)

Spec == SafeSpec /\ Live

=============================================================================
