----------------------------- MODULE TxPromise -----------------------------
(***************************************************************************)
(* What the coordinator promises about one transaction group, without the  *)
(* store, the requests or the messages: members join, each is decided once *)
(* and finally, and the starter gets one answer                            *)
(*    "1"   every member has the decision meant for it,                    *)
(*    "-1"  no member commits,                                             *)
(*    "0"   nothing: the starter must have the group compensated.          *)
(* These are the return values TxManagerService documents for              *)
(* closeTransactionGroup.                                                  *)
(***************************************************************************)
CONSTANT Members

VARIABLES
  joined,    \* the members that joined and are decided one by one
  outcome,   \* per member: "open", "committed" or "rolledback"
  closed,    \* the starter has closed the group
  answer,    \* what the starter was answered
  normal     \* the group is not a compensation: all of it is to commit

pvars == <<joined, outcome, closed, answer, normal>>

Init ==
  /\ joined = {}
  /\ outcome = [m \in Members |-> "open"]
  /\ closed = FALSE
  /\ answer = "none"
  /\ normal \in BOOLEAN

\* Members join while the answer does not bind the starter to a commit.
Join(m) ==
  /\ answer # "1"
  /\ joined' = joined \cup {m}
  /\ UNCHANGED <<outcome, closed, answer, normal>>

Close ==
  /\ ~closed
  /\ closed' = TRUE
  /\ UNCHANGED <<joined, outcome, answer, normal>>

Commit(m) ==
  /\ m \in joined /\ outcome[m] = "open"
  /\ closed /\ answer # "-1"
  /\ outcome' = [outcome EXCEPT ![m] = "committed"]
  /\ UNCHANGED <<joined, closed, answer, normal>>

Rollback(m) ==
  /\ m \in joined /\ outcome[m] = "open"
  /\ outcome' = [outcome EXCEPT ![m] = "rolledback"]
  /\ UNCHANGED <<joined, closed, answer, normal>>

AnswerCommitted ==
  /\ closed
  /\ \A m \in joined : outcome[m] # "open" /\ (normal => outcome[m] = "committed")
  /\ answer' = "1"

AnswerForced ==
  /\ closed
  /\ \A m \in Members : outcome[m] # "committed"
  /\ answer' = "-1"

AnswerCompensate == answer' = "0"

Answer ==
  /\ answer = "none"
  /\ AnswerCommitted \/ AnswerForced \/ AnswerCompensate
  /\ closed' = TRUE
  /\ UNCHANGED <<joined, outcome, normal>>

Next ==
  \/ Close \/ Answer
  \/ \E m \in Members : Join(m) \/ Commit(m) \/ Rollback(m)

Spec == Init /\ [][Next]_pvars
=============================================================================
