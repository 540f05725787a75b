------------------------- MODULE TxRefinementProofs -------------------------
(***************************************************************************)
(* TxManager implements TxPromise, for any set of members.                 *)
(***************************************************************************)
EXTENDS TxManagerProofs

\* The starter has no answer before the close is over, and grouped members are
\* neither notified nor do they ask.
InvSilent ==
  /\ ctg # "done" => ctgAns = "none"
  /\ \A m \in Members : net[m] # "none" \/ ckg[m] # "idle" => m \notin Grouped

\* What the promise calls joined and closed.
Decided == Joined \ Grouped
Closed == ctg \notin {"idle", "open", "save"}

-----------------------------------------------------------------------------

\* Every step keeps InvSilent.
LEMMA SilentNext == IInv /\ InvSilent /\ [Next]_vars => InvSilent'
<1> SUFFICES ASSUME IInv, InvSilent, [Next]_vars
             PROVE  InvSilent'
  OBVIOUS
<1> USE DEF IInv, TypeOK, InvSilent, groupVars, joinVars, ckgVars, rgVars, ctgVars, netVars,
    compVars
<1>1. CASE CreateGroup \/ RgRead \/ RgSave \/ CompRead \/ CompSave \/ Expire
  BY <1>1 DEF CreateGroup, RgRead, RgSave, CompRead, CompSave, Expire
<1>2. CASE CtgSave
  BY <1>2 DEF CtgSave, NotifyCommit, NotifyRollback, Direction, Reachable, Notifiable
<1>3. CASE CtgDelete \/ CtgJoin \/ CtgDeal
  BY <1>3 DEF CtgDelete, CtgJoin, CtgDeal
<1>4. ASSUME NEW s \in {0, 1}, CtgRead(s) PROVE InvSilent'
  BY <1>4 DEF CtgRead, MayClose
<1>5. ASSUME NEW m \in Members, AtgRead(m) \/ AtgSave(m) PROVE InvSilent'
  BY <1>5 DEF AtgRead, AtgSave
<1>6. ASSUME NEW m \in Members, CkgRead(m) PROVE InvSilent'
  BY <1>6 DEF CkgRead
<1>7. ASSUME NEW m \in Members, CkgSave(m) PROVE InvSilent'
  BY <1>7 DEF CkgSave, CkgNotOver, CkgRollback, CkgClosed
<1>8. ASSUME NEW m \in Members, CkgAnswered(m) PROVE InvSilent'
  BY <1>8 DEF CkgAnswered, Apply
<1>9. ASSUME NEW m \in Members, Deliver(m) PROVE InvSilent'
  BY <1>9 DEF Deliver, Apply
<1>10. ASSUME NEW m \in Members, ReplyArrives(m) \/ TaskTimeout(m) \/ TaskRead(m)
       PROVE  InvSilent'
  BY <1>10 DEF ReplyArrives, TaskTimeout, TaskRead
<1>11. CASE UNCHANGED vars
  BY <1>11 DEF vars
<1> QED
  BY <1>1, <1>2, <1>3, <1>4, <1>5, <1>6, <1>7, <1>8, <1>9, <1>10, <1>11 DEF Next

\* A decision that reaches a member is a step of the promise, when the member
\* takes part and a commit comes after the close and not against the answer.
LEMMA ApplyStep ==
  ASSUME NEW m \in Members, NEW d \in {"commit", "rollback"},
         part \in [Members -> PartStates], Apply(m, d), m \notin Grouped,
         UNCHANGED <<ctg, ctgAns, record>>,
         d = "commit" => Closed /\ ctgAns # "-1"
  PROVE  Promise!Next \/ UNCHANGED Promise!pvars
<1> USE DEF PartStates, Compensating
<1>1. CASE part[m] # "joined"
  <2>1. part' = part
    BY <1>1 DEF Apply
  <2> QED
    BY <2>1 DEF Promise!pvars, Joined, Outcome
<1>2. CASE part[m] = "joined"
  <2>1. part' = [part EXCEPT ![m] = IF d = "commit" THEN "committed" ELSE "rolledback"]
    BY <1>2 DEF Apply
  <2>2. Joined' = Joined /\ m \in Joined
    BY <1>2, <2>1 DEF Joined
  <2>3. Outcome(m) = "open"
    BY <1>2 DEF Outcome
  <2>4. [n \in Members |-> Outcome(n)]'
          = [[n \in Members |-> Outcome(n)] EXCEPT
               ![m] = IF d = "commit" THEN "committed" ELSE "rolledback"]
    BY <2>1 DEF Outcome
  <2>5. CASE d = "commit"
    <3>1. Promise!Commit(m)
      BY <2>2, <2>3, <2>4, <2>5 DEF Promise!Commit, Closed
    <3> QED
      BY <3>1 DEF Promise!Next
  <2>6. CASE d = "rollback"
    <3>1. Promise!Rollback(m)
      BY <2>2, <2>3, <2>4, <2>6 DEF Promise!Rollback, Closed
    <3> QED
      BY <3>1 DEF Promise!Next
  <2> QED
    BY <2>5, <2>6
<1> QED
  BY <1>1, <1>2

\* Every step of the coordinator is a step of the promise or changes nothing
\* the promise speaks of.
LEMMA PromiseStep ==
  IInv /\ InvSilent /\ [Next]_vars => Promise!Next \/ UNCHANGED Promise!pvars
<1> SUFFICES ASSUME IInv, InvSilent, [Next]_vars
             PROVE  Promise!Next \/ UNCHANGED Promise!pvars
  OBVIOUS
<1> USE DEF IInv, TypeOK, groupVars, joinVars, ckgVars, rgVars, ctgVars, netVars, compVars
<1>1. CASE CreateGroup
  BY <1>1 DEF CreateGroup, Promise!pvars, Joined, Outcome, Compensating
<1>2. CASE RgRead \/ RgSave \/ CompRead \/ CompSave \/ Expire
  BY <1>2 DEF RgRead, RgSave, CompRead, CompSave, Expire, Promise!pvars, Joined, Outcome,
     Compensating
<1>3. CASE CtgSave
  <2>1. ctg = "save" /\ ctg' \in {"delete", "commit"} /\ UNCHANGED <<part, ctgAns, record>>
    BY <1>3 DEF CtgSave
  <2>2. Promise!Close
    BY <2>1 DEF Promise!Close, Joined, Outcome, Compensating
  <2> QED
    BY <2>2 DEF Promise!Next
<1>4. CASE CtgDelete
  <2>1. ctg = "delete" /\ ctg' = "done" /\ UNCHANGED <<part, record>>
    BY <1>4 DEF CtgDelete
  <2>2. ctgAns = "none"
    BY <2>1 DEF InvSilent
  <2>3. CASE closeState = 0
    <3>1. ctgAns' = "0"
      BY <1>4, <2>3 DEF CtgDelete
    <3>2. Promise!Answer
      BY <2>1, <2>2, <3>1 DEF Promise!Answer, Promise!AnswerCompensate, Joined, Outcome,
         Compensating
    <3> QED
      BY <3>2 DEF Promise!Next
  <2>4. CASE closeState = 1
    <3>1. ctgAns' = "-1"
      BY <1>4, <2>4 DEF CtgDelete
    <3>2. \A m \in Members : part[m] # "committed"
      BY <2>1, <2>4 DEF InvForced, ForcedClose
    <3>3. Promise!AnswerForced
      BY <2>1, <3>1, <3>2 DEF Promise!AnswerForced, Outcome
    <3>4. Promise!Answer
      BY <2>1, <2>2, <3>3 DEF Promise!Answer, Joined, Outcome, Compensating
    <3> QED
      BY <3>4 DEF Promise!Next
  <2> QED
    BY <2>3, <2>4
<1>5. CASE CtgJoin
  BY <1>5 DEF CtgJoin, Promise!pvars, Joined, Outcome, Compensating
<1>6. CASE CtgDeal
  <2>1. ctg = "deal" /\ ctg' = "done" /\ UNCHANGED <<part, record>>
    BY <1>6 DEF CtgDeal
  <2>2. ctgAns = "none"
    BY <2>1 DEF InvSilent
  <2>3. CASE HasOk
    <3>1. ctgAns' = "1"
      BY <1>6, <2>3 DEF CtgDeal
    <3>2. ASSUME NEW m \in Decided PROVE part[m] = Meant(m)
      <4>1. m \in Members /\ m \in Notifiable(ctgCopy)
        BY <2>1, <3>2 DEF Decided, InvClose, Notifiable, Joined
      <4>2. task[m] = "ok"
        BY <2>3, <4>1 DEF HasOk
      <4> QED
        BY <4>1, <4>2 DEF InvTask
    <3>3. \A m \in Decided : /\ Outcome(m) \in {"committed", "rolledback"}
                             /\ ~Compensating => Outcome(m) = "committed"
      BY <3>2 DEF Meant, Direction, Outcome
    <3>4. Decided \subseteq Members
      BY DEF Decided, Joined
    <3>5. Promise!AnswerCommitted
      BY <2>1, <3>1, <3>3, <3>4 DEF Promise!AnswerCommitted, Decided
    <3>6. Promise!Answer
      BY <2>1, <2>2, <3>5 DEF Promise!Answer, Joined, Outcome, Compensating
    <3> QED
      BY <3>6 DEF Promise!Next
  <2>4. CASE ~HasOk
    <3>1. ctgAns' = "0"
      BY <1>6, <2>4 DEF CtgDeal
    <3>2. Promise!Answer
      BY <2>1, <2>2, <3>1 DEF Promise!Answer, Promise!AnswerCompensate, Joined, Outcome,
         Compensating
    <3> QED
      BY <3>2 DEF Promise!Next
  <2> QED
    BY <2>3, <2>4
<1>7. ASSUME NEW s \in {0, 1}, CtgRead(s) PROVE Promise!Next \/ UNCHANGED Promise!pvars
  <2>1. ctg = "open" /\ ctgAns = "none" /\ UNCHANGED <<part, record>>
    BY <1>7 DEF CtgRead, MayClose, InvSilent
  <2>2. CASE store = NoGroup
    <3>1. ctg' = "done" /\ ctgAns' = "0"
      BY <1>7, <2>2 DEF CtgRead
    <3>2. Promise!Answer
      BY <2>1, <3>1 DEF Promise!Answer, Promise!AnswerCompensate, Joined, Outcome, Compensating
    <3> QED
      BY <3>2 DEF Promise!Next
  <2>3. CASE store # NoGroup
    <3>1. ctg' = "save" /\ ctgAns' = ctgAns
      BY <1>7, <2>3 DEF CtgRead
    <3> QED
      BY <2>1, <3>1 DEF Promise!pvars, Joined, Outcome, Compensating
  <2> QED
    BY <2>2, <2>3
<1>8. ASSUME NEW m \in Members, AtgRead(m) PROVE UNCHANGED Promise!pvars
  <2>1. /\ part[m] = "out"
        /\ \E s \in {"refused", "joining"} : part' = [part EXCEPT ![m] = s]
    BY <1>8 DEF AtgRead, MayJoin
  <2>2. UNCHANGED <<ctg, ctgAns, record>>
    BY <1>8 DEF AtgRead
  <2> QED
    BY <2>1, <2>2 DEF Promise!pvars, Joined, Outcome, Compensating
<1>9. ASSUME NEW m \in Members, AtgSave(m) PROVE Promise!Next \/ UNCHANGED Promise!pvars
  <2>1. part[m] = "joining" /\ part' = [part EXCEPT ![m] = "joined"]
    BY <1>9 DEF AtgSave
  <2>2. UNCHANGED <<ctg, ctgAns, record>>
    BY <1>9 DEF AtgSave
  <2>3. [n \in Members |-> Outcome(n)]' = [n \in Members |-> Outcome(n)]
    BY <2>1 DEF Outcome
  <2>4. Joined' = Joined \cup {m}
    BY <2>1 DEF Joined
  <2>5. ctgAns # "1"
    BY <2>1 DEF InvClose, InvCommitted
  <2>6. CASE m \in Grouped
    BY <2>2, <2>3, <2>4, <2>6 DEF Promise!pvars, Compensating
  <2>7. CASE m \notin Grouped
    <3>1. Promise!Join(m)
      BY <2>2, <2>3, <2>4, <2>5, <2>7 DEF Promise!Join, Compensating
    <3> QED
      BY <3>1 DEF Promise!Next
  <2> QED
    BY <2>6, <2>7
<1>10. ASSUME NEW m \in Members, CkgRead(m) \/ CkgSave(m) PROVE UNCHANGED Promise!pvars
  BY <1>10 DEF CkgRead, CkgSave, Promise!pvars, Joined, Outcome, Compensating
<1>11. ASSUME NEW m \in Members, CkgAnswered(m)
       PROVE  Promise!Next \/ UNCHANGED Promise!pvars
  <2>1. /\ ckg[m] \in {"commit", "rollback"} /\ Apply(m, ckg[m])
        /\ UNCHANGED <<ctg, ctgAns, record>>
    BY <1>11 DEF CkgAnswered
  <2>2. m \notin Grouped
    BY <2>1 DEF InvSilent
  <2>3. ckg[m] = "commit" => Closed /\ ctgAns # "-1"
    BY DEF InvQuiet, BeforeClose, InvForced, ForcedClose, Closed
  <2> QED
    BY <2>1, <2>2, <2>3, ApplyStep
<1>12. ASSUME NEW m \in Members, Deliver(m) PROVE Promise!Next \/ UNCHANGED Promise!pvars
  <2>1. /\ net[m] \in {"commit", "rollback"} /\ Apply(m, net[m])
        /\ UNCHANGED <<ctg, ctgAns, record>>
    BY <1>12 DEF Deliver
  <2>2. m \notin Grouped
    BY <2>1 DEF InvSilent
  <2>3. net[m] = "commit" => Closed /\ ctgAns # "-1"
    BY DEF InvQuiet, BeforeClose, InvForced, ForcedClose, Closed
  <2> QED
    BY <2>1, <2>2, <2>3, ApplyStep
<1>13. ASSUME NEW m \in Members, ReplyArrives(m) \/ TaskTimeout(m) \/ TaskRead(m)
       PROVE  UNCHANGED Promise!pvars
  BY <1>13 DEF ReplyArrives, TaskTimeout, TaskRead, Promise!pvars, Joined, Outcome, Compensating
<1>14. CASE UNCHANGED vars
  BY <1>14 DEF vars, Promise!pvars, Joined, Outcome, Compensating
<1> QED
  BY <1>1, <1>2, <1>3, <1>4, <1>5, <1>6, <1>7, <1>8, <1>9, <1>10, <1>11, <1>12, <1>13, <1>14
     DEF Next

-----------------------------------------------------------------------------

\* The coordinator keeps the promise: whatever races, is lost or expires, what
\* members and starter see is a behaviour of TxPromise.
THEOREM Refinement == Spec => PromiseKept
<1>1. Init => Promise!Init
  <2> SUFFICES ASSUME Init PROVE Promise!Init
    OBVIOUS
  <2>1. Joined \ Grouped = {}
    BY DEF Init, Joined
  <2>2. [m \in Members |-> Outcome(m)] = [m \in Members |-> "open"]
    BY DEF Init, Outcome
  <2>3. ctg = "idle" /\ ctgAns = "none"
    BY DEF Init
  <2>4. (~Compensating) \in BOOLEAN
    BY DEF Compensating
  <2> QED
    BY <2>1, <2>2, <2>3, <2>4 DEF Promise!Init
<1>2. Init => InvSilent
  BY DEF Init, InvSilent
<1>3. Spec => []InvSilent
  BY <1>2, SilentNext, Invariance, PTL DEF Spec
<1>4. IInv /\ InvSilent /\ [Next]_vars => [Promise!Next]_Promise!pvars
  BY PromiseStep
<1> QED
  BY <1>1, <1>3, <1>4, Invariance, PTL DEF Spec, PromiseKept, Promise!Spec
=============================================================================
