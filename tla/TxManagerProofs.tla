-------------------------- MODULE TxManagerProofs --------------------------
(***************************************************************************)
(* Proofs about TxManager: type correctness, the inductive invariant IInv  *)
(* and the safety properties it implies, for any set of members.           *)
(***************************************************************************)
EXTENDS TxManager, TLAPS

\* The close has not yet saved the group it read.
BeforeClose == ctg \in {"idle", "open", "save"}

\* The decision meant for a member, as a state of the member.
Meant(m) == IF Direction(m) = "commit" THEN "committed" ELSE "rolledback"

\* The close found a recorded rollback although the starter was fine.
ForcedClose == closeState = 1 /\ (ctg = "delete" \/ ctgAns = "-1")

-----------------------------------------------------------------------------
(* The conjuncts of the inductive invariant.                               *)

\* A request that has read the group holds a copy of it; one call joins at a time.
InvCopies ==
  /\ \A m \in Members : part[m] = "joining" => atgCopy[m] \in Group
  /\ \A m \in Members : ckg[m] = "busy" => ckgCopy[m] \in Group
  /\ rg = "busy" => rgCopy \in Group
  /\ ctg \in {"save", "commit", "delete", "deal"} => ctgCopy \in Group
  /\ \A m, n \in Members : part[m] = "joining" /\ part[n] = "joining" => m = n
  /\ \A m \in Members : ckg[m] # "idle" => part[m] \in {"joined", "committed", "rolledback"}
  /\ \A m \in Members : task[m] \in {"await", "1", "0", "-2"} =>
       ctg = "commit" /\ m \in Notifiable(ctgCopy)

\* Before the close nothing has been sent, answered or decided for commit, and
\* no copy of the group, wherever it is, looks closed or notified.
InvQuiet ==
  /\ ctg = "idle" => \A m \in Members : part[m] = "out"
  /\ ctg # "done" => ctgAns = "none"
  /\ BeforeClose =>
       /\ \A m \in Members : /\ net[m] = "none" /\ reply[m] = "none" /\ task[m] = "none"
                             /\ part[m] # "committed" /\ ckg[m] # "commit"
       /\ store # NoGroup => store.hasOver = 0 /\ store.notified = {}
       /\ rgCopy # NoGroup => rgCopy.hasOver = 0 /\ rgCopy.notified = {}
       /\ \A m \in Members :
            /\ atgCopy[m] # NoGroup => atgCopy[m].hasOver = 0 /\ atgCopy[m].notified = {}
            /\ ckgCopy[m] # NoGroup => ckgCopy[m].hasOver = 0 /\ ckgCopy[m].notified = {}
       /\ ctg = "save" => ctgCopy.notified = {}

\* No unmarked copy of the open group misses a member.
InvList ==
  ctg = "open" =>
    /\ store # NoGroup /\ store.rollback = 0 => Joined \subseteq store.list
    /\ \A m \in Members :
         part[m] = "joining" /\ atgCopy[m].rollback = 0 => Joined \subseteq atgCopy[m].list

\* What the close knows of the group it works on.
InvClose ==
  /\ ctg \in {"save", "commit", "delete", "deal"} =>
       ctgCopy.state = closeState /\ ctgCopy.hasOver = 1
  /\ ctg = "save" /\ closeState = 1 /\ ctgCopy.rollback = 0 => Joined \subseteq ctgCopy.list
  /\ ctg \in {"commit", "deal"} => closeState = 1 /\ Joined \subseteq ctgCopy.list
  /\ closeState = 1 => /\ ctg \notin {"idle", "open"}
                       /\ \A m \in Members : part[m] # "joining"

\* A task answered "1" belongs to a member that applied what it was sent.
InvTask ==
  \A m \in Members : task[m] # "none" =>
    /\ ctg \in {"commit", "deal", "done"}
    /\ net[m] \in {"none", Direction(m)}
    /\ reply[m] = "1" => part[m] = Meant(m)
    /\ task[m] \in {"1", "ok"} => part[m] = Meant(m)

\* An answer "1" binds.
InvCommitted == ctgAns = "1" => closeState = 1 /\ CommitAnswerSound

\* After a forced close no copy of the group allows a commit any more.
InvForced ==
  /\ ctgAns = "-1" => closeState = 1
  /\ ForcedClose =>
       /\ store # NoGroup => store.rollback = 1 \/ store.hasOver = 0
       /\ \A m \in Members :
            /\ ckgCopy[m] # NoGroup => ckgCopy[m].rollback = 1 \/ ckgCopy[m].hasOver = 0
            /\ part[m] # "committed" /\ ckg[m] # "commit" /\ net[m] # "commit"

IInv ==
  /\ TypeOK
  /\ InvCopies /\ InvQuiet /\ InvList /\ InvClose /\ InvTask /\ InvCommitted /\ InvForced

-----------------------------------------------------------------------------
(* Type correctness, with the copies the handlers hold.                    *)

\* What the handlers write into a group, field by field.
LEMMA GroupFields ==
  ASSUME NEW g \in Group
  PROVE  /\ g.list \subseteq Members /\ g.notified \subseteq Members
         /\ g.rollback \in {0, 1} /\ g.hasOver \in {0, 1} /\ g.state \in {0, 1}
         /\ g # NoGroup
  BY NullAssumption DEF Group

\* What AddInfo changes and what it keeps.
LEMMA AddInfoFields ==
  ASSUME NEW g \in Group, NEW m \in Members
  PROVE  /\ AddInfo(g, m) \in Group
         /\ AddInfo(g, m) # NoGroup
         /\ AddInfo(g, m).list = g.list \cup {m}
         /\ AddInfo(g, m).notified = g.notified
         /\ AddInfo(g, m).rollback = g.rollback
         /\ AddInfo(g, m).hasOver = g.hasOver
         /\ AddInfo(g, m).state = g.state
<1>1. AddInfo(g, m) \in Group
  BY GroupFields DEF AddInfo, Group
<1> QED
  BY <1>1, GroupFields DEF AddInfo, Group

\* What SetNotify changes and what it keeps.
LEMMA SetNotifyFields ==
  ASSUME NEW g \in Group, NEW m \in Members
  PROVE  /\ SetNotify(g, m) \in Group
         /\ SetNotify(g, m) # NoGroup
         /\ SetNotify(g, m).list = g.list
         /\ SetNotify(g, m).notified = g.notified \cup {m}
         /\ SetNotify(g, m).rollback = g.rollback
         /\ SetNotify(g, m).hasOver = g.hasOver
         /\ SetNotify(g, m).state = g.state
<1>1. SetNotify(g, m) \in Group
  BY GroupFields DEF SetNotify, Group
<1> QED
  BY <1>1, GroupFields DEF SetNotify, Group

\* What SetRollback changes and what it keeps.
LEMMA SetRollbackFields ==
  ASSUME NEW g \in Group
  PROVE  /\ SetRollback(g) \in Group
         /\ SetRollback(g) # NoGroup
         /\ SetRollback(g).list = g.list
         /\ SetRollback(g).notified = g.notified
         /\ SetRollback(g).rollback = 1
         /\ SetRollback(g).hasOver = g.hasOver
         /\ SetRollback(g).state = g.state
<1>1. SetRollback(g) \in Group
  BY GroupFields DEF SetRollback, Group
<1> QED
  BY <1>1, GroupFields DEF SetRollback, Group

\* What SetState changes and what it keeps.
LEMMA SetStateFields ==
  ASSUME NEW g \in Group, NEW s \in {0, 1}
  PROVE  /\ SetState(g, s) \in Group
         /\ SetState(g, s) # NoGroup
         /\ SetState(g, s).list = g.list
         /\ SetState(g, s).notified = g.notified
         /\ SetState(g, s).rollback = g.rollback
         /\ SetState(g, s).hasOver = g.hasOver
         /\ SetState(g, s).state = s
<1>1. SetState(g, s) \in Group
  BY GroupFields DEF SetState, Group
<1> QED
  BY <1>1, GroupFields DEF SetState, Group

\* What SetHasOver changes and what it keeps.
LEMMA SetHasOverFields ==
  ASSUME NEW g \in Group
  PROVE  /\ SetHasOver(g) \in Group
         /\ SetHasOver(g) # NoGroup
         /\ SetHasOver(g).list = g.list
         /\ SetHasOver(g).notified = g.notified
         /\ SetHasOver(g).rollback = g.rollback
         /\ SetHasOver(g).hasOver = 1
         /\ SetHasOver(g).state = g.state
<1>1. SetHasOver(g) \in Group
  BY GroupFields DEF SetHasOver, Group
<1> QED
  BY <1>1, GroupFields DEF SetHasOver, Group

\* Types and copies at the start.
LEMMA TypeInit == Init => TypeOK /\ InvCopies
<1> SUFFICES ASSUME Init PROVE TypeOK /\ InvCopies
  OBVIOUS
<1>1. record \in Record \cup {NoRecord}
  BY DEF Init, OldRecords
<1>2. TypeOK
  BY <1>1 DEF Init, TypeOK, PartStates, CkgStates, CtgStates, TaskStates
<1>3. InvCopies
  BY DEF Init, InvCopies
<1> QED
  BY <1>2, <1>3

\* Every step keeps types and copies.
LEMMA TypeNext == TypeOK /\ InvCopies /\ [Next]_vars => TypeOK' /\ InvCopies'
<1> SUFFICES ASSUME TypeOK, InvCopies, [Next]_vars
             PROVE  TypeOK' /\ InvCopies'
  OBVIOUS
<1> USE MembersAssumption DEF TypeOK, InvCopies, PartStates, CkgStates, CtgStates, TaskStates,
    groupVars, joinVars, ckgVars, rgVars, ctgVars, netVars, compVars
<1>1. CASE CreateGroup
  BY <1>1 DEF CreateGroup, EmptyGroup, Group
<1>2. CASE RgRead
  BY <1>2 DEF RgRead
<1>3. CASE RgSave
  BY <1>3, SetRollbackFields DEF RgSave
<1>4. CASE CtgSave
  BY <1>4 DEF CtgSave, MustRollback, NotifyCommit, NotifyRollback, Direction, Reachable,
     Notifiable
<1>5. CASE CtgDelete
  BY <1>5 DEF CtgDelete
<1>6. CASE CtgJoin
  BY <1>6 DEF CtgJoin, Notifiable
<1>7. CASE CtgDeal
  BY <1>7 DEF CtgDeal, HasOk
<1>8. CASE CompRead
  BY <1>8 DEF CompRead
<1>9. CASE CompSave
  BY <1>9 DEF CompSave, RecordOf, Record, Group
<1>10. CASE Expire
  BY <1>10 DEF Expire
<1>11. ASSUME NEW s \in {0, 1}, CtgRead(s) PROVE TypeOK' /\ InvCopies'
  BY <1>11, SetStateFields, SetHasOverFields DEF CtgRead, MayClose
<1>12. ASSUME NEW m \in Members, AtgRead(m) PROVE TypeOK' /\ InvCopies'
  BY <1>12 DEF AtgRead, MayJoin
<1>13. ASSUME NEW m \in Members, AtgSave(m) PROVE TypeOK' /\ InvCopies'
  BY <1>13, AddInfoFields DEF AtgSave
<1>14. ASSUME NEW m \in Members, CkgRead(m) PROVE TypeOK' /\ InvCopies'
  BY <1>14 DEF CkgRead
<1>15. ASSUME NEW m \in Members, CkgSave(m) PROVE TypeOK' /\ InvCopies'
  <2> DEFINE g == ckgCopy[m]
  <2>1. g \in Group
    BY <1>15 DEF CkgSave
  <2>2. SetRollback(g) \in Group /\ SetNotify(g, m) \in Group
    BY <2>1, SetRollbackFields, SetNotifyFields
  <2>3. store' \in Group \cup {NoGroup}
    BY <1>15, <2>2 DEF CkgSave, CkgNotOver, CkgRollback, CkgClosed
  <2>4. \E x \in {"commit", "rollback"} : ckg' = [ckg EXCEPT ![m] = x]
    BY <1>15 DEF CkgSave, CkgNotOver, CkgRollback, CkgClosed
  <2>5. forced' \in BOOLEAN
    BY <1>15 DEF CkgSave, CkgNotOver, CkgRollback, CkgClosed
  <2> QED
    BY <1>15, <2>1, <2>3, <2>4, <2>5 DEF CkgSave
<1>16. ASSUME NEW m \in Members, CkgAnswered(m) PROVE TypeOK' /\ InvCopies'
  BY <1>16 DEF CkgAnswered, Apply
<1>17. ASSUME NEW m \in Members, Deliver(m) PROVE TypeOK' /\ InvCopies'
  BY <1>17 DEF Deliver, Apply
<1>18. ASSUME NEW m \in Members, ReplyArrives(m) PROVE TypeOK' /\ InvCopies'
  BY <1>18 DEF ReplyArrives
<1>19. ASSUME NEW m \in Members, TaskTimeout(m) PROVE TypeOK' /\ InvCopies'
  BY <1>19 DEF TaskTimeout
<1>20. ASSUME NEW m \in Members, TaskRead(m) PROVE TypeOK' /\ InvCopies'
  <2>1. CASE task[m] = "1"
    <3>1. ctgCopy \in Group
      BY <1>20, <2>1 DEF TaskRead
    <3>2. ctgCopy' \in Group /\ ctgCopy'.list = ctgCopy.list
      BY <1>20, <2>1, <3>1, SetNotifyFields DEF TaskRead
    <3> QED
      BY <1>20, <2>1, <3>2 DEF TaskRead, Notifiable
  <2>2. CASE task[m] # "1"
    BY <1>20, <2>2 DEF TaskRead
  <2> QED
    BY <2>1, <2>2
<1>21. CASE UNCHANGED vars
  BY <1>21 DEF vars
<1> QED
  BY <1>1, <1>2, <1>3, <1>4, <1>5, <1>6, <1>7, <1>8, <1>9, <1>10, <1>11, <1>12, <1>13, <1>14,
     <1>15, <1>16, <1>17, <1>18, <1>19, <1>20, <1>21 DEF Next

\* Nothing happens before the close.
LEMMA QuietNext == TypeOK /\ InvCopies /\ InvQuiet /\ [Next]_vars => InvQuiet'
<1> SUFFICES ASSUME TypeOK, InvCopies, InvQuiet, [Next]_vars
             PROVE  InvQuiet'
  OBVIOUS
<1> USE GroupFields DEF TypeOK, InvCopies, InvQuiet, BeforeClose, groupVars, joinVars, ckgVars,
    rgVars, ctgVars, netVars, compVars
<1>1. CASE CreateGroup
  BY <1>1 DEF CreateGroup, EmptyGroup
<1>2. CASE RgRead
  BY <1>2 DEF RgRead
<1>3. CASE RgSave
  BY <1>3, SetRollbackFields DEF RgSave
<1>4. CASE CtgSave
  BY <1>4 DEF CtgSave, MustRollback, NotifyCommit, NotifyRollback, Direction, Reachable,
     Notifiable
<1>5. CASE CtgDelete
  BY <1>5 DEF CtgDelete
<1>6. CASE CtgJoin
  BY <1>6 DEF CtgJoin, Notifiable
<1>7. CASE CtgDeal
  BY <1>7 DEF CtgDeal, HasOk
<1>8. CASE CompRead
  BY <1>8 DEF CompRead
<1>9. CASE CompSave
  BY <1>9 DEF CompSave, RecordOf
<1>10. CASE Expire
  BY <1>10 DEF Expire
<1>11. ASSUME NEW s \in {0, 1}, CtgRead(s) PROVE InvQuiet'
  BY <1>11, SetStateFields, SetHasOverFields DEF CtgRead, MayClose
<1>12. ASSUME NEW m \in Members, AtgRead(m) PROVE InvQuiet'
  BY <1>12 DEF AtgRead, MayJoin
<1>13. ASSUME NEW m \in Members, AtgSave(m) PROVE InvQuiet'
  <2> DEFINE h == AddInfo(atgCopy[m], m)
  <2>1. /\ atgCopy[m] \in Group /\ h # NoGroup
        /\ h.hasOver = atgCopy[m].hasOver /\ h.notified = atgCopy[m].notified
    BY <1>13, AddInfoFields DEF AtgSave
  <2>2. store' = h /\ ctg # "idle"
    BY <1>13 DEF AtgSave
  <2> HIDE DEF h
  <2> QED
    BY <1>13, <2>1, <2>2 DEF AtgSave
<1>14. ASSUME NEW m \in Members, CkgRead(m) PROVE InvQuiet'
  BY <1>14 DEF CkgRead
<1>15. ASSUME NEW m \in Members, CkgSave(m) PROVE InvQuiet'
  BY <1>15, SetRollbackFields, SetNotifyFields DEF CkgSave, CkgNotOver, CkgRollback, CkgClosed
<1>16. ASSUME NEW m \in Members, CkgAnswered(m) PROVE InvQuiet'
  BY <1>16 DEF CkgAnswered, Apply
<1>17. ASSUME NEW m \in Members, Deliver(m) PROVE InvQuiet'
  BY <1>17 DEF Deliver, Apply
<1>18. ASSUME NEW m \in Members, ReplyArrives(m) PROVE InvQuiet'
  BY <1>18 DEF ReplyArrives
<1>19. ASSUME NEW m \in Members, TaskTimeout(m) PROVE InvQuiet'
  BY <1>19 DEF TaskTimeout
<1>20. ASSUME NEW m \in Members, TaskRead(m) PROVE InvQuiet'
  BY <1>20, SetNotifyFields DEF TaskRead
<1>21. CASE UNCHANGED vars
  BY <1>21 DEF vars
<1> QED
  BY <1>1, <1>2, <1>3, <1>4, <1>5, <1>6, <1>7, <1>8, <1>9, <1>10, <1>11, <1>12, <1>13, <1>14,
     <1>15, <1>16, <1>17, <1>18, <1>19, <1>20, <1>21 DEF Next

\* No member is lost while the group is open.
LEMMA ListNext == TypeOK /\ InvCopies /\ InvQuiet /\ InvList /\ [Next]_vars => InvList'
<1> SUFFICES ASSUME TypeOK, InvCopies, InvQuiet, InvList, [Next]_vars
             PROVE  InvList'
  OBVIOUS
<1> USE GroupFields DEF TypeOK, InvCopies, InvQuiet, InvList, BeforeClose, Joined, groupVars,
    joinVars, ckgVars, rgVars, ctgVars, netVars, compVars
<1>1. CASE CreateGroup
  BY <1>1 DEF CreateGroup, EmptyGroup
<1>2. CASE RgRead
  BY <1>2 DEF RgRead
<1>3. CASE RgSave
  BY <1>3, SetRollbackFields DEF RgSave
<1>4. CASE CtgSave
  BY <1>4 DEF CtgSave, MustRollback, NotifyCommit, NotifyRollback, Direction, Reachable,
     Notifiable
<1>5. CASE CtgDelete
  BY <1>5 DEF CtgDelete
<1>6. CASE CtgJoin
  BY <1>6 DEF CtgJoin, Notifiable
<1>7. CASE CtgDeal
  BY <1>7 DEF CtgDeal, HasOk
<1>8. CASE CompRead
  BY <1>8 DEF CompRead
<1>9. CASE CompSave
  BY <1>9 DEF CompSave, RecordOf
<1>10. CASE Expire
  BY <1>10 DEF Expire
<1>11. ASSUME NEW s \in {0, 1}, CtgRead(s) PROVE InvList'
  BY <1>11, SetStateFields, SetHasOverFields DEF CtgRead, MayClose
<1>12. ASSUME NEW m \in Members, AtgRead(m) PROVE InvList'
  BY <1>12 DEF AtgRead, MayJoin
<1>13. ASSUME NEW m \in Members, AtgSave(m) PROVE InvList'
  <2> DEFINE h == AddInfo(atgCopy[m], m)
  <2>1. /\ atgCopy[m] \in Group
        /\ h.list = atgCopy[m].list \cup {m} /\ h.rollback = atgCopy[m].rollback
    BY <1>13, AddInfoFields DEF AtgSave
  <2>2. store' = h /\ Joined' = Joined \cup {m} /\ ctg' = ctg /\ part[m] = "joining"
    BY <1>13 DEF AtgSave
  <2>3. \A n \in Members : part'[n] # "joining"
    BY <1>13 DEF AtgSave
  <2> HIDE DEF h
  <2> QED
    BY <1>13, <2>1, <2>2, <2>3
<1>14. ASSUME NEW m \in Members, CkgRead(m) PROVE InvList'
  BY <1>14 DEF CkgRead
<1>15. ASSUME NEW m \in Members, CkgSave(m) PROVE InvList'
  BY <1>15, SetRollbackFields, SetNotifyFields DEF CkgSave, CkgNotOver, CkgRollback, CkgClosed
<1>16. ASSUME NEW m \in Members, CkgAnswered(m) PROVE InvList'
  BY <1>16 DEF CkgAnswered, Apply
<1>17. ASSUME NEW m \in Members, Deliver(m) PROVE InvList'
  BY <1>17 DEF Deliver, Apply
<1>18. ASSUME NEW m \in Members, ReplyArrives(m) PROVE InvList'
  BY <1>18 DEF ReplyArrives
<1>19. ASSUME NEW m \in Members, TaskTimeout(m) PROVE InvList'
  BY <1>19 DEF TaskTimeout
<1>20. ASSUME NEW m \in Members, TaskRead(m) PROVE InvList'
  BY <1>20, SetNotifyFields DEF TaskRead
<1>21. CASE UNCHANGED vars
  BY <1>21 DEF vars
<1> QED
  BY <1>1, <1>2, <1>3, <1>4, <1>5, <1>6, <1>7, <1>8, <1>9, <1>10, <1>11, <1>12, <1>13, <1>14,
     <1>15, <1>16, <1>17, <1>18, <1>19, <1>20, <1>21 DEF Next

\* The close works on a group that lists every member.
LEMMA CloseNext ==
  TypeOK /\ InvCopies /\ InvQuiet /\ InvList /\ InvClose /\ [Next]_vars
    => InvClose'
<1> SUFFICES ASSUME TypeOK, InvCopies, InvQuiet, InvList, InvClose, [Next]_vars
             PROVE  InvClose'
  OBVIOUS
<1> USE GroupFields DEF TypeOK, InvCopies, InvList, InvClose, Joined, groupVars, joinVars,
    ckgVars, rgVars, ctgVars, netVars, compVars
<1>1. CASE CreateGroup
  BY <1>1 DEF CreateGroup, EmptyGroup
<1>2. CASE RgRead
  BY <1>2 DEF RgRead
<1>3. CASE RgSave
  BY <1>3, SetRollbackFields DEF RgSave
<1>4. CASE CtgSave
  BY <1>4 DEF CtgSave, MustRollback, NotifyCommit, NotifyRollback, Direction, Reachable,
     Notifiable
<1>5. CASE CtgDelete
  BY <1>5 DEF CtgDelete
<1>6. CASE CtgJoin
  BY <1>6 DEF CtgJoin, Notifiable
<1>7. CASE CtgDeal
  BY <1>7 DEF CtgDeal, HasOk
<1>8. CASE CompRead
  BY <1>8 DEF CompRead
<1>9. CASE CompSave
  BY <1>9 DEF CompSave, RecordOf
<1>10. CASE Expire
  BY <1>10 DEF Expire
<1>11. ASSUME NEW s \in {0, 1}, CtgRead(s) PROVE InvClose'
  BY <1>11, SetStateFields, SetHasOverFields DEF CtgRead, MayClose
<1>12. ASSUME NEW m \in Members, AtgRead(m) PROVE InvClose'
  BY <1>12 DEF AtgRead, MayJoin
<1>13. ASSUME NEW m \in Members, AtgSave(m) PROVE InvClose'
  BY <1>13, AddInfoFields DEF AtgSave
<1>14. ASSUME NEW m \in Members, CkgRead(m) PROVE InvClose'
  BY <1>14 DEF CkgRead
<1>15. ASSUME NEW m \in Members, CkgSave(m) PROVE InvClose'
  BY <1>15, SetRollbackFields, SetNotifyFields DEF CkgSave, CkgNotOver, CkgRollback, CkgClosed
<1>16. ASSUME NEW m \in Members, CkgAnswered(m) PROVE InvClose'
  BY <1>16 DEF CkgAnswered, Apply
<1>17. ASSUME NEW m \in Members, Deliver(m) PROVE InvClose'
  BY <1>17 DEF Deliver, Apply
<1>18. ASSUME NEW m \in Members, ReplyArrives(m) PROVE InvClose'
  BY <1>18 DEF ReplyArrives
<1>19. ASSUME NEW m \in Members, TaskTimeout(m) PROVE InvClose'
  BY <1>19 DEF TaskTimeout
<1>20. ASSUME NEW m \in Members, TaskRead(m) PROVE InvClose'
  <2>1. CASE task[m] = "1"
    <3>1. ctgCopy \in Group /\ ctgCopy' = SetNotify(ctgCopy, m)
      BY <1>20, <2>1 DEF TaskRead
    <3>2. /\ ctgCopy'.list = ctgCopy.list /\ ctgCopy'.state = ctgCopy.state
          /\ ctgCopy'.hasOver = ctgCopy.hasOver /\ ctgCopy'.rollback = ctgCopy.rollback
      BY <3>1, SetNotifyFields
    <3> QED
      BY <1>20, <3>2 DEF TaskRead
  <2>2. CASE task[m] # "1"
    BY <1>20, <2>2 DEF TaskRead
  <2> QED
    BY <2>1, <2>2
<1>21. CASE UNCHANGED vars
  BY <1>21 DEF vars
<1> QED
  BY <1>1, <1>2, <1>3, <1>4, <1>5, <1>6, <1>7, <1>8, <1>9, <1>10, <1>11, <1>12, <1>13, <1>14,
     <1>15, <1>16, <1>17, <1>18, <1>19, <1>20, <1>21 DEF Next

\* Tasks report what members did.
LEMMA TaskNext == TypeOK /\ InvCopies /\ InvQuiet /\ InvTask /\ [Next]_vars => InvTask'
<1> SUFFICES ASSUME TypeOK, InvCopies, InvQuiet, InvTask, [Next]_vars
             PROVE  InvTask'
  OBVIOUS
<1> USE GroupFields DEF TypeOK, InvCopies, InvQuiet, InvTask, BeforeClose, Meant, Direction,
    Compensating, groupVars, joinVars, ckgVars, rgVars, ctgVars, netVars, compVars
<1>1. CASE CreateGroup
  BY <1>1 DEF CreateGroup, EmptyGroup
<1>2. CASE RgRead
  BY <1>2 DEF RgRead
<1>3. CASE RgSave
  BY <1>3, SetRollbackFields DEF RgSave
<1>4. CASE CtgSave
  BY <1>4 DEF CtgSave, MustRollback, NotifyCommit, NotifyRollback, Direction, Reachable,
     Notifiable
<1>5. CASE CtgDelete
  BY <1>5 DEF CtgDelete
<1>6. CASE CtgJoin
  BY <1>6 DEF CtgJoin, Notifiable
<1>7. CASE CtgDeal
  BY <1>7 DEF CtgDeal, HasOk
<1>8. CASE CompRead
  BY <1>8 DEF CompRead
<1>9. CASE CompSave
  BY <1>9 DEF CompSave, RecordOf
<1>10. CASE Expire
  BY <1>10 DEF Expire
<1>11. ASSUME NEW s \in {0, 1}, CtgRead(s) PROVE InvTask'
  BY <1>11, SetStateFields, SetHasOverFields DEF CtgRead, MayClose
<1>12. ASSUME NEW m \in Members, AtgRead(m) PROVE InvTask'
  BY <1>12 DEF AtgRead, MayJoin
<1>13. ASSUME NEW m \in Members, AtgSave(m) PROVE InvTask'
  BY <1>13, AddInfoFields DEF AtgSave
<1>14. ASSUME NEW m \in Members, CkgRead(m) PROVE InvTask'
  BY <1>14 DEF CkgRead
<1>15. ASSUME NEW m \in Members, CkgSave(m) PROVE InvTask'
  BY <1>15, SetRollbackFields, SetNotifyFields DEF CkgSave, CkgNotOver, CkgRollback, CkgClosed
<1>16. ASSUME NEW m \in Members, CkgAnswered(m) PROVE InvTask'
  BY <1>16 DEF CkgAnswered, Apply
<1>17. ASSUME NEW m \in Members, Deliver(m) PROVE InvTask'
  BY <1>17 DEF Deliver, Apply
<1>18. ASSUME NEW m \in Members, ReplyArrives(m) PROVE InvTask'
  BY <1>18 DEF ReplyArrives
<1>19. ASSUME NEW m \in Members, TaskTimeout(m) PROVE InvTask'
  BY <1>19 DEF TaskTimeout
<1>20. ASSUME NEW m \in Members, TaskRead(m) PROVE InvTask'
  BY <1>20, SetNotifyFields DEF TaskRead
<1>21. CASE UNCHANGED vars
  BY <1>21 DEF vars
<1> QED
  BY <1>1, <1>2, <1>3, <1>4, <1>5, <1>6, <1>7, <1>8, <1>9, <1>10, <1>11, <1>12, <1>13, <1>14,
     <1>15, <1>16, <1>17, <1>18, <1>19, <1>20, <1>21 DEF Next

\* An answer "1" stays true.
LEMMA CommittedNext ==
  TypeOK /\ InvCopies /\ InvQuiet /\ InvClose /\ InvTask /\ InvCommitted /\ [Next]_vars
    => InvCommitted'
<1> SUFFICES ASSUME TypeOK, InvCopies, InvQuiet, InvClose, InvTask, InvCommitted, [Next]_vars
             PROVE  InvCommitted'
  OBVIOUS
<1> USE GroupFields DEF TypeOK, InvCopies, InvQuiet, InvClose, InvTask, InvCommitted,
    CommitAnswerSound, Joined, Notifiable, Meant, Direction, Compensating, groupVars, joinVars,
    ckgVars, rgVars, ctgVars, netVars, compVars
<1>1. CASE CreateGroup
  BY <1>1 DEF CreateGroup, EmptyGroup
<1>2. CASE RgRead
  BY <1>2 DEF RgRead
<1>3. CASE RgSave
  BY <1>3, SetRollbackFields DEF RgSave
<1>4. CASE CtgSave
  BY <1>4 DEF CtgSave, MustRollback, NotifyCommit, NotifyRollback, Direction, Reachable,
     Notifiable
<1>5. CASE CtgDelete
  BY <1>5 DEF CtgDelete
<1>6. CASE CtgJoin
  BY <1>6 DEF CtgJoin, Notifiable
<1>7. CASE CtgDeal
  BY <1>7 DEF CtgDeal, HasOk
<1>8. CASE CompRead
  BY <1>8 DEF CompRead
<1>9. CASE CompSave
  BY <1>9 DEF CompSave, RecordOf
<1>10. CASE Expire
  BY <1>10 DEF Expire
<1>11. ASSUME NEW s \in {0, 1}, CtgRead(s) PROVE InvCommitted'
  BY <1>11, SetStateFields, SetHasOverFields DEF CtgRead, MayClose
<1>12. ASSUME NEW m \in Members, AtgRead(m) PROVE InvCommitted'
  BY <1>12 DEF AtgRead, MayJoin
<1>13. ASSUME NEW m \in Members, AtgSave(m) PROVE InvCommitted'
  BY <1>13, AddInfoFields DEF AtgSave
<1>14. ASSUME NEW m \in Members, CkgRead(m) PROVE InvCommitted'
  BY <1>14 DEF CkgRead
<1>15. ASSUME NEW m \in Members, CkgSave(m) PROVE InvCommitted'
  BY <1>15, SetRollbackFields, SetNotifyFields DEF CkgSave, CkgNotOver, CkgRollback, CkgClosed
<1>16. ASSUME NEW m \in Members, CkgAnswered(m) PROVE InvCommitted'
  BY <1>16 DEF CkgAnswered, Apply
<1>17. ASSUME NEW m \in Members, Deliver(m) PROVE InvCommitted'
  BY <1>17 DEF Deliver, Apply
<1>18. ASSUME NEW m \in Members, ReplyArrives(m) PROVE InvCommitted'
  BY <1>18 DEF ReplyArrives
<1>19. ASSUME NEW m \in Members, TaskTimeout(m) PROVE InvCommitted'
  BY <1>19 DEF TaskTimeout
<1>20. ASSUME NEW m \in Members, TaskRead(m) PROVE InvCommitted'
  BY <1>20, SetNotifyFields DEF TaskRead
<1>21. CASE UNCHANGED vars
  BY <1>21 DEF vars
<1> QED
  BY <1>1, <1>2, <1>3, <1>4, <1>5, <1>6, <1>7, <1>8, <1>9, <1>10, <1>11, <1>12, <1>13, <1>14,
     <1>15, <1>16, <1>17, <1>18, <1>19, <1>20, <1>21 DEF Next

\* A forced close leaves no way to commit.
LEMMA ForcedNext ==
  TypeOK /\ InvCopies /\ InvQuiet /\ InvClose /\ InvForced /\ [Next]_vars
    => InvForced'
<1> SUFFICES ASSUME TypeOK, InvCopies, InvQuiet, InvClose, InvForced, [Next]_vars
             PROVE  InvForced'
  OBVIOUS
<1> USE GroupFields DEF TypeOK, InvCopies, InvQuiet, InvClose, InvForced, ForcedClose,
    BeforeClose, groupVars, joinVars, ckgVars, rgVars, ctgVars, netVars, compVars
<1>1. CASE CreateGroup
  BY <1>1 DEF CreateGroup, EmptyGroup
<1>2. CASE RgRead
  BY <1>2 DEF RgRead
<1>3. CASE RgSave
  BY <1>3, SetRollbackFields DEF RgSave
<1>4. CASE CtgSave
  BY <1>4 DEF CtgSave, MustRollback, NotifyCommit, NotifyRollback, Direction, Reachable,
     Notifiable
<1>5. CASE CtgDelete
  BY <1>5 DEF CtgDelete
<1>6. CASE CtgJoin
  BY <1>6 DEF CtgJoin, Notifiable
<1>7. CASE CtgDeal
  BY <1>7 DEF CtgDeal, HasOk
<1>8. CASE CompRead
  BY <1>8 DEF CompRead
<1>9. CASE CompSave
  BY <1>9 DEF CompSave, RecordOf
<1>10. CASE Expire
  BY <1>10 DEF Expire
<1>11. ASSUME NEW s \in {0, 1}, CtgRead(s) PROVE InvForced'
  BY <1>11, SetStateFields, SetHasOverFields DEF CtgRead, MayClose
<1>12. ASSUME NEW m \in Members, AtgRead(m) PROVE InvForced'
  BY <1>12 DEF AtgRead, MayJoin
<1>13. ASSUME NEW m \in Members, AtgSave(m) PROVE InvForced'
  BY <1>13, AddInfoFields DEF AtgSave
<1>14. ASSUME NEW m \in Members, CkgRead(m) PROVE InvForced'
  BY <1>14 DEF CkgRead
<1>15. ASSUME NEW m \in Members, CkgSave(m) PROVE InvForced'
  BY <1>15, SetRollbackFields, SetNotifyFields DEF CkgSave, CkgNotOver, CkgRollback, CkgClosed
<1>16. ASSUME NEW m \in Members, CkgAnswered(m) PROVE InvForced'
  BY <1>16 DEF CkgAnswered, Apply
<1>17. ASSUME NEW m \in Members, Deliver(m) PROVE InvForced'
  BY <1>17 DEF Deliver, Apply
<1>18. ASSUME NEW m \in Members, ReplyArrives(m) PROVE InvForced'
  BY <1>18 DEF ReplyArrives
<1>19. ASSUME NEW m \in Members, TaskTimeout(m) PROVE InvForced'
  BY <1>19 DEF TaskTimeout
<1>20. ASSUME NEW m \in Members, TaskRead(m) PROVE InvForced'
  BY <1>20, SetNotifyFields DEF TaskRead
<1>21. CASE UNCHANGED vars
  BY <1>21 DEF vars
<1> QED
  BY <1>1, <1>2, <1>3, <1>4, <1>5, <1>6, <1>7, <1>8, <1>9, <1>10, <1>11, <1>12, <1>13, <1>14,
     <1>15, <1>16, <1>17, <1>18, <1>19, <1>20, <1>21 DEF Next

-----------------------------------------------------------------------------
(* The theorems.                                                           *)

\* Every reachable state satisfies the inductive invariant: the copies handlers
\* hold, the group in redis and what members were told fit together.
THEOREM Invariance == Spec => []IInv
<1>1. Init => IInv
  <2> SUFFICES ASSUME Init PROVE IInv
    OBVIOUS
  <2>1. TypeOK /\ InvCopies
    BY TypeInit
  <2>2. InvQuiet
    BY DEF Init, InvQuiet, BeforeClose
  <2>3. InvList /\ InvClose /\ InvTask
    BY DEF Init, InvList, InvClose, InvTask
  <2>4. InvCommitted /\ InvForced
    BY DEF Init, InvCommitted, InvForced, ForcedClose
  <2> QED
    BY <2>1, <2>2, <2>3, <2>4 DEF IInv
<1>2. IInv /\ [Next]_vars => IInv'
  BY TypeNext, QuietNext, ListNext, CloseNext, TaskNext, CommittedNext, ForcedNext DEF IInv
<1> QED
  BY <1>1, <1>2, PTL DEF Spec

\* Type correctness: whatever the handlers read, copy and write back, the group
\* and the requests' states stay well formed.
THEOREM TypeCorrect == Spec => []TypeOK
<1>1. IInv => TypeOK
  BY DEF IInv
<1> QED
  BY <1>1, Invariance, PTL

\* A close answered "1" was right: every member decided on its own has applied
\* what was meant for it, and still has.
THEOREM CommitAnswerCorrect == Spec => []CommitAnswerSound
<1>1. IInv => CommitAnswerSound
  BY DEF IInv, InvCommitted, CommitAnswerSound
<1> QED
  BY <1>1, Invariance, PTL

\* After a close answered "-1" no member has committed, holds a commit answer
\* or has a commit notification on its way.
THEOREM ForcedAnswerCorrect == Spec => []ForcedAnswerSound
<1>1. IInv => ForcedAnswerSound
  BY DEF IInv, InvForced, ForcedClose, ForcedAnswerSound
<1> QED
  BY <1>1, Invariance, PTL

\* No member commits, or is told to, before the close has saved its decision.
THEOREM NoEarlyCommit == Spec => []NoCommitBeforeClose
<1>1. IInv => NoCommitBeforeClose
  BY DEF IInv, InvQuiet, BeforeClose, NoCommitBeforeClose
<1> QED
  BY <1>1, Invariance, PTL

\* However the read-copy-write requests interleave, an open group that is not
\* marked for rollback lists every member that joined.
THEOREM MembersKept == Spec => []NoMemberLost
<1>1. IInv => NoMemberLost
  BY DEF IInv, InvList, NoMemberLost
<1> QED
  BY <1>1, Invariance, PTL
=============================================================================
