--------------------------- MODULE TxRecordProofs ---------------------------
(***************************************************************************)
(* The compensation record of TxManager is sound, for any set of members:  *)
(* whoever it calls notified has committed or holds an answer to commit.   *)
(***************************************************************************)
EXTENDS TxManagerProofs

\* The member committed, or holds a commit answer it will apply.
Told(m) == part[m] = "committed" \/ (part[m] = "joined" /\ ckg[m] = "commit")

\* A copy of the group calls notified only members that were told to commit.
Sound(g) == g # NoGroup => \A x \in g.notified : Told(x)

\* The run closed with 1 and is not itself a compensation.
Recording == closeState = 1 /\ ~Compensating

\* Before the close a member that asks still waits, and the close has no copy.
InvAsking ==
  /\ BeforeClose => \A m \in Members : ckg[m] = "busy" => part[m] = "joined"
  /\ ctg \in {"idle", "open", "done"} => ctgCopy = NoGroup

\* Only a forced close sends a rollback, or lets a member roll back while it asks.
InvForcedOnly ==
  Recording /\ ~ForcedClose =>
    \A m \in Members : net[m] # "rollback" /\ ~(ckg[m] = "busy" /\ part[m] = "rolledback")

\* Every copy of the group, wherever it is, is sound.
InvNotified ==
  Recording => /\ Sound(store) /\ Sound(rgCopy) /\ Sound(ctgCopy) /\ Sound(compCopy)
               /\ \A m \in Members : Sound(ckgCopy[m])

\* A compensation record comes from a run that closed with 1 and was answered "0".
InvRecord ==
  /\ comp # "idle" \/ saved # NoRecord => Recording
  /\ compCopy # NoGroup => comp = "busy"
  /\ saved # NoRecord => \A x \in saved.notified : Told(x)

RInv == IInv /\ InvAsking /\ InvForcedOnly /\ InvNotified /\ InvRecord

-----------------------------------------------------------------------------

\* Every step keeps InvAsking and InvForcedOnly.
LEMMA AskingNext ==
  IInv /\ InvAsking /\ InvForcedOnly /\ [Next]_vars => InvAsking' /\ InvForcedOnly'
<1> SUFFICES ASSUME IInv, InvAsking, InvForcedOnly, [Next]_vars
             PROVE  InvAsking' /\ InvForcedOnly'
  OBVIOUS
<1> USE GroupFields DEF IInv, TypeOK, InvCopies, InvQuiet, InvClose, InvAsking, InvForcedOnly,
    Recording, ForcedClose, BeforeClose, Compensating, groupVars, joinVars, ckgVars, rgVars,
    ctgVars, netVars, compVars
<1>1. CASE CreateGroup \/ RgRead \/ RgSave \/ CompRead \/ CompSave \/ Expire
  BY <1>1 DEF CreateGroup, RgRead, RgSave, CompRead, CompSave, Expire
<1>2. CASE CtgSave
  <2>1. ctg = "save" /\ UNCHANGED <<closeState, record, part, ckg, ctgCopy, ctgAns>>
    BY <1>2 DEF CtgSave
  <2>2. CASE MustRollback(ctgCopy)
    <3>1. ctg' = "delete"
      BY <1>2, <2>2 DEF CtgSave
    <3> QED
      BY <2>1, <3>1
  <2>3. CASE ~MustRollback(ctgCopy)
    <3>1. ctg' = "commit" /\ \E reach \in Reachable : NotifyCommit(reach)
      BY <1>2, <2>3 DEF CtgSave
    <3>2. ~Compensating => \A m \in Members : net'[m] # "rollback"
      BY <2>1, <3>1 DEF NotifyCommit, Direction
    <3> QED
      BY <2>1, <3>1, <3>2
  <2> QED
    BY <2>2, <2>3
<1>3. CASE CtgDelete \/ CtgJoin \/ CtgDeal
  BY <1>3 DEF CtgDelete, CtgJoin, CtgDeal
<1>4. ASSUME NEW s \in {0, 1}, CtgRead(s) PROVE InvAsking' /\ InvForcedOnly'
  BY <1>4 DEF CtgRead, MayClose
<1>5. ASSUME NEW m \in Members, AtgRead(m) \/ AtgSave(m) PROVE InvAsking' /\ InvForcedOnly'
  BY <1>5 DEF AtgRead, AtgSave, MayJoin
<1>6. ASSUME NEW m \in Members, CkgRead(m) PROVE InvAsking' /\ InvForcedOnly'
  BY <1>6 DEF CkgRead
<1>7. ASSUME NEW m \in Members, CkgSave(m) PROVE InvAsking' /\ InvForcedOnly'
  BY <1>7 DEF CkgSave, CkgNotOver, CkgRollback, CkgClosed
<1>8. ASSUME NEW m \in Members, CkgAnswered(m) PROVE InvAsking' /\ InvForcedOnly'
  BY <1>8 DEF CkgAnswered, Apply
<1>9. ASSUME NEW m \in Members, Deliver(m) PROVE InvAsking' /\ InvForcedOnly'
  BY <1>9 DEF Deliver, Apply
<1>10. ASSUME NEW m \in Members, ReplyArrives(m) \/ TaskTimeout(m) \/ TaskRead(m)
       PROVE  InvAsking' /\ InvForcedOnly'
  BY <1>10 DEF ReplyArrives, TaskTimeout, TaskRead
<1>11. CASE UNCHANGED vars
  BY <1>11 DEF vars
<1> QED
  BY <1>1, <1>2, <1>3, <1>4, <1>5, <1>6, <1>7, <1>8, <1>9, <1>10, <1>11 DEF Next

\* Whoever was told to commit stays told.
LEMMA ToldStays ==
  ASSUME IInv, InvForcedOnly, [Next]_vars, Recording, NEW x \in Members, Told(x)
  PROVE  Told(x)'
<1> USE DEF IInv, TypeOK, InvForcedOnly, InvForced, ForcedClose, Told, groupVars, joinVars,
    ckgVars, rgVars, ctgVars, netVars, compVars
<1>1. CASE UNCHANGED <<part, ckg>>
  BY <1>1
<1>2. ASSUME NEW m \in Members, AtgRead(m) \/ AtgSave(m) PROVE Told(x)'
  BY <1>2 DEF AtgRead, AtgSave, MayJoin
<1>3. ASSUME NEW m \in Members, CkgRead(m) PROVE Told(x)'
  BY <1>3 DEF CkgRead
<1>4. ASSUME NEW m \in Members, CkgSave(m) PROVE Told(x)'
  BY <1>4 DEF CkgSave, CkgNotOver, CkgRollback, CkgClosed
<1>5. ASSUME NEW m \in Members, CkgAnswered(m) PROVE Told(x)'
  BY <1>5 DEF CkgAnswered, Apply
<1>6. ASSUME NEW m \in Members, Deliver(m) PROVE Told(x)'
  BY <1>6 DEF Deliver, Apply
<1>7. ASSUME \/ CreateGroup \/ RgRead \/ RgSave \/ CompRead \/ CompSave \/ Expire
             \/ CtgSave \/ CtgDelete \/ CtgJoin \/ CtgDeal
             \/ \E s \in {0, 1} : CtgRead(s)
             \/ \E m \in Members : ReplyArrives(m) \/ TaskTimeout(m) \/ TaskRead(m)
      PROVE  UNCHANGED <<part, ckg>>
  BY <1>7 DEF CreateGroup, RgRead, RgSave, CompRead, CompSave, Expire, CtgSave, CtgDelete,
     CtgJoin, CtgDeal, CtgRead, ReplyArrives, TaskTimeout, TaskRead
<1>8. CASE UNCHANGED vars
  BY <1>8 DEF vars
<1> QED
  BY <1>1, <1>2, <1>3, <1>4, <1>5, <1>6, <1>7, <1>8 DEF Next

\* The member whose ckg answers commit is told.
LEMMA CkgTold ==
  ASSUME IInv, InvForcedOnly, Recording, NEW m \in Members, CkgSave(m),
         CkgClosed(m, ckgCopy[m]), m \in Notifiable(ckgCopy[m]) \ ckgCopy[m].notified
  PROVE  Told(m)'
<1> USE DEF IInv, TypeOK, joinVars
<1>1. part[m] \in {"joined", "committed", "rolledback"} /\ ckg[m] = "busy"
      /\ ckgCopy[m] \in Group
  BY DEF CkgSave, InvCopies
<1>2. part[m] # "rolledback"
  <2>1. SUFFICES ASSUME part[m] = "rolledback" PROVE FALSE
    OBVIOUS
  <2>2. ForcedClose
    BY <1>1, <2>1 DEF InvForcedOnly
  <2>3. ckgCopy[m].rollback = 1 \/ ckgCopy[m].hasOver = 0
    BY <1>1, <2>2, GroupFields DEF InvForced
  <2> QED
    BY <2>3 DEF CkgClosed
<1>3. ckg'[m] = "commit" /\ part' = part
  BY DEF CkgSave, CkgClosed
<1> QED
  BY <1>1, <1>2, <1>3 DEF Told

\* The copies that are the same, or have the same notified members, as a sound
\* copy before the step.
SameOr(h, g) == h = g \/ (h # NoGroup /\ g # NoGroup /\ h.notified = g.notified)

\* Every step keeps all copies of the group sound.
LEMMA NotifiedNext ==
  RInv /\ [Next]_vars => InvNotified'
<1> SUFFICES ASSUME RInv, [Next]_vars, Recording'
             PROVE  /\ Sound(store)' /\ Sound(rgCopy)' /\ Sound(ctgCopy)' /\ Sound(compCopy)'
                    /\ \A m \in Members : Sound(ckgCopy[m])'
  BY DEF InvNotified
<1> DEFINE Goal == /\ Sound(store)' /\ Sound(rgCopy)' /\ Sound(ctgCopy)' /\ Sound(compCopy)'
                   /\ \A m \in Members : Sound(ckgCopy[m])'
<1>a. IInv /\ InvAsking /\ InvForcedOnly /\ InvNotified /\ InvRecord /\ TypeOK
  BY DEF RInv, IInv
<1>1. ASSUME NEW s \in {0, 1}, CtgRead(s) PROVE Goal
  <2>1. /\ ctg = "open" /\ ctgCopy' \in {ctgCopy, SetHasOver(SetState(store, s))}
        /\ store = NoGroup => ctgCopy' = ctgCopy
        /\ UNCHANGED <<store, rgCopy, compCopy, ckgCopy, record, comp, saved>>
    BY <1>1 DEF CtgRead, MayClose, groupVars, rgVars, compVars, ckgVars
  <2>2. closeState # 1
    BY <1>a, <2>1 DEF IInv, InvClose
  <2>3. compCopy = NoGroup /\ ctgCopy = NoGroup
    BY <1>a, <2>1, <2>2 DEF InvRecord, Recording, InvAsking
  <2>4. /\ store # NoGroup => store.notified = {}
        /\ rgCopy # NoGroup => rgCopy.notified = {}
        /\ \A m \in Members : ckgCopy[m] # NoGroup => ckgCopy[m].notified = {}
    BY <1>a, <2>1 DEF IInv, InvQuiet, BeforeClose
  <2>5. ctgCopy' # NoGroup => ctgCopy'.notified = {}
    BY <1>a, <2>1, <2>3, <2>4, SetStateFields, SetHasOverFields DEF TypeOK
  <2> QED
    BY <2>1, <2>3, <2>4, <2>5 DEF Sound
<1>2. CASE Recording
  <2>1. \A x \in Members : Told(x) => Told(x)'
    BY <1>2, <1>a, ToldStays
  <2>2. /\ Sound(store) /\ Sound(rgCopy) /\ Sound(ctgCopy) /\ Sound(compCopy)
        /\ \A m \in Members : Sound(ckgCopy[m])
    BY <1>2, <1>a DEF InvNotified
  <2> DEFINE Kept(h) == h # NoGroup => \A x \in h.notified : Told(x)'
  <2>3. ASSUME NEW g \in Group \cup {NoGroup}, Sound(g), NEW h, SameOr(h, g) PROVE Kept(h)
    BY <2>1, <2>3, GroupFields DEF Sound, SameOr
  <2>4. /\ Kept(store) /\ Kept(rgCopy) /\ Kept(ctgCopy) /\ Kept(compCopy)
        /\ \A m \in Members : Kept(ckgCopy[m])
    BY <1>a, <2>2, <2>3 DEF TypeOK, SameOr
  <2>5. Kept(NoGroup)
    OBVIOUS
  <2>6. /\ Kept(store') => Sound(store)'
        /\ Kept(rgCopy') => Sound(rgCopy)'
        /\ Kept(ctgCopy') => Sound(ctgCopy)'
        /\ Kept(compCopy') => Sound(compCopy)'
        /\ (\A m \in Members : Kept(ckgCopy'[m])) => \A m \in Members : Sound(ckgCopy[m])'
    BY DEF Sound
  <2>7. SUFFICES /\ Kept(store') /\ Kept(rgCopy') /\ Kept(ctgCopy') /\ Kept(compCopy')
                 /\ \A m \in Members : Kept(ckgCopy'[m])
    BY <2>6
  <2> HIDE DEF Kept
  <2> USE DEF TypeOK, groupVars, joinVars, ckgVars, rgVars, ctgVars, netVars, compVars
  <2>8. CASE CreateGroup
    <3>1. Kept(EmptyGroup)
      BY DEF Kept, EmptyGroup
    <3> QED
      BY <2>8, <2>4, <3>1 DEF CreateGroup
  <2>9. CASE RgRead \/ CompRead \/ CompSave \/ Expire \/ CtgDelete \/ CtgJoin \/ CtgDeal
    BY <2>9, <2>4, <2>5 DEF RgRead, CompRead, CompSave, Expire, CtgDelete, CtgJoin, CtgDeal
  <2>10. CASE CtgSave
    BY <2>10, <2>4 DEF CtgSave, NotifyCommit, NotifyRollback
  <2>11. CASE RgSave
    <3>1. rgCopy \in Group /\ store' = SetRollback(rgCopy)
      BY <1>a, <2>11 DEF RgSave, IInv, InvCopies
    <3>2. SameOr(store', rgCopy)
      BY <3>1, SetRollbackFields, GroupFields DEF SameOr
    <3>3. Kept(store')
      BY <3>1, <3>2, <2>2, <2>3
    <3> QED
      BY <2>11, <2>4, <2>5, <3>3 DEF RgSave
  <2>12. ASSUME NEW m \in Members, AtgRead(m)
         PROVE  UNCHANGED <<store, rgCopy, ctgCopy, compCopy, ckgCopy>>
    BY <2>12 DEF AtgRead
  <2>13. ASSUME NEW m \in Members PROVE ~AtgSave(m)
    BY <1>2, <1>a DEF AtgSave, Recording, IInv, InvClose
  <2>14. ASSUME NEW m \in Members, CkgRead(m)
         PROVE  /\ UNCHANGED <<store, rgCopy, ctgCopy, compCopy>>
                /\ \A n \in Members : ckgCopy'[n] \in {store, ckgCopy[n]}
    BY <2>14, <1>a DEF CkgRead
  <2>15. ASSUME NEW m \in Members, CkgSave(m)
         PROVE  /\ UNCHANGED <<rgCopy, ctgCopy, compCopy>>
                /\ \A n \in Members : ckgCopy'[n] \in {NoGroup, ckgCopy[n]}
                /\ Kept(store')
    <3> DEFINE g == ckgCopy[m]
    <3>1. g \in Group /\ Sound(g) /\ ckg[m] = "busy"
      BY <1>a, <2>2, <2>15 DEF CkgSave, IInv, InvCopies
    <3>2. CASE CkgNotOver(m, g)
      <4>1. SameOr(store', g)
        BY <3>1, <3>2, SetRollbackFields, GroupFields DEF CkgNotOver, SameOr
      <4> QED
        BY <1>a, <2>15, <2>3, <3>1, <4>1 DEF CkgSave
    <3>3. CASE CkgRollback(m, g)
      BY <1>a, <2>4, <2>15, <3>3 DEF CkgSave, CkgRollback
    <3>4. CASE CkgClosed(m, g)
      <4>1. store' \in {NoGroup, store, g, SetNotify(g, m)}
        BY <3>4 DEF CkgClosed
      <4>2. store' = SetNotify(g, m) => store' = NoGroup \/ store' = store \/ store' = g
                                          \/ m \in Notifiable(g) \ g.notified
        BY <3>4 DEF CkgClosed
      <4>3. ASSUME m \in Notifiable(g) \ g.notified PROVE Told(m)'
        BY <1>2, <1>a, <2>15, <3>4, <4>3, CkgTold
      <4>4. ASSUME m \in Notifiable(g) \ g.notified PROVE Kept(SetNotify(g, m))
        <5>1. SetNotify(g, m).notified = g.notified \cup {m}
          BY <3>1, SetNotifyFields
        <5>2. Kept(g) /\ g # NoGroup
          BY <2>4, <3>1, GroupFields
        <5> HIDE DEF g
        <5> QED
          BY <4>3, <4>4, <5>1, <5>2 DEF Kept
      <4>5. Kept(g)
        BY <2>4
      <4>6. Kept(store')
        BY <2>4, <2>5, <4>1, <4>2, <4>4, <4>5
      <4> QED
        BY <1>a, <2>15, <4>6 DEF CkgSave
    <3> QED
      BY <2>15, <3>2, <3>3, <3>4 DEF CkgSave
  <2>16. ASSUME NEW m \in Members,
                CkgAnswered(m) \/ Deliver(m) \/ ReplyArrives(m) \/ TaskTimeout(m)
         PROVE  UNCHANGED <<store, rgCopy, ctgCopy, compCopy, ckgCopy>>
    BY <2>16 DEF CkgAnswered, Deliver, ReplyArrives, TaskTimeout
  <2>17. ASSUME NEW m \in Members, TaskRead(m)
         PROVE  UNCHANGED <<store, rgCopy, compCopy, ckgCopy>> /\ Kept(ctgCopy')
    <3>1. CASE task[m] = "1"
      <4>1. ctgCopy' = SetNotify(ctgCopy, m) /\ ctgCopy \in Group
        BY <1>a, <2>17, <3>1 DEF TaskRead, IInv, InvCopies
      <4>2. part[m] = "committed"
        BY <1>2, <1>a, <3>1 DEF IInv, InvTask, Meant, Direction, Recording
      <4>3. Told(m)'
        BY <2>1, <4>2 DEF Told
      <4>4. ctgCopy'.notified = ctgCopy.notified \cup {m} /\ ctgCopy # NoGroup
        BY <4>1, SetNotifyFields, GroupFields
      <4>5. Kept(ctgCopy')
        BY <2>4, <4>3, <4>4 DEF Kept
      <4> QED
        BY <2>17, <4>5 DEF TaskRead
    <3>2. CASE task[m] # "1"
      BY <2>17, <3>2, <2>4 DEF TaskRead
    <3> QED
      BY <3>1, <3>2
  <2>18. CASE UNCHANGED vars
    BY <2>18, <2>4 DEF vars
  <2>19. ASSUME NEW s \in {0, 1} PROVE ~CtgRead(s)
    BY <1>2, <1>a DEF CtgRead, MayClose, Recording, IInv, InvClose
  <2> QED
    BY <2>4, <2>5, <2>8, <2>9, <2>10, <2>11, <2>12, <2>13, <2>14, <2>15, <2>16, <2>17, <2>18,
       <2>19 DEF Next
<1>3. CASE ~Recording
  <2>1. \E s \in {0, 1} : CtgRead(s)
    <3>1. record' = record
      BY DEF Next, vars, groupVars, CreateGroup, RgRead, RgSave, CtgSave, CtgDelete, CtgJoin,
         CtgDeal, CompRead, CompSave, Expire, CtgRead, AtgRead, AtgSave, CkgRead, CkgSave,
         CkgAnswered, Deliver, ReplyArrives, TaskTimeout, TaskRead
    <3>2. closeState' # closeState
      BY <1>3, <3>1 DEF Recording, Compensating
    <3> QED
      BY <3>2 DEF Next, vars, ctgVars, CreateGroup, RgRead, RgSave, CtgSave, CtgDelete, CtgJoin,
         CtgDeal, CompRead, CompSave, Expire, AtgRead, AtgSave, CkgRead, CkgSave,
         CkgAnswered, Deliver, ReplyArrives, TaskTimeout, TaskRead
  <2> QED
    BY <1>1, <2>1
<1> QED
  BY <1>2, <1>3

\* Every step keeps InvRecord.
LEMMA RecordNext == RInv /\ [Next]_vars => InvRecord'
<1> SUFFICES ASSUME RInv, [Next]_vars
             PROVE  InvRecord'
  OBVIOUS
<1>a. IInv /\ InvForcedOnly /\ InvNotified /\ InvRecord /\ TypeOK
  BY DEF RInv, IInv
<1>1. Recording => Recording'
  <2>1. record' = record /\ (closeState' # closeState => \E s \in {0, 1} : CtgRead(s))
    BY DEF Next, vars, groupVars, ctgVars, CreateGroup, RgRead, RgSave, CtgSave, CtgDelete,
       CtgJoin, CtgDeal, CompRead, CompSave, Expire, CtgRead, AtgRead, AtgSave, CkgRead, CkgSave,
       CkgAnswered, Deliver, ReplyArrives, TaskTimeout, TaskRead
  <2>2. closeState = 1 => ~\E s \in {0, 1} : CtgRead(s)
    BY <1>a DEF CtgRead, MayClose, IInv, InvClose
  <2> QED
    BY <2>1, <2>2 DEF Recording, Compensating
<1>2. CASE CompRead
  <2>1. Recording /\ comp' = "busy" /\ saved' = saved
    BY <1>2 DEF CompRead, Recording, groupVars
  <2>2. \A x \in Members : Told(x) => Told(x)'
    BY <1>a, <2>1, ToldStays
  <2>3. saved # NoRecord => saved.notified \subseteq Members
    BY <1>a DEF TypeOK, Record
  <2> QED
    BY <1>1, <1>a, <2>1, <2>2, <2>3 DEF InvRecord
<1>3. CASE CompSave
  <2>1. /\ comp = "busy" /\ saved' = RecordOf(compCopy) /\ compCopy' = NoGroup
        /\ UNCHANGED <<part, ckg>>
    BY <1>3 DEF CompSave, joinVars, ckgVars
  <2>2. Recording /\ Sound(compCopy)
    BY <1>a, <2>1 DEF InvRecord, InvNotified
  <2>3. \A x \in saved'.notified : Told(x)
    BY <2>1, <2>2 DEF Sound, RecordOf
  <2> QED
    BY <1>1, <2>1, <2>2, <2>3 DEF InvRecord, Told
<1>4. CASE UNCHANGED <<comp, compCopy, saved>>
  <2>1. CASE saved = NoRecord
    BY <1>1, <1>4, <1>a, <2>1 DEF InvRecord
  <2>2. CASE saved # NoRecord
    <3>1. Recording
      BY <1>a, <2>2 DEF InvRecord
    <3>2. \A x \in Members : Told(x) => Told(x)'
      BY <1>a, <3>1, ToldStays
    <3>3. saved.notified \subseteq Members
      BY <1>a, <2>2 DEF TypeOK, Record
    <3> QED
      BY <1>1, <1>4, <1>a, <3>2, <3>3 DEF InvRecord
  <2> QED
    BY <2>1, <2>2
<1>5. CompRead \/ CompSave \/ UNCHANGED <<comp, compCopy, saved>>
  BY DEF Next, vars, groupVars, compVars, CreateGroup, RgRead, RgSave, CtgSave, CtgDelete,
     CtgJoin, CtgDeal, Expire, CtgRead, AtgRead, AtgSave, CkgRead, CkgSave,
     CkgAnswered, Deliver, ReplyArrives, TaskTimeout, TaskRead
<1> QED
  BY <1>2, <1>3, <1>4, <1>5

-----------------------------------------------------------------------------

\* A compensation record calls notified only members that committed or hold a
\* commit answer: the compensation, which skips them, leaves no work undone.
THEOREM RecordCorrect == Spec => []RecordSound
<1>1. Init => InvAsking /\ InvForcedOnly /\ InvNotified /\ InvRecord
  BY DEF Init, InvAsking, InvForcedOnly, InvNotified, InvRecord, Recording, Sound
<1>2. RInv /\ [Next]_vars => InvAsking' /\ InvForcedOnly' /\ InvNotified' /\ InvRecord'
  BY AskingNext, NotifiedNext, RecordNext DEF RInv
<1>3. IInv /\ InvAsking /\ InvForcedOnly /\ InvNotified /\ InvRecord => RInv
  BY DEF RInv
<1>4. InvRecord => RecordSound
  BY DEF InvRecord, RecordSound, Told
<1> QED
  BY <1>1, <1>2, <1>3, <1>4, Invariance, PTL DEF Spec
=============================================================================
