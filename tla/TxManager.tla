----------------------------- MODULE TxManager -----------------------------
(***************************************************************************)
(* The transaction-group coordinator of uusmart-tx-manager                 *)
(* (TxManagerServiceImpl, TxManagerSenderServiceImpl and the cg, atg, rg,  *)
(* ckg, ctg, t actions of the netty server), for one transaction group.    *)
(*                                                                         *)
(* Every request runs on a pool thread of TxCoreServerHandler, reads the   *)
(* group from redis into a private copy, changes the copy and writes the   *)
(* whole copy back: the read and the write are two steps here, because     *)
(* nothing orders them with the steps of other requests.  The members of   *)
(* the group are clients outside src/; the module gives them the one rule  *)
(* the coordinator relies on: a member applies the first decision that     *)
(* reaches it, and answers "1" to a notification exactly when it applies   *)
(* it.                                                                     *)
(***************************************************************************)
EXTENDS Naturals, FiniteSets

CONSTANTS
  Members,     \* task ids (kid) the starter may call
  Grouped,     \* members that join with isGroup = 1: they are not notified
  Remote,      \* members connected to another TxManager: their channel is an address
  NoGroup,     \* redis has no value under the group's key
  NoRecord     \* no compensation record exists for the group

\* Grouped and Remote are kinds of members.
ASSUME MembersAssumption == Grouped \subseteq Members /\ Remote \subseteq Members

\* The part of a TxGroup the coordinator's decisions read: the kids of its
\* list, those with notify = 1, and the flags rollback, hasOver and state.
Group == [list : SUBSET Members, notified : SUBSET Members,
          rollback : {0, 1}, hasOver : {0, 1}, state : {0, 1}]

\* What reloadCompensate reads of a compensation record.
Record == [list : SUBSET Members, notified : SUBSET Members]

\* The null values lie outside the data they stand beside.
ASSUME NullAssumption == NoGroup \notin Group /\ NoRecord \notin Record

VARIABLES
  store,       \* redis: the saved group, or NoGroup
  record,      \* the compensation record an earlier run of the group left
  saved,       \* the compensation record this run leaves
  part,        \* per member: where it stands in the transaction
  atgCopy,     \* per member: the group its atg request has read
  ckg,         \* per member: its ckg request
  ckgCopy,     \* per member: the group its ckg request has read
  rg,          \* the rg request
  rgCopy,      \* the group the rg request has read
  ctg,         \* where the starter and its ctg request stand
  closeState,  \* the state the starter closes with: 1 fine, 0 failed
  ctgCopy,     \* the TxGroup object the close works on
  ctgAns,      \* what closeTransactionGroup returned
  task,        \* per member: the Task of its commit notification
  net,         \* per member: the notification on its way to it
  reply,       \* per member: its answer on its way back
  comp,        \* the starter's compensation request
  compCopy,    \* the group that request has read
  forced       \* history: a forced rollback was recorded while the group was open

groupVars == <<store, record, saved>>
joinVars  == <<part, atgCopy>>
ckgVars   == <<ckg, ckgCopy>>
rgVars    == <<rg, rgCopy>>
ctgVars   == <<ctg, closeState, ctgCopy, ctgAns>>
netVars   == <<task, net, reply>>
compVars  == <<comp, compCopy>>
vars == <<groupVars, joinVars, ckgVars, rgVars, ctgVars, netVars, compVars, forced>>

PartStates == {"out", "joining", "refused", "joined", "committed", "rolledback"}
CkgStates  == {"idle", "busy", "commit", "rollback", "done"}
CtgStates  == {"idle", "open", "save", "commit", "delete", "deal", "done"}
TaskStates == {"none", "await", "1", "0", "-2", "ok", "failed"}

TypeOK ==
  /\ store \in Group \cup {NoGroup}
  /\ record \in Record \cup {NoRecord}
  /\ saved \in Record \cup {NoRecord}
  /\ part \in [Members -> PartStates]
  /\ atgCopy \in [Members -> Group \cup {NoGroup}]
  /\ ckg \in [Members -> CkgStates]
  /\ ckgCopy \in [Members -> Group \cup {NoGroup}]
  /\ rg \in {"idle", "busy", "done"}
  /\ rgCopy \in Group \cup {NoGroup}
  /\ ctg \in CtgStates
  /\ closeState \in {0, 1}
  /\ ctgCopy \in Group \cup {NoGroup}
  /\ ctgAns \in {"none", "0", "1", "-1"}
  /\ task \in [Members -> TaskStates]
  /\ net \in [Members -> {"none", "commit", "rollback"}]
  /\ reply \in [Members -> {"none", "1", "0"}]
  /\ comp \in {"idle", "busy", "done"}
  /\ compCopy \in Group \cup {NoGroup}
  /\ forced \in BOOLEAN

EmptyGroup == [list |-> {}, notified |-> {}, rollback |-> 0, hasOver |-> 0, state |-> 0]

\* The records an earlier run can have left: of a group that closed without
\* every member notified, or, when the group had expired, of an empty one.
OldRecords == {r \in Record : r.notified \subseteq r.list}

Init ==
  /\ store = NoGroup
  /\ record \in OldRecords \cup {NoRecord}
  /\ saved = NoRecord
  /\ part = [m \in Members |-> "out"]
  /\ atgCopy = [m \in Members |-> NoGroup]
  /\ ckg = [m \in Members |-> "idle"]
  /\ ckgCopy = [m \in Members |-> NoGroup]
  /\ rg = "idle"
  /\ rgCopy = NoGroup
  /\ ctg = "idle"
  /\ closeState = 0
  /\ ctgCopy = NoGroup
  /\ ctgAns = "none"
  /\ task = [m \in Members |-> "none"]
  /\ net = [m \in Members |-> "none"]
  /\ reply = [m \in Members |-> "none"]
  /\ comp = "idle"
  /\ compCopy = NoGroup
  /\ forced = FALSE

-----------------------------------------------------------------------------
(* The setters of TxGroup and TxInfo the handlers call on their copy.      *)

AddInfo(g, m)  == [g EXCEPT !.list = g.list \cup {m}]
SetNotify(g, m) == [g EXCEPT !.notified = g.notified \cup {m}]
SetRollback(g) == [g EXCEPT !.rollback = 1]
SetState(g, s) == [g EXCEPT !.state = s]
SetHasOver(g)  == [g EXCEPT !.hasOver = 1]

-----------------------------------------------------------------------------
(* State predicates and the values the handlers compute.                   *)

\* createTransactionGroup marks the group isCompensate = 1 when a record exists.
Compensating == record # NoRecord

\* The members of group g that take part in the decision one by one.
Notifiable(g) == g.list \ Grouped

Joined == {m \in Members : part[m] \in {"joined", "committed", "rolledback"}}

\* reloadCompensate: the decision a member is sent.  A member the record has
\* as notified is rolled back this time, one it has as not notified commits,
\* and the default of isCommit is 0.
Direction(m) ==
  IF ~Compensating THEN "commit"
  ELSE IF m \in record.list \ record.notified THEN "commit" ELSE "rollback"

\* What a member does with a decision that reaches it.
Apply(m, d) ==
  part' = IF part[m] = "joined"
          THEN [part EXCEPT ![m] = IF d = "commit" THEN "committed" ELSE "rolledback"]
          ELSE part

-----------------------------------------------------------------------------
(* The starter opens the group (cg) and members join it (atg).             *)

CreateGroup ==
  /\ ctg = "idle"
  /\ ctg' = "open"
  /\ store' = EmptyGroup
  /\ UNCHANGED <<record, saved, joinVars, ckgVars, rgVars, closeState, ctgCopy, ctgAns,
                 netVars, compVars, forced>>

\* The starter calls its members one at a time; a call of a run that repeats
\* a recorded one reaches recorded members only.  A call the starter gave up
\* on may still reach the coordinator, while the group closes or afterwards.
MayJoin(m) ==
  /\ ctg # "idle"
  /\ ctg = "open" \/ closeState = 0
  /\ part[m] = "out"
  /\ \A n \in Members : part[n] # "joining"
  /\ Compensating /\ record.list # {} => m \in record.list

AtgRead(m) ==
  /\ MayJoin(m)
  /\ IF store = NoGroup
     THEN /\ part' = [part EXCEPT ![m] = "refused"]
          /\ UNCHANGED atgCopy
     ELSE /\ part' = [part EXCEPT ![m] = "joining"]
          /\ atgCopy' = [atgCopy EXCEPT ![m] = store]
  /\ UNCHANGED <<groupVars, ckgVars, rgVars, ctgVars, netVars, compVars, forced>>

AtgSave(m) ==
  /\ part[m] = "joining"
  /\ store' = AddInfo(atgCopy[m], m)
  /\ part' = [part EXCEPT ![m] = "joined"]
  /\ atgCopy' = [atgCopy EXCEPT ![m] = NoGroup]
  /\ UNCHANGED <<record, saved, ckgVars, rgVars, ctgVars, netVars, compVars, forced>>

-----------------------------------------------------------------------------
(* rg: a module asks for the whole group to be rolled back.                *)

RgRead ==
  /\ ctg # "idle" /\ rg = "idle"
  /\ rg' = IF store = NoGroup THEN "done" ELSE "busy"
  /\ rgCopy' = store
  /\ UNCHANGED <<groupVars, joinVars, ckgVars, ctgVars, netVars, compVars, forced>>

RgSave ==
  /\ rg = "busy"
  /\ store' = SetRollback(rgCopy)
  /\ rg' = "done"
  /\ rgCopy' = NoGroup
  /\ forced' = (forced \/ ctg = "open")
  /\ UNCHANGED <<record, saved, joinVars, ckgVars, ctgVars, netVars, compVars>>

-----------------------------------------------------------------------------
(* ckg: a member whose wait for a notification has timed out asks.         *)

CkgRead(m) ==
  /\ part[m] = "joined" /\ m \notin Grouped
  /\ ckg[m] = "idle"
  /\ ckg' = [ckg EXCEPT ![m] = IF store = NoGroup THEN "rollback" ELSE "busy"]
  /\ ckgCopy' = [ckgCopy EXCEPT ![m] = store]
  /\ UNCHANGED <<groupVars, joinVars, rgVars, ctgVars, netVars, compVars, forced>>

\* Mutant: the branch of an open group saves its copy without the flag.
CkgNotOverUnmarked(m, g) ==
  /\ g.hasOver = 0
  /\ store' = g
  /\ ckg' = [ckg EXCEPT ![m] = "rollback"]
  /\ forced' = (forced \/ ctg = "open")

\* The group has not been closed: all of it must roll back.
CkgNotOver(m, g) ==
  /\ g.hasOver = 0
  /\ store' = SetRollback(g)
  /\ ckg' = [ckg EXCEPT ![m] = "rollback"]
  /\ forced' = (forced \/ ctg = "open")

\* Mutant: the rollback branch leaves the request unanswered.
CkgRollbackSilent(m, g) ==
  /\ g.hasOver = 1 /\ g.rollback = 1
  /\ ckg' = [ckg EXCEPT ![m] = "done"]
  /\ UNCHANGED <<store, forced>>

CkgRollback(m, g) ==
  /\ g.hasOver = 1 /\ g.rollback = 1
  /\ ckg' = [ckg EXCEPT ![m] = "rollback"]
  /\ UNCHANGED <<store, forced>>

\* Mutant: the request of a closed group does not look at rollback.
CkgClosedForced(m, g) ==
  /\ g.hasOver = 1
  /\ ckg' = [ckg EXCEPT ![m] = IF m \in Notifiable(g) \ g.notified THEN "commit" ELSE "rollback"]
  /\ store' = SetNotify(g, m)
  /\ UNCHANGED forced

\* Mutant: the request does not look at hasOver.
CkgClosedEarly(m, g) ==
  /\ g.rollback = 0
  /\ ckg' = [ckg EXCEPT ![m] = IF m \in Notifiable(g) \ g.notified THEN "commit" ELSE "rollback"]
  /\ store' = SetNotify(g, m)
  /\ UNCHANGED forced

\* The group is closed and not forced to roll back: the member is marked
\* notified and may commit; the group goes when nobody is left to notify.
CkgClosed(m, g) ==
  LET hasSet == m \in Notifiable(g) \ g.notified
      now    == IF hasSet THEN SetNotify(g, m) ELSE g
      isOver == Notifiable(now) \subseteq now.notified
  IN  /\ g.hasOver = 1 /\ g.rollback = 0
      /\ ckg' = [ckg EXCEPT ![m] = IF hasSet THEN "commit" ELSE "rollback"]
      /\ store' = IF isOver THEN NoGroup
                  ELSE IF hasSet THEN now ELSE store
      /\ UNCHANGED forced

CkgSave(m) ==
  /\ ckg[m] = "busy"
  /\ \/ CkgNotOver(m, ckgCopy[m])
     \/ CkgRollback(m, ckgCopy[m])
     \/ CkgClosed(m, ckgCopy[m])
  /\ ckgCopy' = [ckgCopy EXCEPT ![m] = NoGroup]
  /\ UNCHANGED <<record, saved, joinVars, rgVars, ctgVars, netVars, compVars>>

\* The answer reaches the member, which applies it unless it has decided.
CkgAnswered(m) ==
  /\ ckg[m] \in {"commit", "rollback"}
  /\ Apply(m, ckg[m])
  /\ ckg' = [ckg EXCEPT ![m] = "done"]
  /\ UNCHANGED <<groupVars, atgCopy, ckgCopy, rgVars, ctgVars, netVars, compVars, forced>>

-----------------------------------------------------------------------------
(* ctg: the starter closes the group.                                      *)

\* With state 1 every call it made has returned from a member that joined.
MayClose(s) ==
  /\ ctg = "open"
  /\ s = 1 => \A m \in Members : part[m] \notin {"joining", "refused"}

CtgRead(s) ==
  /\ MayClose(s)
  /\ closeState' = s
  /\ IF store = NoGroup
     THEN ctg' = "done" /\ ctgAns' = "0" /\ UNCHANGED ctgCopy
     ELSE /\ ctg' = "save"
          /\ ctgCopy' = SetHasOver(SetState(store, s))
          /\ UNCHANGED ctgAns
  /\ UNCHANGED <<groupVars, joinVars, ckgVars, rgVars, netVars, compVars, forced>>

\* The members setChannel can give a channel: those of other TxManagers
\* always, those of this one when their connection is up.
Reachable == {r \in SUBSET Notifiable(ctgCopy) : Remote \cap Notifiable(ctgCopy) \subseteq r}

\* confirm: nothing commits when the starter failed or a rollback is recorded.
MustRollback(g) == g.state = 0 \/ g.rollback = 1

\* transaction(1) starts one thread per member: without a channel it fails at
\* once, otherwise it creates its task and sends the notification.
NotifyCommit(reach) ==
  /\ task' = [m \in Members |-> IF m \in reach THEN "await"
                                ELSE IF m \in Notifiable(ctgCopy) THEN "failed" ELSE task[m]]
  /\ net' = [m \in Members |-> IF m \in reach THEN Direction(m) ELSE net[m]]

\* transaction(0) sends and does not wait; ChannelSender.send(msg) has no way
\* to a member of another TxManager.
NotifyRollback(reach) ==
  /\ net' = [m \in Members |-> IF m \in reach \ Remote THEN "rollback" ELSE net[m]]
  /\ UNCHANGED task

CtgSave ==
  /\ ctg = "save"
  /\ store' = ctgCopy
  /\ \E reach \in Reachable :
       IF MustRollback(ctgCopy)
       THEN ctg' = "delete" /\ NotifyRollback(reach)
       ELSE ctg' = "commit" /\ NotifyCommit(reach)
  /\ UNCHANGED <<record, saved, joinVars, ckgVars, rgVars, closeState, ctgCopy, ctgAns,
                 reply, compVars, forced>>

CtgDelete ==
  /\ ctg = "delete"
  /\ store' = NoGroup
  /\ ctg' = "done"
  /\ ctgAns' = IF closeState = 0 THEN "0" ELSE "-1"
  /\ ctgCopy' = NoGroup
  /\ UNCHANGED <<record, saved, joinVars, ckgVars, rgVars, closeState, netVars,
                 compVars, forced>>

-----------------------------------------------------------------------------
(* The notification of one member, its task and its timeout.               *)

Deliver(m) ==
  /\ net[m] # "none"
  /\ Apply(m, net[m])
  /\ reply' = [reply EXCEPT ![m] = IF part[m] = "joined" THEN "1" ELSE "0"]
  /\ net' = [net EXCEPT ![m] = "none"]
  /\ UNCHANGED <<groupVars, atgCopy, ckgVars, rgVars, ctgVars, task, compVars, forced>>

\* BaseSignalTaskService: the answer is set on the task of its key and wakes
\* it; a later one replaces it; without a task it is dropped.
ReplyArrives(m) ==
  /\ reply[m] # "none"
  /\ task' = IF task[m] \in {"await", "1", "0", "-2"}
             THEN [task EXCEPT ![m] = reply[m]] ELSE task
  /\ reply' = [reply EXCEPT ![m] = "none"]
  /\ UNCHANGED <<groupVars, joinVars, ckgVars, rgVars, ctgVars, net, compVars, forced>>

\* Mutant: the timer leaves the value sendMsg uses for a broken task.
TaskTimeoutBroken(m) ==
  /\ task[m] = "await"
  /\ task' = [task EXCEPT ![m] = "-1"]
  /\ UNCHANGED <<groupVars, joinVars, ckgVars, rgVars, ctgVars, net, reply, compVars, forced>>

\* The timer sets "-2" on a task it has seen unanswered; an answer set after
\* that check and not yet read is overwritten.
TaskTimeout(m) ==
  /\ task[m] \in {"await", "1", "0"}
  /\ task' = [task EXCEPT ![m] = "-2"]
  /\ UNCHANGED <<groupVars, joinVars, ckgVars, rgVars, ctgVars, net, reply, compVars, forced>>

\* Mutant: a task that timed out counts as a success.
TaskReadLate(m) ==
  /\ task[m] \in {"1", "0", "-2"}
  /\ IF task[m] \in {"1", "-2"}
     THEN task' = [task EXCEPT ![m] = "ok"] /\ ctgCopy' = SetNotify(ctgCopy, m)
     ELSE task' = [task EXCEPT ![m] = "failed"] /\ UNCHANGED ctgCopy
  /\ UNCHANGED <<groupVars, joinVars, ckgVars, rgVars, ctg, closeState, ctgAns, net, reply,
                 compVars, forced>>

\* Mutant: notify is set before the answer is looked at.
TaskReadEager(m) ==
  /\ task[m] \in {"1", "0", "-2"}
  /\ task' = [task EXCEPT ![m] = IF task[m] = "1" THEN "ok" ELSE "failed"]
  /\ ctgCopy' = SetNotify(ctgCopy, m)
  /\ UNCHANGED <<groupVars, joinVars, ckgVars, rgVars, ctg, closeState, ctgAns, net, reply,
                 compVars, forced>>

\* The thread wakes, reads the answer, records notify and removes the task.
TaskRead(m) ==
  /\ task[m] \in {"1", "0", "-2"}
  /\ IF task[m] = "1"
     THEN /\ task' = [task EXCEPT ![m] = "ok"]
          /\ ctgCopy' = SetNotify(ctgCopy, m)
     ELSE task' = [task EXCEPT ![m] = "failed"] /\ UNCHANGED ctgCopy
  /\ UNCHANGED <<groupVars, joinVars, ckgVars, rgVars, ctg, closeState, ctgAns, net, reply,
                 compVars, forced>>

\* Mutant: the latch counts only the threads that succeeded.
CtgJoinOk ==
  /\ ctg = "commit"
  /\ \A m \in Notifiable(ctgCopy) : task[m] = "ok"
  /\ store' = ctgCopy
  /\ ctg' = "deal"
  /\ UNCHANGED <<record, saved, joinVars, ckgVars, rgVars, closeState, ctgCopy, ctgAns,
                 netVars, compVars, forced>>

\* All threads have ended: the close saves the object it has worked on.
CtgJoin ==
  /\ ctg = "commit"
  /\ \A m \in Notifiable(ctgCopy) : task[m] \in {"ok", "failed"}
  /\ store' = ctgCopy
  /\ ctg' = "deal"
  /\ UNCHANGED <<record, saved, joinVars, ckgVars, rgVars, closeState, ctgCopy, ctgAns,
                 netVars, compVars, forced>>

\* Mutant: one thread that returned true is enough.
HasOkSome == \E m \in Notifiable(ctgCopy) : task[m] = "ok"

\* hasOk: every thread returned true.
HasOk == \A m \in Notifiable(ctgCopy) : task[m] = "ok"

CtgDeal ==
  /\ ctg = "deal"
  /\ store' = IF HasOk THEN NoGroup ELSE store
  /\ ctgAns' = IF HasOk THEN "1" ELSE "0"
  /\ ctg' = "done"
  /\ ctgCopy' = NoGroup
  /\ UNCHANGED <<record, saved, joinVars, ckgVars, rgVars, closeState, netVars,
                 compVars, forced>>

-----------------------------------------------------------------------------
(* The starter that closed with 1 and was answered 0 asks for compensation.*)

RecordOf(g) == IF g = NoGroup THEN [list |-> {}, notified |-> {}]
               ELSE [list |-> g.list, notified |-> g.notified]

CompRead ==
  /\ comp = "idle"
  /\ ctgAns = "0" /\ closeState = 1 /\ ~Compensating
  /\ comp' = "busy"
  /\ compCopy' = store
  /\ UNCHANGED <<groupVars, joinVars, ckgVars, rgVars, ctgVars, netVars, forced>>

CompSave ==
  /\ comp = "busy"
  /\ store' = IF compCopy = NoGroup THEN store ELSE NoGroup
  /\ saved' = RecordOf(compCopy)
  /\ comp' = "done"
  /\ compCopy' = NoGroup
  /\ UNCHANGED <<record, joinVars, ckgVars, rgVars, ctgVars, netVars, forced>>

-----------------------------------------------------------------------------
(* Redis drops a group 30 s after its last save.  A close saves the group  *)
(* when it starts and then takes no longer than the 5 s of its tasks.      *)

Expire ==
  /\ store # NoGroup
  /\ ctg \in {"open", "done"}
  /\ store' = NoGroup
  /\ UNCHANGED <<record, saved, joinVars, ckgVars, rgVars, ctgVars, netVars, compVars, forced>>

Next ==
  \/ CreateGroup
  \/ RgRead \/ RgSave
  \/ \E s \in {0, 1} : CtgRead(s)
  \/ CtgSave \/ CtgDelete \/ CtgJoin \/ CtgDeal
  \/ CompRead \/ CompSave
  \/ Expire
  \/ \E m \in Members :
       \/ AtgRead(m) \/ AtgSave(m)
       \/ CkgRead(m) \/ CkgSave(m) \/ CkgAnswered(m)
       \/ Deliver(m) \/ ReplyArrives(m) \/ TaskTimeout(m) \/ TaskRead(m)

Spec == Init /\ [][Next]_vars

\* Pool threads and timers run: a request that was read is saved and answered,
\* a member whose wait times out asks and learns its answer, tasks time out
\* and the close goes on.  Notifications and their answers may never arrive,
\* and the starter and its calls are under no obligation.
Fairness ==
  /\ WF_vars(CtgSave) /\ WF_vars(CtgDelete) /\ WF_vars(CtgJoin) /\ WF_vars(CtgDeal)
  /\ \A m \in Members :
       /\ WF_vars(CkgRead(m)) /\ WF_vars(CkgSave(m)) /\ WF_vars(CkgAnswered(m))
       /\ WF_vars(TaskTimeout(m)) /\ WF_vars(TaskRead(m))

FairSpec == Spec /\ Fairness

-----------------------------------------------------------------------------
(* Properties.                                                             *)

\* A close answered "1" is a promise to the starter: every member that joined
\* and is decided on its own has applied the decision meant for it, whatever
\* was late, lost or interleaved (the starter commits on this answer).
CommitAnswerSound ==
  ctgAns = "1" =>
    \A m \in Joined \ Grouped :
      part[m] = IF Direction(m) = "commit" THEN "committed" ELSE "rolledback"

\* A close answered "-1" (forced rollback) means that no member has committed
\* or ever will: neither the notifications nor the ckg answers say commit.
ForcedAnswerSound ==
  ctgAns = "-1" =>
    \A m \in Members : part[m] # "committed" /\ ckg[m] # "commit" /\ net[m] # "commit"

\* A group closed with state 0 is rolled back as a whole
\* (TxManagerSenderServiceImpl:68): once the close is over no member has
\* committed.  The code does not keep this: see the finding of its run.
FailedGroupRollsBack ==
  ctg = "done" /\ closeState = 0 => \A m \in Members : part[m] # "committed"

\* Once a rollback of the open group has been recorded and acknowledged, "all
\* transaction must rollback" (TxManagerServiceImpl:124): no member commits.
\* The code does not keep this: see the finding of its run.
ForcedRollbackHolds ==
  forced => \A m \in Members : part[m] # "committed"

\* Nobody is told to commit before the starter has closed the group: a member
\* that gives up waiting and asks early is always told to roll back.
NoCommitBeforeClose ==
  ctg \in {"idle", "open", "save"} =>
    \A m \in Members : part[m] # "committed" /\ ckg[m] # "commit" /\ net[m] # "commit"

\* Read-copy-write races between requests never drop a member from a group
\* that can still commit: while it is open, the saved group, unless it is
\* marked for rollback, lists everyone who joined.
NoMemberLost ==
  ctg = "open" /\ store # NoGroup /\ store.rollback = 0 => Joined \subseteq store.list

\* A compensation record names as notified only members that committed or hold
\* a commit answer they have yet to read: compensation, which skips them, loses nobody's work.
RecordSound ==
  saved # NoRecord =>
    \A m \in saved.notified : part[m] = "committed" \/ (part[m] = "joined" /\ ckg[m] = "commit")

\* A close that has begun answers the starter, whether or not its members do.
CloseAnswers == ctg = "save" ~> ctg = "done"

\* A member that joined and waits for its own decision gets one, whatever is
\* lost: it can ask, and every state of the group yields an answer.
MemberDecides ==
  \A m \in Members \ Grouped :
    part[m] = "joined" ~> part[m] \in {"committed", "rolledback"}

-----------------------------------------------------------------------------
(* The coordinator keeps the promise of TxPromise.                         *)

\* Where a member stands, as the promise sees it.
Outcome(m) == IF part[m] \in {"committed", "rolledback"} THEN part[m] ELSE "open"

Promise == INSTANCE TxPromise WITH
  joined  <- Joined \ Grouped,
  outcome <- [m \in Members |-> Outcome(m)],
  closed  <- ctg \notin {"idle", "open", "save"},
  answer  <- ctgAns,
  normal  <- ~Compensating

\* Every behaviour of the coordinator is one of the promise: a member commits
\* only after the close and never against the answer "-1", is decided once,
\* and an answer "1" is given only to a starter all of whose members are done.
PromiseKept == Promise!Spec
=============================================================================
