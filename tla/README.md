# TLA+ models of uusmart (lc-smart)

uusmart is a smart-home backend of Spring Cloud services. Its services write several databases in
one business operation and tie these writes together with an LCN distributed-transaction manager,
`uusmart-tx-manager`. They talk to devices over MQTT, with answers, time-outs, retries and reports
of their own making. This directory holds TLA+ specifications of that manager, of the MQTT command
library and of the timers that services and devices keep in step, the TLC configurations that check
them, and TLAPS proofs about all of them.

Paths below are relative to `src/`; TM stands for
`uusmart-tx-manager/src/main/java/com/codingapi/tm`.

## Inventory

| component | state | operations | interacts with |
|---|---|---|---|
| transaction-group coordinator (`TM/manager/service/impl/TxManagerServiceImpl`, `TxManagerSenderServiceImpl`) | one `TxGroup` per group id in redis (30 s TTL), the tasks of outstanding notifications | cg create, atg join, rg force rollback, ckg ask, ctg close; notification threads with a latch; timers | clients over netty, redis, compensation |
| connection registry (`TM/framework/utils/SocketManager`, `TM/manager/ModelInfoManager`, `TM/netty/handler/TxCoreServerHandler`) | clients, connection counter, admission gate, lines, module infos; all in memory | register, unregister, umi, getServer | netty event loops, the handler pool |
| compensation (`TM/compensate`) | permanent records in redis | save with callback, automatic execution (three tries), manual execution, deletion, `reloadCompensate` | coordinator, clients, business callback url |
| load balance, REST api, admin page | a redis hash, none | | coordinator |
| MQTT command library (`uusmart_agreement/.../mqtt`) | outstanding commands, latches, a pool of timer threads, cached commands in `t_cache_msg`, status of the client | push, await, handleCallBack, time-out and retry, handleCacheMessage | all services that talk to devices |
| device service (`uusmart_device`) | device rows | login, disconnect, delivery of cached commands, reconnection | MQTT broker, MQTT library |
| timers (`uusmart_timing`), wisdoms (`uusmart_wisdom`) | rows of timers and condition rules, their update numbers | add, update, on/off, delete, synchronise with the device | MQTT library, tx-manager |
| app service (`uusmart_app`) | users, homes, rooms, device bindings | register, log in, bind and delete devices, default home | databases, tx-manager |
| oauth, feedback, voice and vivo adapters, gateway, eureka, config, datas | framework configuration, entities, translation of requests | | |
| `uusmart-web-parent` | third-party administration template and its plugins | fills tables and forms of the administration pages | |

What is hard in them: requests of one group run on 100 pool threads and every one of them reads,
copies and writes back the whole group without a lock; notifications are lost or late; a timer
checks a task and then sets its answer; members that give up waiting ask on their own; a starter that
was not told "1" has the group compensated, automatically and by hand at the same time; connections
come and go on several event loops while plain fields count them. In the services: MQTT answers
race their timeouts, device messages are handled out of order, rows change before or after the device
is told. `PROJECT.json` lists the hazards one by one, with the line where each bites.

## The modules

| module | what it is |
|---|---|
| `TxPromise` | what a coordinator promises about a group: the meaning of the answers `1`, `-1`, `0` documented at `TM/manager/service/TxManagerService.java:29-35` |
| `TxManager` | the coordinator, for one group |
| `TxManagerProofs` | the inductive invariant of `TxManager` and its safety theorems, for any set of members |
| `TxRecordProofs` | the compensation record of `TxManager` is sound, for any set of members |
| `TxRefinementProofs` | `TxManager` implements `TxPromise`, for any set of members |
| `Connections` | the connection registry |
| `ConnectionsProofs` | its types, the gate and the lists, for any connections, event loops and limit |
| `Compensation` | what becomes of a compensation record |
| `CompensationProofs` | its safety properties, for any calls, keys and administrators |
| `MqttPush` | commands to a device through the MQTT library, in the device service |
| `MqttPushProofs` | its safety properties, for any commands, logins, answers and pool |
| `Timers` | the rows of timers, the copies of them on the devices, and the reports that bring these in step |
| `TimersProofs` | its types, and when equal numbers mean equal contents, for any timers, devices and users |
| `MC...` | model values, symmetry and definitions that the `.cfg` files give to the constants |

Every operator named `...Late`, `...Early`, `...Silent` and the like under a comment `Mutant:` is a
plausible bug in the definition that follows it. No action uses it; `PROJECT.json` says which
property finds the bug when it takes the definition's place.

### TxManager

One action per atomic step of a handler. A handler that loads the group from redis and saves it
later is two actions with the private copy (`atgCopy`, `rgCopy`, `ckgCopy`, `ctgCopy`, `compCopy`)
in between.

| action | code |
|---|---|
| `CreateGroup` | `createTransactionGroup` (a record of an earlier run makes it a compensation) |
| `AtgRead`, `AtgSave` | `addTransactionGroup` |
| `RgRead`, `RgSave` | `rollbackTransactionGroup` |
| `CkgRead`, `CkgSave` (`CkgNotOver`, `CkgRollback`, `CkgClosed`) | `cleanNotifyTransaction` |
| `CtgRead`, `CtgSave` | `closeTransactionGroup` up to the dispatch of `confirm`: `setChannel`, then rollback or commit notifications |
| `CtgDelete` | the end of `transaction(0)` |
| `TaskTimeout`, `ReplyArrives`, `TaskRead` | the timer of `schedule`, `BaseSignalTaskService`, the thread after `awaitTask` |
| `CtgJoin`, `CtgDeal` | the end of `transaction(1)` with its save, `dealTxGroup` and the answer |
| `CompRead`, `CompSave` | `saveCompensateMsg` up to the record |
| `Expire` | the TTL of `saveTransaction` |
| `CkgAnswered`, `Deliver`, and the guards `MayJoin`, `MayClose` | the LCN clients, outside `src/` |

A group is the record of what the decisions read: the kids of its list, those with `notify = 1`, and
the flags `rollback`, `hasOver`, `state`. `isGroup` and "connected to another TxManager" are the
constant sets `Grouped` and `Remote`. `isCompensate` is `record # NoRecord`, and `isCommit` is
`Direction`.

What is assumed of the clients: the starter calls its members one at a time (with parallel calls two
atg requests can lose each other's member); it closes with state 1 only when all its calls returned
from members that joined, whereas after a failure calls may still arrive while the group closes and
later; a member applies the first decision that reaches it and answers a notification with 1 exactly
when it applies it; a re-run for compensation makes the recorded calls; a member asks (ckg) once; the
client of a re-run saves no second record. `Expire` is possible while the group is open or after
its close, not during it: the close saves when it starts and its tasks end within 5 s
(`application.properties:54`), far below the 30 s of the TTL (`:61`).

### Connections

`Register`, `AddClient`, `ReadSize`, `WriteNow`, `WriteGate` are `channelRegistered`; `Unregister`, the
same three counting steps, `OutLine` and `RemoveModelInfo` are `channelUnregistered`, also of a
connection that was refused. `LoopOf` says which connections share an event loop: a loop runs one
handler to its end. `ChannelRead`, `ScanInfos`, `AddInfo`, `OnLine` are the umi request on a pool
thread, which may run after the connection is gone. `GetServer` is the advice a module gets before it
connects, when one TxManager is known. A connection lives once and has an address of its own; a write
to a plain field is visible at once (the code has no memory barrier around these fields, so this is
the kindest reading).

Two variables are history, written by the actions and read by properties only: `overlap`, a handler that
counts began while another was counting, and `met`, the infos of its module that the scan of a umi found.

### Compensation

`Callback`, `Execute`, `Timeout`, `Decide`, `Wake`, `Delete`, `Notify` are `saveCompensateMsg`'s thread
and `autoCompensate`; `Press`, `Execute`, `Timeout`, `Decide`, `Delete` are an administrator's
`executeCompensate`, and `Drop` is `delCompensate`. `Open`, `Close`, `Reply` are the client's re-run of the
method, which the module `TxManager` treats in detail. `IsCommit`, by way of `Iterator`, is
`reloadCompensate`, with the one iterator all calls share. `work[j]` counts how often the work of
recorded call j has been committed.

### MqttPush

AG stands for `uusmart_agreement/src/main/java/com/sykj/uusmart/mqtt`. One action per step of a
thread that another thread can see; steps that commute with those of all other threads are joined.

| action | code |
|---|---|
| `Push`, `Schedule`, `Return` | `mqIotPushMsgAndGetResult` (`AG/MqIotUtils.java:125`): the entry and the publish, the time-out, the return of `await` |
| `DeleteRow`, and the loop in `Return` | `handleCacheMessage` (`:233`), one message after the other |
| `FireFirst`, `SendAgain`, `ScheduleAgain`, `EndAgain` | the first time-out (`AG/HandeMqIotMsgTimeOut.java:31-34`), which sends again and waits on its pool thread |
| `FireLast`, `GiveUp`, `Cache` | the last time-out (`:35-51`): status and latch, then the row of `t_cache_msg` |
| `Arrive`, `SetErrorCode`, `Look` | `handleCallBack` (`AG/MqIotUtils.java:156-169`), which looks the entry up three times |
| `RemoveEntry`, `Settle` | `onSuccess`, `onFail` (`AG/push/impl/MqIotMsgCallBackImpl.java:32-51`) |
| `HandleLogin`, `ConnectionLost` | `handelDeviceLogin`, `connectionLost` of `uusmart_device` |

A message is `<<run, command>>`: the first push (`Direct`) or the delivery by a login. All messages of
a command share its token, and so its entry of `PUSH_MSG_MAP`; that is where the runs meet. The device may answer
any copy of the command, at any time and more than once, or never; a lost copy is one it never answers. `timer` is the
queue of the pool; a time-out that a thread has taken is no longer in it, and `timer.remove` of it does
nothing. Two seconds are any time at all: the model lets time-outs fire at once or late. `turned` is
what `handleAdditionalData` does to a message whose `respBody` is set when it is sent again. Where the code
ends a thread with a `NullPointerException`, so does the model.

No live code sets `isCache` at this commit (`WisdomServiceImpl.java:376` is commented out). The first push of
the model has it set, as the library is written to be used, and rows of an earlier life are in the initial
states.

### Timers

| action | code (`uusmart_timing/.../DeviceTimingInfoServiceImpl.java`) |
|---|---|
| `UserAddDeviceTiming`, `UserUpdateDeviceTiming` | `:110`, `:138`, with `pushAddTimingCmd` (`:129`), which tells number 0 |
| `UserOnOffDeviceTiming` | `:84` |
| `UserDeleteDeviceTiming`, `UserDeleteDeviceTimingAll` | `:207`, `:222` |
| `Commit` | the end of the transaction of the request; an `UPDATE` or `DELETE` of a row that has gone meanwhile cannot commit (`FlushFails`) |
| `RollBack` | the other end: any request may fail at its flush, at the commit or with the distributed transaction of `:222`, after it has told the device |
| `SynTiming` (`Missing`, `Outdated`, `Obsolete`) | `synTiming` (`:159`) |
| `DeviceSyn`, `Deliver`, `Fault` | devices and broker, outside `src/` |

A request tells the device first and commits afterwards, so that reports in between see the old row. The days, the mode
and the two ends of a timer are one number, `content`, new with every edit; `held` is what a device keeps. A
device stores what it is told and reports ids and numbers, as `MqIotSysObjectDTO` carries them. Status 2 is what
`UserOnOffObjectDTO` allows beside 1 although the code switches off with 9: it is written, and the device is told nothing until it reports.

`save` writes the whole row the request read at its start, so that requests which overlap overwrite each other. `highest` and
`doubtful` are history. A timer is doubtful when the number of its row may stand for two contents, and there are two ways to that:

* Two edits overlap: both read number n and commit n + 1, or one commits a number that later edits have passed.
* An edit of a timer at number 0 is rolled back: `pushAddTimingCmd` has told the device the new content under number 0, the row keeps
  number 0 and the old one.

`synTiming` sends a timer again only when the row's number is greater, so neither is corrected by reports. The next edit
that commits an unused number heals both. Nothing in the repository promises more, so these are hazards and no findings.

## What is checked

| run | instance | properties | result |
|---|---|---|---|
| `tx_safety` | two local members, symmetric | `TypeOK`, `CommitAnswerSound`, `ForcedAnswerSound`, `NoCommitBeforeClose`, `NoMemberLost`, `RecordSound`, refinement `PromiseKept` | hold |
| `tx_live` | one remote and one grouped member, `FairSpec` | `CloseAnswers`, `MemberDecides` | hold |
| `tx_failed` | two members | `FailedGroupRollsBack` | violated, finding |
| `tx_forced` | two members | `ForcedRollbackHolds` | violated, finding |
| `conn_loops` | 3 connections of two modules, 3 loops, limit 2 | `TypeOK`, `GateAgrees`, `ListedUntilOldLeaves` | hold |
| `conn_limit` | 4 connections on 4 loops, limit 2 | `LimitKept` | violated, finding |
| `conn_again` | one module connecting twice | `OnlineKnown` | violated, finding |
| `comp` | records of at most 2 calls, the automatic thread and one administrator, `FairSpec` | `TypeOK`, `RecordKept`, `NothingLost`, `FirstRunExact`, `ReportSound`, `AutoEnds` | hold |
| `comp_order` | two different calls in any order | `NothingLost` | violated, finding |
| `push` | one command, one login, two answers of three codes, three timer threads, `FairSpec` | `TypeOK`, `WaiterHeld`, `CommandKept`, `DroppedForCause`, `Released` | hold |
| `push_login` | one command, one login, one answer | `LoginHandled` | violated, finding |
| `timers` | one timer, two devices, two users with three requests, one fault, `FairSpec` | `TypeOK`, `SameNumberSameContent`, `Converges` | hold |

What the properties say is in the comments beside them. The ones that carry the design:

* `CommitAnswerSound`: when the starter is told 1, and so commits, every member decided one by one has
  applied the decision meant for it. It needs the task's answer, the member's own ckg, the final stale save
  and expiry to agree in every order.
* `NoMemberLost`: the read-copy-write races never drop a member from an open group that can
  still commit. What saves the code is that the only racing writers of an open group mark it for
  rollback.
* `RecordSound`: a compensation record names as notified only calls that commit.
* `PromiseKept`: each step of the coordinator is a step of `TxPromise` or changes nothing it sees.
* `GateAgrees`: the counters have no lock and several event loops write them, and they do go wrong: two handlers that
  overlap can leave a stale count, and with it the gate shut or `getServer` sending modules elsewhere. The property confines it: only handlers that overlapped do
  harm, and the next one that counts alone puts it right, also the unregistering of a connection that was refused.
* `ListedUntilOldLeaves`: `conn_again` shows a connected module that compensation cannot find. The property says that there is one way to
  this only, an older connection of the same module that was listed when the new one uploaded.
* `NothingLost`, `FirstRunExact`: compensation restores what the record says is missing. Exactly
  once is kept by a first attempt that succeeds; after a failed attempt the code may commit again
  what the attempt has committed (the record is not updated).
* `WaiterHeld`, `Released`: a thread on a latch is never forgotten, although an answer cancels only the
  time-out it knows of and may take the entry of another message away; and every such thread returns.
* `CommandKept`, `DroppedForCause`: a command nobody answered is in `t_cache_msg` when its push is over, and a
  login deletes it only for an answer that settles it, although answers and messages share one
  token and meet each other's entries.
* `SameNumberSameContent`: `synTiming` compares numbers only, and this is when that is enough: equal numbers
  mean equal contents, in spite of the direct pushes that tell number 0, of requests that overlap or are rolled back, of old commands that arrive late and of
  timers that move between devices, unless the timer is doubtful (see above).
* `Converges`: whatever was lost, repeated or rolled back after the device was told, the reports bring
  the devices in step with the rows for good: the timers that have to go, doubtful or not, and the active ones that are not doubtful.

### Bounds

Two members are enough for the races of `TxManager`: a request of one member against one of the other,
against the close and against rg. Every request of a member occurs once. The initial record
ranges over all records an earlier run can leave. `Connections`: three connections with a limit of two
reach refusal, the full gate and its reopening, and three handlers that overlap; two of them are one module's, so
that it connects again, and the third another's. The fourth in `conn_limit` makes the overshoot lasting. Each has a
loop of its own, as netty gives by default to connections fewer than its loops; sharing one only takes interleavings away.
`Compensation`: `MaxTries = 3` is the code's; `MaxWork = 2` stops the count of repeated commits, as
no property tells 2 from 3; two calls suffice to have one match and the other not. `comp` has one key,
because with the calls in recorded order every key matches the next recorded call; `comp_order` has two, and
calls of one key keep their order there, as no record could tell them apart.

`MqttPush`: two answers are what it takes for one to settle a message while the other holds its entry, and for an answer
to meet the entry of the other run; the codes are success, an error and a final error. `Pool = 3` leaves a thread
for a last time-out when both messages wait in their first; with as many silent messages as threads (50 in
the code) `Released` does not hold, see the hazards. The row that another login has
deleted already (`DeleteRow`) takes two logins; the instance of two logins and one answer passes
too, and is not among the runs because of its size.

`Timers`: rows of different timers meet in no operation but `deleteAll`, which treats them one by one, so one
timer shows what there is; it needs two devices to move. Two users and three requests make an edit that overlaps with
another or with a switch or deletion, a rolled-back edit with one that heals it, a move and a move back. The sessions are alike, so the first free one makes
the next request (`UserStep`), which only leaves out renamed copies of the same behaviours. `InSync` does not speak of the old device of a
moved timer, which `synTiming` never tells to delete it.

The cfgs say `CHECK_DEADLOCK FALSE`: a group, a connection or a record whose life is over takes no more
steps.

### Fairness

`TxManager!Fairness`: the pool threads (`CtgSave`, `CtgDelete`, `CtgJoin`, `CtgDeal`, `TaskRead`, `CkgSave`) and
the timers (`TaskTimeout`) run, and a waiting member asks and reads its answer (`CkgRead`, `CkgAnswered`: the
client's timer and its HTTP fallback). There is no fairness for `Deliver` and `ReplyArrives`: messages
may be lost. `Connections` has no liveness property and no fairness. `Compensation!Fairness`: the thread of
`autoCompensate` and its timer run; re-runs and their answers may never happen.

`MqttPush!Fairness`: while a thread that has started can go on, one of them does. Logins, answers and
first pushes are free. `Timers!Fairness`: transactions end, a device reports again and again (devices send
`syn` by themselves), reports are handled, and of the messages about a timer some arrives at
the device again and again: messages are sent with QoS 1, and faults are `MaxFaults`.

## What is proved

Every invariant the passing runs check, the one action property and the refinement are theorems, of the form
`Spec => []P`, for every value of the constants. One hypothesis is named: two theorems of `CompensationProofs` are for re-runs in the recorded order
(`SameOrder`), and the run `comp_order` shows what happens without it. Otherwise the proofs use the assumptions of the modules, which the
runs evaluate.

### TxManager

`TxManagerProofs` proves, with TLAPS and for every finite or infinite set of `Members` with any
`Grouped` and `Remote`, the theorems `TypeCorrect`, `CommitAnswerCorrect`, `ForcedAnswerCorrect`, `NoEarlyCommit`
and `MembersKept`, each of the form `Spec => []P`. The assumptions are the two of the module:
`Grouped` and `Remote` are kinds of members, and the null values are no groups or records.

All follow from `Invariance`, `Spec => []IInv`. None of the properties is inductive by itself: they
speak of the store, and a step writes to the store a copy read many steps ago. `IInv` therefore says
of every copy in flight what it says of the store, in parts that are proved one after the other:

* `InvCopies`: a handler past its read holds a group; one call joins at a time.
* `InvQuiet`: until the close has saved, no copy has `hasOver` or a notified member (so no ckg can
  answer 1), and nothing has been sent.
* `InvList`: while the group is open, the saved group and an atg copy that are not marked for rollback
  list everyone who joined. A stale ckg or rg copy may lack a member, but it is saved with
  `rollback = 1`.
* `InvClose`: what the close knows of the object it works on, whatever happens to the store.
* `InvTask`: a task answered 1 belongs to a member that has applied what it was sent.
* `InvCommitted`: the answer 1 binds, also after it was given.
* `InvForced`: after a forced close no copy of the group, in the store or in a ckg, has `hasOver = 1` and
  `rollback = 0` together.

Each part has a lemma with one step per action of `Next`; `GroupFields`, `AddInfoFields` and the others
say once what a setter changes and keeps.

`TxRecordProofs` proves `RecordCorrect`, `Spec => []RecordSound`. The record is made of `notified` in a copy of
the group, so every copy in flight has to be sound (`InvNotified`: it calls notified only members that
were told to commit), being told has to last (`ToldStays`), and both need that only a forced
close sends a rollback while the starter was fine (`InvForcedOnly`): that is what keeps a member
from rolling back between the ckg that marks it notified and the answer of that ckg.

`TxRefinementProofs` proves `Refinement`, `Spec => PromiseKept`, by simulation: under `IInv` and
`InvSilent` (grouped members neither ask nor are notified) every action maps to one action of `TxPromise` or to a stutter
(`PromiseStep`). `CtgSave` maps to `Close`, `AtgSave` to `Join`, `Deliver` and `CkgAnswered` to `Commit` or
`Rollback` (`ApplyStep`), and the three ends of a close to `Answer`.

### Connections

`ConnectionsProofs`, for any connections, addresses, event loops and limit, with no hypothesis.

* `GateHolds`: the gate is tested in one step, the list changed in another, and counter and gate written in two more, while handlers of other
  loops do the same. `CountInv` says that without an overlap one handler counts (`InvAlone`), and what it carries from step to
  step: the size it read is still the size of `clients` (`pc = "now"`), then the counter is (`"gate"`); whatever the counter said before
  (`InvPassed`).
* `ClientsExact`: `clients` is the set of connections let in that have not begun to leave. The races
  spoil the counter and the gate, never the list.
* `ListedHolds`: `InvListed`, from the scan of its upload on, a connection is listed, or one its scan met is, or has gone. Only
  `RemoveModelInfo` takes an info away, and the connection that does is gone with that step.

### Compensation

`CompensationProofs`, for any keys, number of calls and finite set of administrators.

* `RecordsKept`, `ReportsSound` need no condition. The properties speak of answers, and answers can be
  overwritten: by a time-out that fires beside an answer, and by the next attempt. `InvRecord` says that an executor in
  `delete` has the answer `1`, that whoever tries again has not, and that behind each answer `1` is a re-run that is
  over; `InvTries`, that no command is sent twice, so that a late answer cannot be taken for that of another
  attempt.
* `NothingIsLost`, `FirstRunIsExact` assume `SameOrder`, the re-run makes its calls in the recorded order;
  `comp_order` shows that the code loses a call otherwise. The proof has two halves. What `reloadCompensate` decides: `IteratorIs` and
  `IsCommitSame` show that in this order the shared iterator gives each call its own
  entry, for lists of any length. `Iterator` is a recursive function; instead of an induction, two functions that obey its equation are compared at the
  least index at which they differ (`LeastNatural`, from the well-founded order of the finite sets). What the re-runs do with it:
  `InvWork`, work once done stays; `InvFull`, from the first re-run that closed well on nothing is missing, whoever was told so and
  whoever has deleted the record; `InvFirst`, until a second re-run opens the work is as the record says or exactly done. The last needs that a record neither deleted
  nor answered is still there (`KeptOrAnswered`), or the first re-run would be a normal one and do everything again.

### MqttPush

`MqttPushProofs`, for any commands, logins, answers, codes and pool. All follow from `IInv`:

* `WaitersHeld` is `InvTimer` at work: a message has its two time-outs one after the other and each once, so a waiter
  has one queued or a thread on the way to its latch. An answer that takes the entry of another message
  away does not disturb that, since it cancels only the time-out of the message it holds.
* `CommandsKept` is `InvKept`: a first push without an answer is released by its last time-out only, and the row is written before the
  threads are through. A login may delete the row only on evidence of an answer.
* `RowsDroppedForCause`, an action property, is `InvEvidence`: whatever a thread, a message or an entry knows of a command
  comes from an answer to that command, though two messages share the entry.

### Timers

`TimersProofs`, for any timers, devices, users and bounds, with no hypothesis: `SameNumberIsSameContent` is
`Spec => []SameNumberSameContent`. Requests overlap and roll back as they like; messages are lost, repeated and reordered.

The property speaks of devices, but devices keep what is on its way to them, and a row changes long after the messages about it were
sent. So the invariant says of each copy, on a device or in a message, that it fits (`Fits`): its number is in the history, and if it is that of
the row and the timer is not doubtful, its content is the row's. The direct pushes of an edit tell number 0; a
row that still has number 0 is exempt while that edit lasts. The proof turns on `CommitNext`: the number a request commits is above the
number of every copy there is, or the timer becomes doubtful. The first row of a timer has number 0, as have its copies: `InvRows` says
that while it is to be written nothing else about the timer is.

### Only model-checked

Liveness, which is outside the prover: `CloseAnswers`, `MemberDecides` of `TxManager`, `AutoEnds` of
`Compensation`, `Released` of `MqttPush`, `Converges` of `Timers`. What `IsCommit` decides when calls come in
another order than recorded is checked for the lists of the runs only, and so are all the properties that are violated.

## Findings

`PROJECT.json` quotes the lines. In short: a member that asks while a failed group is being closed is
told to commit (`tx_failed`); a forced rollback is lost between a read and a write (`tx_forced`); the
connection limit is overshot by connections that register together (`conn_limit`); a module
that reconnects while an info of its old connection is listed, or is listed late, stays unknown (`conn_again`); compensation of calls in another order loses one
(`comp_order`); after a lost connection the device service is connected to an object that handles nothing
(`push_login`).

## Not modelled

Parts with no state of their own, framework configuration, generated or third-party code, as listed in
`PROJECT.json`.

* Of the tx-manager: the admission advice among several TxManagers, the load-balance hash, the exhaustion of
  the handler pool by many groups at once, a client's repetition of ckg over HTTP, two compensation records of one group, and
  crashes of the manager itself (its tasks and connections are in memory and go with it; groups
  survive in redis at most 30 s).
* Of the MQTT library: `mqIotPushThingMsg`, which nothing calls; the wording and the building of messages; the
  recursion of `MQTTUtils.init`, whose client name loses two characters with every failed attempt (a hazard).
* Of the device service: inform and disconnect. Each overwrites columns of the device's row; login and
  disconnect carry nothing that orders them, so that the row ends in the state of whichever was handled last.
* Wisdoms: `synWisdom` repeats the scheme of `synTiming` with another table; the walk for cycles and the deletion are
  sequential code over database rows.
* App service: checks of rows followed by writes of rows, without locks or unique keys. The hazards name
  them; a model of each would show that the check may no longer hold at the write, and nothing else.
* The administration web: a third-party template. Its JavaScript, by far the most of the repository's, is plugins in several
  builds (`static/js/plugins`: webuploader, wangEditor, chosen, ztree) and page code that fills tables and forms. It
  keeps no state the services depend on and takes part in no protocol of theirs.

## Plan

1. Done: `TxManager` with `TxPromise`, `Connections`, `Compensation`, `MqttPush`, `Timers`; proofs of every invariant and of the
   action property the runs check, and of the refinement.
2. Proofs that no run states and that would say more: in `MqttPush`, that no thread of the timer pool is counted
   twice; in `Timers`, that what a report sends again and removes is exactly the difference between device and rows; in `Compensation`,
   what a re-run in any order does when all its keys are different.
