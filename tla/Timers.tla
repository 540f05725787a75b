------------------------------- MODULE Timers -------------------------------
(***************************************************************************)
(* The timers of uusmart_timing: rows of t_device_timing_info, what their  *)
(* devices were told of them, and synTiming, which brings a device that    *)
(* reports its timers to the state of the rows.                            *)
(*                                                                         *)
(* A request of a user runs in a transaction: it reads the row, tells the  *)
(* device, and commits or rolls back afterwards; other requests and        *)
(* reports see the old row in between.  A report is handled in one step, as its transaction    *)
(* reads one snapshot and its pushes may arrive at any later time.  The    *)
(* content of a timer (days, mode, start and end) is a number of its own   *)
(* for every edit.                                                         *)
(***************************************************************************)
EXTENDS Naturals, FiniteSets

CONSTANTS
  Ids,          \* ids of timers, given by the database and never used again
  Devices,
  Users,        \* numbers of app sessions, each with one request at a time
  MaxRequests,  \* bound on the requests of the users
  MaxFaults,    \* bound on messages lost or delivered twice
  None          \* no row, no copy, no report, no request

ASSUME BoundsAssumption == MaxRequests \in Nat /\ MaxFaults \in Nat /\ Users \subseteq Nat

VARIABLES
  row,       \* t_device_timing_info: per id, the committed row
  unused,    \* ids not given out yet
  request,   \* per user: what its request will commit
  requests,  \* requests made so far
  held,      \* per device and id: the copy of the timer on the device
  report,    \* per device: the syn message on its way to the service
  wire,      \* messages on their way to the devices, in no order
  faults,    \* faults of the wire so far
  highest,   \* history: per id, the highest number committed
  doubtful   \* history: ids whose number may stand for two contents

userVars   == <<unused, request, requests>>
historyVars == <<highest, doubtful>>
deviceVars == <<held, report>>
wireVars   == <<wire, faults>>
vars == <<row, userVars, deviceVars, wireVars, historyVars>>

On    == 1   \* dtStatus
Off   == 9
Other == 2   \* allowed by UserOnOffObjectDTO, for which nothing is sent
Statuses == {On, Off, Other}

Numbers  == 0 .. MaxRequests
Contents == 0 .. MaxRequests
Rows    == [deviceId : Devices, dtStatus : Statuses, updateNum : Numbers, content : Contents]
Copies  == [num : Numbers, content : Contents]
Reports == UNION {[S -> Numbers] : S \in SUBSET Ids}

Messages ==
  [type : {"add"}, to : Devices, id : Ids, num : Numbers, content : Contents]
    \cup [type : {"delete"}, to : Devices, id : Ids]

Requests ==
  [type : {"save"}, id : Ids, row : Rows]
    \cup [type : {"onOff"}, id : Ids, dtStatus : Statuses]
    \cup [type : {"delete"}, id : Ids]
    \cup [type : {"deleteAll"}, deviceId : Devices]

ASSUME NoneAssumption ==
  None \notin Rows /\ None \notin Copies /\ None \notin Reports /\ None \notin Requests

TypeOK ==
  /\ row \in [Ids -> Rows \cup {None}]
  /\ unused \subseteq Ids
  /\ request \in [Users -> Requests \cup {None}]
  /\ requests \in 0 .. MaxRequests
  /\ held \in [Devices -> [Ids -> Copies \cup {None}]]
  /\ report \in [Devices -> Reports \cup {None}]
  /\ wire \subseteq Messages
  /\ faults \in 0 .. MaxFaults
  /\ highest \in [Ids -> Numbers]
  /\ doubtful \subseteq Ids

Init ==
  /\ row = [t \in Ids |-> None]
  /\ unused = Ids
  /\ request = [u \in Users |-> None]
  /\ requests = 0
  /\ held = [d \in Devices |-> [t \in Ids |-> None]]
  /\ report = [d \in Devices |-> None]
  /\ wire = {}
  /\ faults = 0
  /\ highest = [t \in Ids |-> 0]
  /\ doubtful = {}

-----------------------------------------------------------------------------

AddCmd(d, t, num, content) ==
  [type |-> "add", to |-> d, id |-> t, num |-> num, content |-> content]
DeleteCmd(d, t) == [type |-> "delete", to |-> d, id |-> t]

\* pushAddTimingCmd: the device is told number 0, whatever the row says.
PushAddTimingCmd(d, t, content) == AddCmd(d, t, 0, content)

\* User u starts a request that tells the devices cmds and will commit r.
Ask(u, r, cmds) ==
  /\ request[u] = None /\ requests < MaxRequests
  /\ request' = [request EXCEPT ![u] = r]
  /\ requests' = requests + 1
  /\ wire' = wire \cup cmds
  /\ UNCHANGED <<row, deviceVars, faults, historyVars>>

\* A content no timer has had: each request has a number of its own.
NewContent == requests

UserAddDeviceTiming(u, t, d) ==
  /\ t \in unused
  /\ unused' = unused \ {t}
  /\ LET r == [deviceId |-> d, dtStatus |-> On, updateNum |-> 0, content |-> NewContent]
     IN Ask(u, [type |-> "save", id |-> t, row |-> r],
            {PushAddTimingCmd(d, t, r.content)})

\* Mutant: the device is told the number the row is to have.
UserUpdateTold(u, t, d) ==
  /\ row[t] # None
  /\ LET r == [row[t] EXCEPT !.deviceId = d, !.updateNum = @ + 1, !.content = NewContent]
     IN Ask(u, [type |-> "save", id |-> t, row |-> r],
            {AddCmd(d, t, r.updateNum, r.content)})
  /\ UNCHANGED unused

\* Mutant: the number is raised twice.
UserUpdateTwice(u, t, d) ==
  /\ row[t] # None
  /\ LET r == [row[t] EXCEPT !.deviceId = d, !.updateNum = @ + 2, !.content = NewContent]
     IN Ask(u, [type |-> "save", id |-> t, row |-> r],
            {PushAddTimingCmd(d, t, r.content)})
  /\ UNCHANGED unused

\* The device may be another one; the old device is told nothing.
UserUpdateDeviceTiming(u, t, d) ==
  /\ row[t] # None
  /\ LET r == [row[t] EXCEPT !.deviceId = d, !.updateNum = @ + 1, !.content = NewContent]
     IN Ask(u, [type |-> "save", id |-> t, row |-> r],
            {PushAddTimingCmd(d, t, r.content)})
  /\ UNCHANGED unused

\* What the device is told when its timer gets status s.
OnOffCmds(t, s) ==
  CASE s = On    -> {PushAddTimingCmd(row[t].deviceId, t, row[t].content)}
    [] s = Off   -> {DeleteCmd(row[t].deviceId, t)}
    [] s = Other -> {}

UserOnOffDeviceTiming(u, t, s) ==
  /\ row[t] # None
  /\ Ask(u, [type |-> "onOff", id |-> t, dtStatus |-> s], OnOffCmds(t, s))
  /\ UNCHANGED unused

UserDeleteDeviceTiming(u, t) ==
  /\ row[t] # None
  /\ Ask(u, [type |-> "delete", id |-> t], {DeleteCmd(row[t].deviceId, t)})
  /\ UNCHANGED unused

TimersOf(d) == {t \in Ids : row[t] # None /\ row[t].deviceId = d}

UserDeleteDeviceTimingAll(u, d) ==
  /\ Ask(u, [type |-> "deleteAll", deviceId |-> d], {DeleteCmd(d, t) : t \in TimersOf(d)})
  /\ UNCHANGED unused

\* What the row of t is when r is committed.
Committed(r, t) ==
  CASE r.type = "save" /\ r.id = t -> r.row
    [] r.type = "onOff" /\ r.id = t /\ row[t] # None -> [row[t] EXCEPT !.dtStatus = r.dtStatus]
    [] r.type = "delete" /\ r.id = t -> None
    [] r.type = "deleteAll" /\ t \in TimersOf(r.deviceId) -> None
    [] OTHER -> row[t]

\* User u has asked for a row of t to be written.
Saves(u, t) == request[u] # None /\ request[u].type = "save" /\ request[u].id = t

\* The UPDATE or DELETE that is flushed at the commit finds no row any more.
\* Only an INSERT has number 0.
FlushFails(r) ==
  /\ r.type = "delete" \/ (r.type = "save" /\ r.row.updateNum > 0)
  /\ row[r.id] = None

\* History: the row u writes for t has a number no row of t has had, or one
\* some row has had.
Fresh(u, t)  == Saves(u, t) /\ (row[t] = None \/ request[u].row.updateNum > highest[t])
Reused(u, t) == Saves(u, t) /\ ~Fresh(u, t)

Commit(u) ==
  /\ request[u] # None /\ ~FlushFails(request[u])
  /\ row' = [t \in Ids |-> Committed(request[u], t)]
  /\ request' = [request EXCEPT ![u] = None]
  /\ highest' = [t \in Ids |-> IF Fresh(u, t) THEN request[u].row.updateNum ELSE highest[t]]
  /\ doubtful' = (doubtful \ {t \in Ids : Fresh(u, t)}) \cup {t \in Ids : Reused(u, t)}
  /\ UNCHANGED <<unused, requests, deviceVars, wireVars>>

\* The transaction of any request may fail after the device has been told: at
\* the flush, at the commit, or with the distributed one of deleteAll.  History:
\* an edit told the device its content under the number of a row that has it.
RollBack(u) ==
  /\ request[u] # None
  /\ request' = [request EXCEPT ![u] = None]
  /\ doubtful' = doubtful \cup
       {t \in Ids : Saves(u, t) /\ row[t] # None /\ row[t].updateNum = 0}
  /\ UNCHANGED <<row, unused, requests, highest, deviceVars, wireVars>>

-----------------------------------------------------------------------------
(* synTiming.                                                              *)

Active(t) == row[t] # None /\ row[t].dtStatus = On

\* The row of t as it goes to its device, with its own number.
RowCmd(t) == AddCmd(row[t].deviceId, t, row[t].updateNum, row[t].content)

\* Active timers of d its report lacks.
Missing(d) == {t \in Ids : Active(t) /\ row[t].deviceId = d /\ t \notin DOMAIN report[d]}

\* Reported timers with a newer row, wherever that row is now.
Outdated(d) == {t \in DOMAIN report[d] : Active(t) /\ row[t].updateNum > report[d][t]}

\* Mutant: only timers without a row are deleted, not those switched off.
ObsoleteRows(d) == {t \in DOMAIN report[d] : row[t] = None}

\* Reported timers that are gone or not switched on.
Obsolete(d) == {t \in DOMAIN report[d] : ~Active(t)}

SynTiming(d) ==
  /\ report[d] # None
  /\ wire' = wire \cup {RowCmd(t) : t \in Missing(d) \cup Outdated(d)}
                  \cup {DeleteCmd(d, t) : t \in Obsolete(d)}
  /\ report' = [report EXCEPT ![d] = None]
  /\ UNCHANGED <<row, userVars, held, faults, historyVars>>

-----------------------------------------------------------------------------
(* The devices and the broker.                                             *)

\* The device reports, with the role "task", the timers it holds.
DeviceSyn(d) ==
  /\ report[d] = None
  /\ report' = [report EXCEPT ![d] =
       [t \in {x \in Ids : held[d][x] # None} |-> held[d][t].num]]
  /\ UNCHANGED <<row, userVars, held, wireVars, historyVars>>

\* Devices store what they are told.
Handle(msg) ==
  held' = [held EXCEPT ![msg.to][msg.id] =
    IF msg.type = "add" THEN [num |-> msg.num, content |-> msg.content] ELSE None]

\* A message about timer t reaches device d.
Deliver(d, t) ==
  \E msg \in wire :
    /\ msg.to = d /\ msg.id = t
    /\ Handle(msg)
    /\ wire' = wire \ {msg}
    /\ UNCHANGED <<row, userVars, report, faults, historyVars>>

\* A message is lost, or delivered and delivered again later.
Fault ==
  /\ faults < MaxFaults
  /\ faults' = faults + 1
  /\ \E msg \in wire :
       \/ wire' = wire \ {msg} /\ UNCHANGED held
       \/ Handle(msg) /\ UNCHANGED wire
  /\ UNCHANGED <<row, userVars, report, historyVars>>

-----------------------------------------------------------------------------

\* Sessions are alike, and the first free one makes the next request.
UserStep(u) ==
  /\ \A v \in Users : v < u => request[v] # None
  /\ \/ \E t \in Ids, d \in Devices :
          UserAddDeviceTiming(u, t, d) \/ UserUpdateDeviceTiming(u, t, d)
     \/ \E t \in Ids, s \in Statuses : UserOnOffDeviceTiming(u, t, s)
     \/ \E t \in Ids : UserDeleteDeviceTiming(u, t)
     \/ \E d \in Devices : UserDeleteDeviceTimingAll(u, d)

Next ==
  \/ \E u \in Users : UserStep(u) \/ Commit(u) \/ RollBack(u)
  \/ \E d \in Devices : SynTiming(d) \/ DeviceSyn(d) \/ \E t \in Ids : Deliver(d, t)
  \/ Fault

Spec == Init /\ [][Next]_vars

\* Transactions end, devices report again and again, reports are handled and
\* messages about a timer keep arriving at its device.
Fairness ==
  /\ WF_vars(\E u \in Users : Commit(u) \/ RollBack(u))
  /\ \A d \in Devices : WF_vars(DeviceSyn(d) \/ SynTiming(d))
  /\ \A d \in Devices, t \in Ids : WF_vars(Deliver(d, t))

FairSpec == Spec /\ Fairness

-----------------------------------------------------------------------------
(* Properties.                                                             *)

\* A device that holds a timer under the number of its row holds the content of
\* the row: synTiming, which compares numbers only, leaves no device with an
\* outdated timer.  Direct pushes with number 0, requests rolled back behind a
\* push, stale rows written by overlapping requests, late commands and timers
\* that move between devices could all break it.  Two things do, and make the
\* timer doubtful until an edit commits a number it never had: an edit that
\* commits a number used before, and one at number 0 that is rolled back.  While
\* an edit is under way its device may have been told of it under number 0.
SameNumberSameContent ==
  \A d \in Devices, t \in Ids \ doubtful :
    /\ row[t] # None /\ held[d][t] # None
    /\ held[d][t].num = row[t].updateNum
    /\ held[d][t].num > 0 \/ \A u \in Users : ~Saves(u, t)
    => held[d][t].content = row[t].content

\* Each device holds its active timers as the rows say, but for the doubtful
\* ones, and no device holds a timer that is deleted or not switched on.  (One
\* that has moved to another device may still be held by the old one.)
InSync ==
  \A d \in Devices, t \in Ids :
    IF Active(t)
    THEN row[t].deviceId = d /\ t \notin doubtful =>
           held[d][t] = [num |-> row[t].updateNum, content |-> row[t].content]
    ELSE held[d][t] = None

\* When the users are done, the reports bring the devices in step with the
\* rows for good, whatever was lost, repeated, late or rolled back after the
\* device had been told.  A timer left doubtful (see SameNumberSameContent) is
\* not brought in step while it is on; it is still deleted when it has to go.
Converges == <>[]InSync
=============================================================================
