---------------------------- MODULE TimersProofs ----------------------------
(***************************************************************************)
(* Proofs about Timers, for any timers, devices and users and any bounds:  *)
(* the types, and that a device which holds a timer under the number of    *)
(* its row has the content of the row, unless the timer is doubtful.       *)
(***************************************************************************)
EXTENDS Timers, TLAPS

-----------------------------------------------------------------------------
(* The conjuncts of the inductive invariant.                               *)

\* Every edit counts as a request: the numbers stay below the count of them.
InvTypes ==
  /\ TypeOK
  /\ \A t \in Ids : row[t] # None => row[t].updateNum < requests
  /\ \A u \in Users, t \in Ids : Saves(u, t) => request[u].row.updateNum < requests

\* User u has asked for the first row of t.
Adds(u, t) == Saves(u, t) /\ request[u].row.updateNum = 0

\* A timer has a row only when its id is given out, with a number that is in the
\* history; while its first row is to be written nothing else is.
InvRows ==
  \A t \in Ids :
    /\ row[t] # None => t \notin unused /\ row[t].updateNum <= highest[t]
    /\ t \in unused => highest[t] = 0
    /\ \A u \in Users : Saves(u, t) => t \notin unused
    /\ \A u \in Users : Adds(u, t) =>
         /\ row[t] = None /\ highest[t] = 0
         /\ \A v \in Users : Saves(v, t) => v = u

\* A copy of timer t with number n and content k does no harm, on a device or on
\* its way there: no row has had a higher number, and one with its number has
\* its content.  The direct pushes of an edit carry number 0 and the new content,
\* so a row that still has number 0 is exempt while the edit is under way.
Fits(t, n, k) ==
  /\ t \notin unused
  /\ n <= highest[t]
  /\ row[t] # None /\ t \notin doubtful =>
       (n = row[t].updateNum /\ (n > 0 \/ \A u \in Users : ~Saves(u, t)) => k = row[t].content)
  /\ \A u \in Users : Adds(u, t) => k = request[u].row.content

\* All copies fit, those on the devices and those in the messages.
InvHeld ==
  \A d \in Devices, t \in Ids :
    held[d][t] # None => Fits(t, held[d][t].num, held[d][t].content)

InvWire == \A msg \in wire : msg.type = "add" => Fits(msg.id, msg.num, msg.content)

SyncInv == InvTypes /\ InvRows /\ InvHeld /\ InvWire

-----------------------------------------------------------------------------
(* Types.                                                                  *)

\* The commands are messages.
LEMMA CmdTypes ==
  /\ \A d \in Devices, t \in Ids, n \in Numbers, k \in Contents : AddCmd(d, t, n, k) \in Messages
  /\ \A d \in Devices, t \in Ids, k \in Contents : PushAddTimingCmd(d, t, k) \in Messages
  /\ \A d \in Devices, t \in Ids : DeleteCmd(d, t) \in Messages
<1>1. \A d \in Devices, t \in Ids, n \in Numbers, k \in Contents : AddCmd(d, t, n, k) \in Messages
  BY DEF AddCmd, Messages
<1>2. \A d \in Devices, t \in Ids : DeleteCmd(d, t) \in Messages
  BY DEF DeleteCmd, Messages
<1>3. 0 \in Numbers
  BY BoundsAssumption DEF Numbers
<1> QED
  BY <1>1, <1>2, <1>3 DEF PushAddTimingCmd

\* What a request of each type holds.
LEMMA RequestFields ==
  ASSUME NEW r \in Requests
  PROVE  /\ r.type \in {"save", "onOff", "delete", "deleteAll"}
         /\ r.type = "save" => r.id \in Ids /\ r.row \in Rows
         /\ r.type = "onOff" => r.id \in Ids /\ r.dtStatus \in Statuses
         /\ r.type = "delete" => r.id \in Ids
         /\ r.type = "deleteAll" => r.deviceId \in Devices
  BY DEF Requests

\* A request that is asked keeps the types when it and its messages have theirs.
LEMMA AskTypes ==
  ASSUME InvTypes, NEW u \in Users, NEW r \in Requests, NEW cmds \in SUBSET Messages,
         Ask(u, r, cmds), unused' \subseteq Ids,
         r.type = "save" => r.row.updateNum <= requests
  PROVE  InvTypes'
<1> USE BoundsAssumption DEF InvTypes, TypeOK, deviceVars, historyVars
<1>1. /\ request' = [request EXCEPT ![u] = r]
      /\ requests' = requests + 1 /\ requests < MaxRequests
      /\ wire' = wire \cup cmds
      /\ UNCHANGED <<row, held, report, faults, highest, doubtful>>
  BY DEF Ask
<1>2. TypeOK'
  BY <1>1
<1>3. \A t \in Ids : row'[t] # None => row'[t].updateNum < requests'
  <2>1. \A t \in Ids : row[t] # None => row[t].updateNum \in Nat
    BY DEF Rows, Numbers
  <2> QED
    BY <1>1, <2>1
<1>4. ASSUME NEW v \in Users, NEW t \in Ids, Saves(v, t)'
      PROVE  request'[v].row.updateNum < requests'
  <2>1. CASE v = u
    <3>1. r.row.updateNum <= requests /\ r.row.updateNum \in Nat
      BY <1>1, <1>4, <2>1, RequestFields DEF Saves, Rows, Numbers
    <3> QED
      BY <1>1, <2>1, <3>1
  <2>2. CASE v # u
    <3>1. Saves(v, t) /\ request'[v] = request[v]
      BY <1>1, <1>4, <2>2 DEF Saves
    <3>2. request[v].row.updateNum \in Nat
      BY <3>1, RequestFields DEF Saves, Rows, Numbers
    <3> QED
      BY <1>1, <3>1, <3>2
  <2> QED
    BY <2>1, <2>2
<1> QED
  BY <1>2, <1>3, <1>4

\* A row that changes in some fields only is a row.
LEMMA RowTypes ==
  ASSUME TypeOK, NEW t \in Ids, row[t] # None
  PROVE  /\ row[t] \in Rows
         /\ row[t].deviceId \in Devices /\ row[t].dtStatus \in Statuses
         /\ row[t].updateNum \in Numbers /\ row[t].content \in Contents
         /\ \A s \in Statuses : [row[t] EXCEPT !.dtStatus = s] \in Rows
  BY DEF TypeOK, Rows

\* The row an update is to write has the next number and the new content.
LEMMA NextRow ==
  ASSUME InvTypes, NEW t \in Ids, NEW d \in Devices, row[t] # None, requests < MaxRequests
  PROVE  LET r == [row[t] EXCEPT !.deviceId = d, !.updateNum = @ + 1, !.content = NewContent]
         IN /\ r \in Rows /\ r.updateNum = row[t].updateNum + 1 /\ r.content = NewContent
            /\ row[t].updateNum \in Nat /\ row[t].updateNum < requests /\ NewContent \in Contents
<1>1. row[t] \in Rows /\ row[t].updateNum \in Numbers
  BY RowTypes DEF InvTypes
<1>2. row[t].updateNum < requests /\ requests \in 0 .. MaxRequests
  BY DEF InvTypes, TypeOK
<1>3. row[t].updateNum \in Nat /\ row[t].updateNum + 1 \in Numbers /\ NewContent \in Contents
  BY <1>1, <1>2, BoundsAssumption DEF Numbers, Contents, NewContent
<1> QED
  BY <1>1, <1>2, <1>3 DEF Rows

\* What a request commits for a timer is a row or none.
LEMMA CommittedType ==
  ASSUME TypeOK, NEW r \in Requests, NEW t \in Ids
  PROVE  Committed(r, t) \in Rows \cup {None}
<1>1. row[t] \in Rows \cup {None}
  BY DEF TypeOK
<1> QED
  BY <1>1, RequestFields, RowTypes DEF Committed

\* The number of the row a request commits is its own or that of the row before.
LEMMA CommittedNumber ==
  ASSUME TypeOK, NEW r \in Requests, NEW t \in Ids, Committed(r, t) # None
  PROVE  \/ r.type = "save" /\ r.id = t /\ Committed(r, t) = r.row
         \/ /\ ~(r.type = "save" /\ r.id = t)
            /\ row[t] # None
            /\ Committed(r, t).updateNum = row[t].updateNum
            /\ Committed(r, t).content = row[t].content
            /\ Committed(r, t).deviceId = row[t].deviceId
<1>1. CASE r.type = "save" /\ r.id = t
  BY <1>1 DEF Committed
<1>2. CASE r.type = "onOff" /\ r.id = t /\ row[t] # None
  BY <1>2, RowTypes DEF Committed, Rows
<1>3. CASE ~(r.type = "save" /\ r.id = t) /\ ~(r.type = "onOff" /\ r.id = t /\ row[t] # None)
  BY <1>3 DEF Committed
<1> QED
  BY <1>1, <1>2, <1>3

\* What a device stores has its type.
LEMMA HandleTypes ==
  ASSUME TypeOK, NEW msg \in Messages, Handle(msg)
  PROVE  held' \in [Devices -> [Ids -> Copies \cup {None}]]
<1>1. msg.to \in Devices /\ msg.id \in Ids
  BY DEF Messages
<1>2. msg.type = "add" => [num |-> msg.num, content |-> msg.content] \in Copies
  BY DEF Messages, Copies
<1> QED
  BY <1>1, <1>2 DEF Handle, TypeOK

\* Switching a timer on or off tells its device the content of the row, or to
\* delete it, or nothing.
LEMMA OnOffFields ==
  ASSUME NEW t \in Ids, NEW s \in Statuses
  PROVE  OnOffCmds(t, s) \subseteq {PushAddTimingCmd(row[t].deviceId, t, row[t].content),
                                    DeleteCmd(row[t].deviceId, t)}
  BY DEF OnOffCmds, Statuses, On, Off, Other

\* Initially every variable has its type.
LEMMA TypesInit == Init => InvTypes
  BY BoundsAssumption DEF Init, InvTypes, TypeOK, Saves, Numbers

\* Every step keeps the types and the count of the edits.
LEMMA TypesNext == InvTypes /\ [Next]_vars => InvTypes'
<1> SUFFICES ASSUME InvTypes, [Next]_vars PROVE InvTypes'
  OBVIOUS
<1>0. TypeOK /\ requests \in 0 .. MaxRequests /\ unused \subseteq Ids
  BY DEF InvTypes, TypeOK
<1>1. ASSUME NEW u \in Users, NEW t \in Ids, NEW d \in Devices, UserAddDeviceTiming(u, t, d)
      PROVE  InvTypes'
  <2> DEFINE r == [deviceId |-> d, dtStatus |-> On, updateNum |-> 0, content |-> NewContent]
             q == [type |-> "save", id |-> t, row |-> r]
  <2>1. r \in Rows /\ NewContent \in Contents
    BY <1>0, BoundsAssumption DEF Rows, Numbers, Contents, NewContent, Statuses
  <2>2. q \in Requests
    BY <2>1 DEF Requests
  <2>3. Ask(u, q, {PushAddTimingCmd(d, t, r.content)}) /\ unused' \subseteq Ids
    BY <1>0, <1>1 DEF UserAddDeviceTiming
  <2>4. {PushAddTimingCmd(d, t, r.content)} \in SUBSET Messages
    BY <2>1, CmdTypes
  <2>5. q.row.updateNum <= requests
    BY <1>0
  <2> HIDE DEF q, r
  <2> QED
    BY <2>2, <2>3, <2>4, <2>5, AskTypes
<1>2. ASSUME NEW u \in Users, NEW t \in Ids, NEW d \in Devices, UserUpdateDeviceTiming(u, t, d)
      PROVE  InvTypes'
  <2> DEFINE r == [row[t] EXCEPT !.deviceId = d, !.updateNum = @ + 1, !.content = NewContent]
             q == [type |-> "save", id |-> t, row |-> r]
  <2>0. row[t] # None /\ requests < MaxRequests
    BY <1>2 DEF UserUpdateDeviceTiming, Ask
  <2>3. /\ r \in Rows /\ r.updateNum = row[t].updateNum + 1 /\ r.content = NewContent
        /\ row[t].updateNum \in Nat /\ row[t].updateNum < requests /\ NewContent \in Contents
    BY <2>0, NextRow
  <2>4. q \in Requests
    BY <2>3 DEF Requests
  <2>5. Ask(u, q, {PushAddTimingCmd(d, t, r.content)}) /\ unused' \subseteq Ids
    BY <1>0, <1>2 DEF UserUpdateDeviceTiming
  <2>6. {PushAddTimingCmd(d, t, r.content)} \in SUBSET Messages
    BY <2>3, CmdTypes
  <2>7. q.row.updateNum <= requests
    <3>1. q.row.updateNum = row[t].updateNum + 1
      BY <2>3
    <3>2. row[t].updateNum + 1 <= requests
      BY <1>0, <2>3, BoundsAssumption
    <3> QED
      BY <3>1, <3>2
  <2> HIDE DEF q, r
  <2> QED
    BY <2>4, <2>5, <2>6, <2>7, AskTypes
<1>3. ASSUME NEW u \in Users, NEW t \in Ids, NEW s \in Statuses, UserOnOffDeviceTiming(u, t, s)
      PROVE  InvTypes'
  <2> DEFINE q == [type |-> "onOff", id |-> t, dtStatus |-> s]
  <2>1. q \in Requests /\ q.type # "save"
    BY DEF Requests
  <2>2. Ask(u, q, OnOffCmds(t, s)) /\ unused' \subseteq Ids /\ row[t] # None
    BY <1>0, <1>3 DEF UserOnOffDeviceTiming
  <2>3. OnOffCmds(t, s) \in SUBSET Messages
    BY <1>0, <2>2, CmdTypes, RowTypes, OnOffFields
  <2> HIDE DEF q
  <2> QED
    BY <2>1, <2>2, <2>3, AskTypes
<1>4. ASSUME NEW u \in Users, NEW t \in Ids, UserDeleteDeviceTiming(u, t)
      PROVE  InvTypes'
  <2> DEFINE q == [type |-> "delete", id |-> t]
  <2>1. q \in Requests /\ q.type # "save"
    BY DEF Requests
  <2>2. Ask(u, q, {DeleteCmd(row[t].deviceId, t)}) /\ unused' \subseteq Ids /\ row[t] # None
    BY <1>0, <1>4 DEF UserDeleteDeviceTiming
  <2>3. {DeleteCmd(row[t].deviceId, t)} \in SUBSET Messages
    BY <1>0, <2>2, CmdTypes, RowTypes
  <2> HIDE DEF q
  <2> QED
    BY <2>1, <2>2, <2>3, AskTypes
<1>5. ASSUME NEW u \in Users, NEW d \in Devices, UserDeleteDeviceTimingAll(u, d)
      PROVE  InvTypes'
  <2> DEFINE q == [type |-> "deleteAll", deviceId |-> d]
  <2>1. q \in Requests /\ q.type # "save"
    BY DEF Requests
  <2>2. Ask(u, q, {DeleteCmd(d, t) : t \in TimersOf(d)}) /\ unused' \subseteq Ids
    BY <1>0, <1>5 DEF UserDeleteDeviceTimingAll
  <2>3. {DeleteCmd(d, t) : t \in TimersOf(d)} \in SUBSET Messages
    BY CmdTypes DEF TimersOf
  <2> HIDE DEF q
  <2> QED
    BY <2>1, <2>2, <2>3, AskTypes
<1>6. ASSUME NEW u \in Users, Commit(u) PROVE InvTypes'
  <2>1. /\ request[u] \in Requests
        /\ row' = [t \in Ids |-> Committed(request[u], t)]
        /\ request' = [request EXCEPT ![u] = None]
        /\ UNCHANGED <<unused, requests, held, report, wire, faults>>
    BY <1>0, <1>6 DEF Commit, TypeOK, deviceVars, wireVars
  <2>2. row' \in [Ids -> Rows \cup {None}]
    BY <1>0, <2>1, CommittedType
  <2>6. \A t \in Ids : Fresh(u, t) => request[u].row.updateNum \in Numbers
    BY <2>1, RequestFields DEF Fresh, Saves, Rows
  <2>7. highest' \in [Ids -> Numbers] /\ doubtful' \subseteq Ids
    BY <1>0, <1>6, <2>6 DEF Commit, TypeOK
  <2>3. TypeOK'
    BY <1>0, <2>1, <2>2, <2>7 DEF TypeOK
  <2>4. ASSUME NEW t \in Ids, row'[t] # None
        PROVE  row'[t].updateNum < requests'
    <3>1. \/ Saves(u, t) /\ row'[t] = request[u].row
          \/ row[t] # None /\ row'[t].updateNum = row[t].updateNum
      BY <1>0, <1>6, <2>1, <2>4, CommittedNumber DEF Saves, Commit
    <3> QED
      BY <2>1, <3>1 DEF InvTypes
  <2>5. \A v \in Users, t \in Ids : Saves(v, t)' => Saves(v, t) /\ request'[v] = request[v]
    BY <1>0, <2>1 DEF Saves, TypeOK
  <2> QED
    BY <2>1, <2>3, <2>4, <2>5 DEF InvTypes
<1>7. ASSUME NEW u \in Users, RollBack(u) PROVE InvTypes'
  <2>1. /\ request' = [request EXCEPT ![u] = None]
        /\ UNCHANGED <<row, unused, requests, held, report, wire, faults, highest>>
        /\ doubtful' \in SUBSET (doubtful \cup Ids)
    BY <1>7 DEF RollBack, deviceVars, wireVars
  <2>2. \A v \in Users, t \in Ids : Saves(v, t)' => Saves(v, t) /\ request'[v] = request[v]
    BY <1>0, <2>1 DEF Saves, TypeOK
  <2>3. TypeOK'
    BY <1>0, <2>1 DEF TypeOK
  <2> QED
    BY <2>1, <2>2, <2>3 DEF InvTypes
<1>8. ASSUME NEW d \in Devices, SynTiming(d) PROVE InvTypes'
  <2>1. \A t \in Missing(d) \cup Outdated(d) : RowCmd(t) \in Messages
    <3>1. ASSUME NEW t \in Missing(d) \cup Outdated(d) PROVE t \in Ids /\ row[t] # None
      BY <1>0, <1>8 DEF Missing, Outdated, Active, SynTiming, TypeOK, Reports
    <3> QED
      BY <1>0, <3>1, CmdTypes, RowTypes DEF RowCmd
  <2>2. \A t \in Obsolete(d) : DeleteCmd(d, t) \in Messages
    <3>1. Obsolete(d) \subseteq Ids
      BY <1>0, <1>8 DEF Obsolete, SynTiming, TypeOK, Reports
    <3> QED
      BY <3>1, CmdTypes
  <2>3. wire' \subseteq Messages
    BY <1>0, <1>8, <2>1, <2>2 DEF SynTiming, TypeOK
  <2>4. report' = [report EXCEPT ![d] = None] /\ UNCHANGED <<row, unused, request, requests, held, faults, highest, doubtful>>
    BY <1>8 DEF SynTiming, userVars, historyVars
  <2>5. TypeOK'
    BY <1>0, <2>3, <2>4 DEF TypeOK
  <2> QED
    BY <2>4, <2>5 DEF InvTypes, Saves
<1>9. ASSUME NEW d \in Devices, DeviceSyn(d) PROVE InvTypes'
  <2> DEFINE S == {x \in Ids : held[d][x] # None}
             f == [t \in S |-> held[d][t].num]
  <2>1. f \in [S -> Numbers]
    BY <1>0 DEF TypeOK, Copies
  <2>2. f \in Reports
    BY <2>1 DEF Reports
  <2>3. report' = [report EXCEPT ![d] = f] /\ UNCHANGED <<row, unused, request, requests, held, wire, faults, highest, doubtful>>
    BY <1>9 DEF DeviceSyn, userVars, wireVars, historyVars
  <2> HIDE DEF f
  <2>4. TypeOK'
    BY <1>0, <2>2, <2>3 DEF TypeOK
  <2> QED
    BY <2>3, <2>4 DEF InvTypes, Saves
<1>10. ASSUME NEW d \in Devices, NEW t \in Ids, Deliver(d, t) PROVE InvTypes'
  <2>1. PICK msg \in wire : Handle(msg) /\ wire' = wire \ {msg}
    BY <1>10 DEF Deliver
  <2>2. held' \in [Devices -> [Ids -> Copies \cup {None}]]
    BY <1>0, <2>1, HandleTypes DEF TypeOK
  <2>3. UNCHANGED <<row, unused, request, requests, report, faults, highest, doubtful>>
    BY <1>10 DEF Deliver, userVars, historyVars
  <2> QED
    BY <1>0, <2>1, <2>2, <2>3 DEF InvTypes, TypeOK, Saves
<1>11. CASE Fault
  <2>1. PICK msg \in wire : \/ wire' = wire \ {msg} /\ UNCHANGED held
                            \/ Handle(msg) /\ UNCHANGED wire
    BY <1>11 DEF Fault
  <2>2. held' \in [Devices -> [Ids -> Copies \cup {None}]] /\ wire' \subseteq Messages
    BY <1>0, <2>1, HandleTypes DEF TypeOK
  <2>3. UNCHANGED <<row, unused, request, requests, report, highest, doubtful>> /\ faults' \in 0 .. MaxFaults
    BY <1>0, <1>11, BoundsAssumption DEF Fault, userVars, historyVars, TypeOK
  <2> QED
    BY <1>0, <2>2, <2>3 DEF InvTypes, TypeOK, Saves
<1>12. CASE UNCHANGED vars
  BY <1>12 DEF vars, userVars, deviceVars, wireVars, historyVars, InvTypes, TypeOK, Saves
<1> QED
  BY <1>1, <1>2, <1>3, <1>4, <1>5, <1>6, <1>7, <1>8, <1>9, <1>10, <1>11, <1>12
     DEF Next, UserStep

-----------------------------------------------------------------------------
(* The copies of a timer.                                                  *)

\* What the fields of a copy and of a message are.
LEMMA CopyFields ==
  ASSUME TypeOK
  PROVE  /\ \A d \in Devices, t \in Ids : held[d][t] # None =>
              held[d][t].num \in Numbers /\ held[d][t].content \in Contents
         /\ \A msg \in wire : msg.to \in Devices /\ msg.id \in Ids /\
              (msg.type = "add" => msg.num \in Numbers /\ msg.content \in Contents)
<1>1. \A d \in Devices, t \in Ids : held[d][t] \in Copies \cup {None}
  BY DEF TypeOK
<1>2. \A msg \in wire : msg \in Messages
  BY DEF TypeOK
<1> QED
  BY <1>1, <1>2 DEF Copies, Messages

\* Who saves what after a request is asked.
LEMMA AskSaves ==
  ASSUME InvTypes, NEW u \in Users, NEW r \in Requests, NEW cmds, Ask(u, r, cmds)
  PROVE  /\ request'[u] = r
         /\ \A v \in Users \ {u} : request'[v] = request[v]
         /\ \A t \in Ids : ~Saves(u, t)
         /\ \A t \in Ids : Saves(u, t)' <=> r.type = "save" /\ r.id = t
         /\ \A v \in Users \ {u}, t \in Ids : Saves(v, t)' <=> Saves(v, t)
         /\ row' = row /\ held' = held /\ wire' = wire \cup cmds
         /\ highest' = highest /\ doubtful' = doubtful
<1>1. /\ request' = [request EXCEPT ![u] = r] /\ request[u] = None /\ r # None
      /\ row' = row /\ held' = held /\ wire' = wire \cup cmds
      /\ highest' = highest /\ doubtful' = doubtful
  BY NoneAssumption DEF Ask, deviceVars, historyVars
<1>2. request \in [Users -> Requests \cup {None}]
  BY DEF InvTypes, TypeOK
<1> QED
  BY <1>1, <1>2 DEF Saves

\* When a step makes no copy unfit, what devices hold and what was sent goes on
\* to fit.
LEMMA OldCopies ==
  ASSUME SyncInv, held' = held,
         \A t \in Ids, n \in Numbers, k \in Contents : Fits(t, n, k) => Fits(t, n, k)'
  PROVE  /\ InvHeld'
         /\ \A msg \in wire : msg.type = "add" => Fits(msg.id, msg.num, msg.content)'
<1>1. InvHeld'
  BY CopyFields DEF SyncInv, InvTypes, InvHeld
<1>2. \A msg \in wire : msg.type = "add" => Fits(msg.id, msg.num, msg.content)'
  BY CopyFields DEF SyncInv, InvTypes, InvWire
<1> QED
  BY <1>1, <1>2

\* A request that writes no row leaves all copies as fit as they were.
LEMMA AskOther ==
  ASSUME SyncInv, NEW u \in Users, NEW r \in Requests, NEW cmds, Ask(u, r, cmds),
         r.type # "save", unused' = unused
  PROVE  /\ InvRows'
         /\ \A t \in Ids, n \in Numbers, k \in Contents : Fits(t, n, k) => Fits(t, n, k)'
         /\ held' = held /\ wire' = wire \cup cmds
<1>1. /\ \A v \in Users, t \in Ids : Saves(v, t)' => Saves(v, t) /\ request'[v] = request[v]
      /\ \A v \in Users, t \in Ids : Saves(v, t) => Saves(v, t)'
      /\ row' = row /\ held' = held /\ wire' = wire \cup cmds
      /\ highest' = highest /\ doubtful' = doubtful
  BY AskSaves DEF SyncInv
<1>2. \A t \in Ids, n \in Numbers, k \in Contents : Fits(t, n, k) => Fits(t, n, k)'
  BY <1>1 DEF Fits, Adds
<1>3. InvRows'
  BY <1>1 DEF SyncInv, InvRows, Adds
<1> QED
  BY <1>1, <1>2, <1>3

\* The numbers of rows, those about to be written included, are naturals.
LEMMA RowNumbers ==
  ASSUME InvTypes
  PROVE  /\ \A t \in Ids : highest[t] \in Nat
         /\ \A t \in Ids : row[t] # None => row[t].updateNum \in Nat
         /\ \A u \in Users, t \in Ids : Saves(u, t) =>
              request[u] \in Requests /\ request[u].row.updateNum \in Nat
<1>1. \A t \in Ids : row[t] \in Rows \cup {None}
  BY DEF InvTypes, TypeOK
<1>2. \A u \in Users : request[u] \in Requests \cup {None}
  BY DEF InvTypes, TypeOK
<1>3. \A x \in Rows : x.updateNum \in Nat
  BY BoundsAssumption DEF Rows, Numbers
<1>4. \A t \in Ids : highest[t] \in Nat
  BY BoundsAssumption DEF InvTypes, TypeOK, Numbers
<1> QED
  BY <1>1, <1>2, <1>3, <1>4, RequestFields DEF Saves

\* The first row of a timer: no copy of it is anywhere.
LEMMA AddNext ==
  ASSUME SyncInv, NEW u \in Users, NEW t \in Ids, NEW d \in Devices,
         UserAddDeviceTiming(u, t, d)
  PROVE  InvRows' /\ InvHeld' /\ InvWire'
<1> DEFINE r == [deviceId |-> d, dtStatus |-> On, updateNum |-> 0, content |-> NewContent]
           q == [type |-> "save", id |-> t, row |-> r]
           cmd == PushAddTimingCmd(d, t, r.content)
<1>0. TypeOK
  BY DEF SyncInv, InvTypes
<1>1. r \in Rows /\ q \in Requests /\ q.type = "save" /\ q.id = t
  BY <1>0, BoundsAssumption DEF TypeOK, Requests, Rows, Numbers, Contents, NewContent, Statuses
<1>2. t \in unused /\ unused' = unused \ {t} /\ Ask(u, q, {cmd})
  BY DEF UserAddDeviceTiming
<1>3. q.row.updateNum = 0 /\ q.row.content = r.content
  OBVIOUS
<1>4. cmd.id = t /\ cmd.num = 0 /\ cmd.content = r.content
  BY DEF PushAddTimingCmd, AddCmd
<1> HIDE DEF r, q, cmd
<1>5. /\ request'[u] = q
      /\ \A v \in Users \ {u} : request'[v] = request[v]
      /\ \A x \in Ids : Saves(u, x)' <=> x = t
      /\ \A v \in Users \ {u}, x \in Ids : Saves(v, x)' <=> Saves(v, x)
      /\ \A x \in Ids : ~Saves(u, x)
      /\ row' = row /\ held' = held /\ wire' = wire \cup {cmd}
      /\ highest' = highest /\ doubtful' = doubtful
  BY <1>1, <1>2, AskSaves DEF SyncInv
<1>6. row[t] = None /\ highest[t] = 0 /\ \A v \in Users : ~Saves(v, t)
  BY <1>2 DEF SyncInv, InvRows
<1>7. InvRows'
  BY <1>2, <1>3, <1>5, <1>6 DEF SyncInv, InvRows, Adds
<1>8. \A x \in Ids, n \in Numbers, k \in Contents : Fits(x, n, k) => Fits(x, n, k)'
  BY <1>2, <1>5 DEF Fits, Adds
<1>9. \A msg \in {cmd} : Fits(msg.id, msg.num, msg.content)'
  BY <1>2, <1>3, <1>4, <1>5, <1>6 DEF Fits, Adds
<1>10. InvHeld' /\ \A msg \in wire : msg.type = "add" => Fits(msg.id, msg.num, msg.content)'
  BY <1>5, <1>8, OldCopies
<1> QED
  BY <1>5, <1>7, <1>9, <1>10 DEF InvWire

\* A further row of a timer: the copies with number 0 of a row with number 0
\* are exempt from now on.
LEMMA UpdateNext ==
  ASSUME SyncInv, NEW u \in Users, NEW t \in Ids, NEW d \in Devices,
         UserUpdateDeviceTiming(u, t, d)
  PROVE  InvRows' /\ InvHeld' /\ InvWire'
<1> DEFINE r == [row[t] EXCEPT !.deviceId = d, !.updateNum = @ + 1, !.content = NewContent]
           q == [type |-> "save", id |-> t, row |-> r]
           cmd == PushAddTimingCmd(d, t, r.content)
<1>1. row[t] # None /\ unused' = unused /\ Ask(u, q, {cmd})
  BY DEF UserUpdateDeviceTiming
<1>2. t \notin unused /\ \A v \in Users : ~Adds(v, t)
  BY <1>1 DEF SyncInv, InvRows
<1>3. r \in Rows /\ r.updateNum = row[t].updateNum + 1 /\ row[t].updateNum \in Nat
  BY <1>1, NextRow DEF SyncInv, Ask
<1>4. q.type = "save" /\ q.id = t /\ q.row = r
  OBVIOUS
<1>5. cmd.id = t /\ cmd.num = 0 /\ cmd.content = r.content
  BY DEF PushAddTimingCmd, AddCmd
<1>6. q \in Requests
  BY <1>3 DEF Requests
<1> HIDE DEF r, q, cmd
<1>7. /\ request'[u] = q
      /\ \A v \in Users \ {u} : request'[v] = request[v]
      /\ \A x \in Ids : Saves(u, x)' <=> x = t
      /\ \A v \in Users \ {u}, x \in Ids : Saves(v, x)' <=> Saves(v, x)
      /\ \A x \in Ids : ~Saves(u, x)
      /\ row' = row /\ held' = held /\ wire' = wire \cup {cmd}
      /\ highest' = highest /\ doubtful' = doubtful
  BY <1>1, <1>4, <1>6, AskSaves DEF SyncInv
<1>8. /\ \A v \in Users, x \in Ids : Adds(v, x)' => Adds(v, x) /\ request'[v] = request[v]
      /\ \A v \in Users : ~Adds(v, t)'
  <2>1. request'[u].row.updateNum # 0
    BY <1>3, <1>4, <1>7
  <2> QED
    BY <1>2, <1>7, <2>1 DEF Adds
<1>9. InvRows'
  BY <1>1, <1>2, <1>7, <1>8 DEF SyncInv, InvRows
<1>10. ASSUME NEW x \in Ids, NEW n \in Numbers, NEW k \in Contents, Fits(x, n, k)
       PROVE  Fits(x, n, k)'
  <2>1. \A v \in Users : Saves(v, x) => Saves(v, x)'
    BY <1>7
  <2> QED
    BY <1>1, <1>7, <1>8, <1>10, <2>1 DEF Fits
<1>11. \A msg \in {cmd} : Fits(msg.id, msg.num, msg.content)'
  <2>1. 0 <= highest'[t] /\ Saves(u, t)'
    BY <1>7, RowNumbers DEF SyncInv
  <2> QED
    BY <1>1, <1>2, <1>5, <1>8, <2>1 DEF Fits
<1>12. InvHeld' /\ \A msg \in wire : msg.type = "add" => Fits(msg.id, msg.num, msg.content)'
  BY <1>7, <1>10, OldCopies
<1> QED
  BY <1>7, <1>9, <1>11, <1>12 DEF InvWire

\* A copy of a row fits, and so does one with number 0.
LEMMA RowFits ==
  ASSUME SyncInv, NEW t \in Ids, row[t] # None
  PROVE  /\ Fits(t, row[t].updateNum, row[t].content)
         /\ Fits(t, 0, row[t].content)
<1>1. /\ t \notin unused /\ row[t].updateNum <= highest[t]
      /\ highest[t] \in Nat /\ \A u \in Users : ~Adds(u, t)
  BY RowNumbers DEF SyncInv, InvRows
<1> QED
  BY <1>1 DEF Fits

\* Switching a timer on tells its device the content of the row.
LEMMA OnOffNext ==
  ASSUME SyncInv, NEW u \in Users, NEW t \in Ids, NEW s \in Statuses,
         UserOnOffDeviceTiming(u, t, s)
  PROVE  InvRows' /\ InvHeld' /\ InvWire'
<1> DEFINE q == [type |-> "onOff", id |-> t, dtStatus |-> s]
           cmds == OnOffCmds(t, s)
<1>1. q \in Requests /\ q.type # "save"
  BY DEF Requests
<1>2. row[t] # None /\ unused' = unused /\ Ask(u, q, cmds)
  BY DEF UserOnOffDeviceTiming
<1>3. \A msg \in cmds : msg.type = "add" =>
        msg.id = t /\ msg.num = 0 /\ msg.content = row[t].content
  BY OnOffFields DEF PushAddTimingCmd, AddCmd, DeleteCmd
<1>4. row[t].content \in Contents /\ 0 \in Numbers
  <2>1. row[t].content \in Contents
    BY <1>2, RowTypes DEF SyncInv, InvTypes
  <2>2. 0 \in Numbers
    BY BoundsAssumption DEF Numbers
  <2> QED
    BY <2>1, <2>2
<1> HIDE DEF q, cmds
<1>5. /\ InvRows'
      /\ \A x \in Ids, n \in Numbers, k \in Contents : Fits(x, n, k) => Fits(x, n, k)'
      /\ held' = held /\ wire' = wire \cup cmds
  BY <1>1, <1>2, AskOther
<1>6. InvHeld' /\ \A msg \in wire : msg.type = "add" => Fits(msg.id, msg.num, msg.content)'
  BY <1>5, OldCopies
<1>7. \A k \in Contents : k = row[t].content => Fits(t, 0, k)'
  BY <1>2, <1>4, <1>5, RowFits
<1>8. \A msg \in cmds : msg.type = "add" => Fits(msg.id, msg.num, msg.content)'
  BY <1>3, <1>4, <1>7
<1> QED
  BY <1>5, <1>6, <1>8 DEF InvWire

\* Deleting timers sends no copies.
LEMMA DeleteNext ==
  ASSUME SyncInv, NEW u \in Users,
         \/ \E t \in Ids : UserDeleteDeviceTiming(u, t)
         \/ \E d \in Devices : UserDeleteDeviceTimingAll(u, d)
  PROVE  InvRows' /\ InvHeld' /\ InvWire'
<1>1. \E r \in Requests : \E cmds :
        /\ Ask(u, r, cmds) /\ r.type # "save" /\ unused' = unused
        /\ \A msg \in cmds : msg.type # "add"
  <2>1. ASSUME NEW t \in Ids, UserDeleteDeviceTiming(u, t)
        PROVE  \E r \in Requests : \E cmds :
                 /\ Ask(u, r, cmds) /\ r.type # "save" /\ unused' = unused
                 /\ \A msg \in cmds : msg.type # "add"
    <3>1. [type |-> "delete", id |-> t] \in Requests
      BY DEF Requests
    <3>2. DeleteCmd(row[t].deviceId, t).type # "add"
      BY DEF DeleteCmd
    <3> QED
      BY <2>1, <3>1, <3>2 DEF UserDeleteDeviceTiming
  <2>2. ASSUME NEW d \in Devices, UserDeleteDeviceTimingAll(u, d)
        PROVE  \E r \in Requests : \E cmds :
                 /\ Ask(u, r, cmds) /\ r.type # "save" /\ unused' = unused
                 /\ \A msg \in cmds : msg.type # "add"
    <3>1. [type |-> "deleteAll", deviceId |-> d] \in Requests
      BY DEF Requests
    <3>2. \A msg \in {DeleteCmd(d, t) : t \in TimersOf(d)} : msg.type # "add"
      BY DEF DeleteCmd
    <3> QED
      BY <2>2, <3>1, <3>2 DEF UserDeleteDeviceTimingAll
  <2> QED
    BY <2>1, <2>2
<1>2. PICK r \in Requests :
        \E cmds :
          /\ Ask(u, r, cmds) /\ r.type # "save" /\ unused' = unused
          /\ \A msg \in cmds : msg.type # "add"
  BY <1>1
<1>3. PICK cmds :
        /\ Ask(u, r, cmds) /\ r.type # "save" /\ unused' = unused
        /\ \A msg \in cmds : msg.type # "add"
  BY <1>2
<1>4. /\ InvRows'
      /\ \A x \in Ids, n \in Numbers, k \in Contents : Fits(x, n, k) => Fits(x, n, k)'
      /\ held' = held /\ wire' = wire \cup cmds
  BY <1>3, AskOther
<1>5. InvHeld' /\ \A msg \in wire : msg.type = "add" => Fits(msg.id, msg.num, msg.content)'
  BY <1>4, OldCopies
<1> QED
  BY <1>3, <1>4, <1>5 DEF InvWire

\* A row that is written has a number no copy has, or makes the timer doubtful.
LEMMA CommitNext ==
  ASSUME SyncInv, NEW u \in Users, Commit(u)
  PROVE  InvRows' /\ InvHeld' /\ InvWire'
<1>0. TypeOK
  BY DEF SyncInv, InvTypes
<1>1. /\ request[u] \in Requests /\ ~FlushFails(request[u])
      /\ row' = [t \in Ids |-> Committed(request[u], t)]
      /\ request' = [request EXCEPT ![u] = None]
      /\ highest' = [t \in Ids |-> IF Fresh(u, t) THEN request[u].row.updateNum ELSE highest[t]]
      /\ doubtful' = (doubtful \ {t \in Ids : Fresh(u, t)}) \cup {t \in Ids : Reused(u, t)}
      /\ unused' = unused /\ held' = held /\ wire' = wire
  BY <1>0 DEF Commit, TypeOK, deviceVars, wireVars
<1>2. /\ \A x \in Ids : ~Saves(u, x)'
      /\ \A v \in Users, x \in Ids : Saves(v, x)' => v # u /\ Saves(v, x) /\ request'[v] = request[v]
      /\ \A v \in Users, x \in Ids : Saves(v, x) /\ v # u => Saves(v, x)'
  BY <1>0, <1>1, RequestFields DEF Saves, TypeOK
<1>3. \A v \in Users, x \in Ids : Adds(v, x)' => Adds(v, x) /\ v # u /\ request'[v] = request[v]
  BY <1>2 DEF Adds
<1>4. ASSUME NEW t \in Ids, ~Saves(u, t)
      PROVE  /\ highest'[t] = highest[t]
             /\ t \in doubtful' <=> t \in doubtful
             /\ row'[t] # None => /\ row[t] # None
                                 /\ row'[t].updateNum = row[t].updateNum
                                 /\ row'[t].content = row[t].content
  <2>1. row'[t] # None => /\ row[t] # None
                          /\ row'[t].updateNum = row[t].updateNum
                          /\ row'[t].content = row[t].content
    BY <1>0, <1>1, <1>4, CommittedNumber, NoneAssumption DEF Saves
  <2>2. ~Fresh(u, t) /\ ~Reused(u, t)
    BY <1>4 DEF Fresh, Reused
  <2> QED
    BY <1>1, <2>1, <2>2
<1>5. ASSUME NEW t \in Ids, Saves(u, t)
      PROVE  /\ row'[t] = request[u].row /\ t \notin unused
             /\ highest[t] \in Nat /\ row'[t].updateNum \in Nat
             /\ \A v \in Users : ~Adds(v, t)'
             /\ \/ /\ Adds(u, t) /\ row'[t].updateNum = 0
                   /\ highest[t] = 0 /\ highest'[t] = 0
                \/ /\ row'[t].updateNum > highest[t]
                   /\ highest'[t] = row'[t].updateNum
                \/ /\ row'[t].updateNum <= highest[t]
                   /\ highest'[t] = highest[t] /\ t \in doubtful'
  <2>1. row'[t] = request[u].row /\ t \notin unused
    BY <1>1, <1>5 DEF Committed, Saves, SyncInv, InvRows
  <2>2. highest[t] \in Nat /\ request[u].row.updateNum \in Nat
    BY <1>5, RowNumbers DEF SyncInv
  <2>3. Adds(u, t) \/ row[t] # None
    BY <1>1, <1>5, <2>2 DEF FlushFails, Saves, Adds
  <2>4. \A v \in Users : ~Adds(v, t)'
    BY <1>3, <1>5, <2>3 DEF SyncInv, InvRows, Adds
  <2>5. CASE Adds(u, t)
    <3>1. row[t] = None /\ highest[t] = 0 /\ request[u].row.updateNum = 0
      BY <2>5 DEF SyncInv, InvRows, Adds
    <3>2. highest'[t] = 0
      BY <1>1, <3>1
    <3> QED
      BY <2>1, <2>2, <2>4, <2>5, <3>1, <3>2
  <2>6. CASE row[t] # None /\ request[u].row.updateNum > highest[t]
    <3>1. Fresh(u, t)
      BY <1>5, <2>6 DEF Fresh
    <3>2. highest'[t] = request[u].row.updateNum
      BY <1>1, <3>1
    <3> QED
      BY <2>1, <2>2, <2>4, <2>6, <3>2
  <2>7. CASE row[t] # None /\ ~(request[u].row.updateNum > highest[t])
    <3>1. ~Fresh(u, t) /\ Reused(u, t)
      BY <1>5, <2>7 DEF Fresh, Reused
    <3>2. highest'[t] = highest[t] /\ t \in doubtful'
      BY <1>1, <3>1
    <3> QED
      BY <2>1, <2>2, <2>4, <2>7, <3>2
  <2> QED
    BY <2>3, <2>5, <2>6, <2>7
<1>6. ASSUME NEW t \in Ids
      PROVE  /\ row'[t] # None => t \notin unused' /\ row'[t].updateNum <= highest'[t]
             /\ t \in unused' => highest'[t] = 0
             /\ \A v \in Users : Saves(v, t)' => t \notin unused'
             /\ \A v \in Users : Adds(v, t)' =>
                  /\ row'[t] = None /\ highest'[t] = 0
                  /\ \A w \in Users : Saves(w, t)' => w = v
  <2>1. CASE Saves(u, t)
    BY <1>1, <1>5, <2>1
  <2>2. CASE ~Saves(u, t)
    BY <1>1, <1>2, <1>3, <1>4, <2>2 DEF SyncInv, InvRows
  <2> QED
    BY <2>1, <2>2
<1>7. InvRows'
  BY <1>6 DEF InvRows
<1>8. ASSUME NEW t \in Ids, NEW n \in Numbers, NEW k \in Contents, Fits(t, n, k)
      PROVE  Fits(t, n, k)'
  <2>0. n \in Nat
    BY BoundsAssumption DEF Numbers
  <2>1. CASE Saves(u, t)
    <3>1. n <= highest[t] /\ (Adds(u, t) => k = request[u].row.content)
      BY <1>8 DEF Fits
    <3> QED
      BY <1>1, <1>5, <2>0, <2>1, <3>1 DEF Fits
  <2>2. CASE ~Saves(u, t)
    <3>1. (\A v \in Users : ~Saves(v, t)') => \A v \in Users : ~Saves(v, t)
      BY <1>2, <2>2
    <3> QED
      BY <1>1, <1>3, <1>4, <1>8, <2>2, <3>1 DEF Fits
  <2> QED
    BY <2>1, <2>2
<1>9. InvHeld' /\ \A msg \in wire : msg.type = "add" => Fits(msg.id, msg.num, msg.content)'
  BY <1>1, <1>8, OldCopies
<1> QED
  BY <1>1, <1>7, <1>9 DEF InvWire

\* An edit that is rolled back leaves its copies with number 0 behind.
LEMMA RollBackNext ==
  ASSUME SyncInv, NEW u \in Users, RollBack(u)
  PROVE  InvRows' /\ InvHeld' /\ InvWire'
<1>1. /\ request' = [request EXCEPT ![u] = None]
      /\ doubtful' = doubtful \cup
           {t \in Ids : Saves(u, t) /\ row[t] # None /\ row[t].updateNum = 0}
      /\ row' = row /\ unused' = unused /\ held' = held /\ wire' = wire /\ highest' = highest
  BY DEF RollBack, deviceVars, wireVars
<1>2. /\ \A v \in Users, t \in Ids : Saves(v, t)' => Saves(v, t) /\ request'[v] = request[v]
      /\ \A v \in Users, t \in Ids : Saves(v, t) /\ v # u => Saves(v, t)'
  BY <1>1 DEF Saves, SyncInv, InvTypes, TypeOK
<1>3. \A v \in Users, t \in Ids : Adds(v, t)' => Adds(v, t) /\ request'[v] = request[v]
  BY <1>2 DEF Adds
<1>4. ASSUME NEW t \in Ids, NEW n \in Numbers, NEW k \in Contents, Fits(t, n, k)
      PROVE  Fits(t, n, k)'
  <2>1. n \in Nat
    BY BoundsAssumption DEF Numbers
  <2>2. ASSUME row[t] # None, t \notin doubtful', n = row[t].updateNum,
               n > 0 \/ \A v \in Users : ~Saves(v, t)'
        PROVE  k = row[t].content
    <3>1. t \notin doubtful /\ (Saves(u, t) => n # 0)
      BY <1>1, <2>2
    <3>2. n > 0 \/ \A v \in Users : ~Saves(v, t)
      BY <1>2, <2>1, <2>2, <3>1
    <3> QED
      BY <1>4, <2>2, <3>1, <3>2 DEF Fits
  <2> QED
    BY <1>1, <1>3, <1>4, <2>2 DEF Fits
<1>5. InvHeld' /\ \A msg \in wire : msg.type = "add" => Fits(msg.id, msg.num, msg.content)'
  BY <1>1, <1>4, OldCopies
<1>6. InvRows'
  BY <1>1, <1>2, <1>3 DEF SyncInv, InvRows
<1> QED
  BY <1>1, <1>5, <1>6 DEF InvWire

\* Whether a copy fits depends on the rows, the requests and the history only.
LEMMA FitsSame ==
  ASSUME UNCHANGED <<row, unused, request, highest, doubtful>>
  PROVE  /\ \A t \in Ids, n \in Numbers, k \in Contents : Fits(t, n, k) => Fits(t, n, k)'
         /\ InvRows => InvRows'
  BY DEF Fits, Saves, Adds, InvRows

\* synTiming sends copies of rows.
LEMMA SynNext ==
  ASSUME SyncInv, NEW d \in Devices, SynTiming(d)
  PROVE  InvRows' /\ InvHeld' /\ InvWire'
<1>0. TypeOK
  BY DEF SyncInv, InvTypes
<1>1. UNCHANGED <<row, unused, request, highest, doubtful, held>>
  BY DEF SynTiming, userVars, historyVars
<1>2. InvRows' /\ \A t \in Ids, n \in Numbers, k \in Contents : Fits(t, n, k) => Fits(t, n, k)'
  BY <1>1, FitsSame DEF SyncInv
<1>3. InvHeld' /\ \A msg \in wire : msg.type = "add" => Fits(msg.id, msg.num, msg.content)'
  BY <1>1, <1>2, OldCopies
<1>4. ASSUME NEW msg \in wire', msg \notin wire, msg.type = "add"
      PROVE  Fits(msg.id, msg.num, msg.content)'
  <2>1. \A x : DeleteCmd(d, x).type # "add"
    BY DEF DeleteCmd
  <2>2. PICK t \in Missing(d) \cup Outdated(d) : msg = RowCmd(t)
    BY <1>4, <2>1 DEF SynTiming
  <2>3. t \in Ids /\ row[t] # None
    BY <1>0, <2>2 DEF Missing, Outdated, Active, SynTiming, TypeOK, Reports
  <2>4. row[t].updateNum \in Numbers /\ row[t].content \in Contents
    BY <1>0, <2>3, RowTypes
  <2>5. msg.id = t /\ msg.num = row[t].updateNum /\ msg.content = row[t].content
    BY <2>2 DEF RowCmd, AddCmd
  <2>6. \A n \in Numbers, k \in Contents :
          n = row[t].updateNum /\ k = row[t].content => Fits(t, n, k)'
    BY <1>2, <2>3, <2>4, RowFits
  <2> QED
    BY <2>3, <2>4, <2>5, <2>6
<1> QED
  BY <1>2, <1>3, <1>4 DEF InvWire

\* A device stores a copy that fitted on its way.
LEMMA HandleNext ==
  ASSUME SyncInv, NEW msg \in wire, wire' \subseteq wire, UNCHANGED <<row, unused, request, highest, doubtful>>,
         Handle(msg) \/ held' = held
  PROVE  InvRows' /\ InvHeld' /\ InvWire'
<1>0. TypeOK /\ msg \in Messages
  BY DEF SyncInv, InvTypes, TypeOK
<1>1. InvRows' /\ \A t \in Ids, n \in Numbers, k \in Contents : Fits(t, n, k) => Fits(t, n, k)'
  BY FitsSame DEF SyncInv
<1>2. InvWire'
  BY <1>0, <1>1, CopyFields DEF SyncInv, InvWire
<1>3. ASSUME NEW d \in Devices, NEW t \in Ids, held'[d][t] # None
      PROVE  \E n \in Numbers, k \in Contents :
               held'[d][t].num = n /\ held'[d][t].content = k /\ Fits(t, n, k)
  <2>1. CASE held'[d][t] = held[d][t]
    BY <1>0, <1>3, <2>1, CopyFields DEF SyncInv, InvHeld
  <2>2. CASE held'[d][t] # held[d][t]
    <3>1. /\ msg.type = "add" /\ msg.id = t
          /\ held'[d][t] = [num |-> msg.num, content |-> msg.content]
      BY <1>0, <1>3, <2>2, CopyFields DEF Handle, TypeOK, Messages
    <3>2. msg.num \in Numbers /\ msg.content \in Contents /\ Fits(t, msg.num, msg.content)
      BY <1>0, <3>1, CopyFields DEF SyncInv, InvWire
    <3> QED
      BY <3>1, <3>2
  <2> QED
    BY <2>1, <2>2
<1>4. InvHeld'
  BY <1>1, <1>3 DEF InvHeld
<1> QED
  BY <1>1, <1>2, <1>4

-----------------------------------------------------------------------------
(* The theorems.                                                           *)

\* Initially nothing is given out, asked, held or sent.
LEMMA InvInit == Init => SyncInv
  BY TypesInit DEF Init, SyncInv, InvRows, InvHeld, InvWire, Saves, Adds

\* Every step keeps the copies fit.
LEMMA InvNext == SyncInv /\ [Next]_vars => SyncInv'
<1> SUFFICES ASSUME SyncInv, [Next]_vars
             PROVE  InvRows' /\ InvHeld' /\ InvWire'
  BY TypesNext DEF SyncInv
<1>1. ASSUME NEW u \in Users, UserStep(u) PROVE InvRows' /\ InvHeld' /\ InvWire'
  <2>1. ASSUME NEW t \in Ids, NEW d \in Devices, UserAddDeviceTiming(u, t, d)
        PROVE  InvRows' /\ InvHeld' /\ InvWire'
    BY <2>1, AddNext
  <2>2. ASSUME NEW t \in Ids, NEW d \in Devices, UserUpdateDeviceTiming(u, t, d)
        PROVE  InvRows' /\ InvHeld' /\ InvWire'
    BY <2>2, UpdateNext
  <2>3. ASSUME NEW t \in Ids, NEW s \in Statuses, UserOnOffDeviceTiming(u, t, s)
        PROVE  InvRows' /\ InvHeld' /\ InvWire'
    BY <2>3, OnOffNext
  <2>4. CASE \/ \E t \in Ids : UserDeleteDeviceTiming(u, t)
             \/ \E d \in Devices : UserDeleteDeviceTimingAll(u, d)
    BY <2>4, DeleteNext
  <2> QED
    BY <1>1, <2>1, <2>2, <2>3, <2>4 DEF UserStep
<1>2. ASSUME NEW u \in Users, Commit(u) PROVE InvRows' /\ InvHeld' /\ InvWire'
  BY <1>2, CommitNext
<1>3. ASSUME NEW u \in Users, RollBack(u) PROVE InvRows' /\ InvHeld' /\ InvWire'
  BY <1>3, RollBackNext
<1>4. ASSUME NEW d \in Devices, SynTiming(d) PROVE InvRows' /\ InvHeld' /\ InvWire'
  BY <1>4, SynNext
<1>5. CASE UNCHANGED <<row, unused, request, highest, doubtful, held, wire>>
  <2>1. InvRows' /\ \A t \in Ids, n \in Numbers, k \in Contents : Fits(t, n, k) => Fits(t, n, k)'
    BY <1>5, FitsSame DEF SyncInv
  <2>2. InvHeld' /\ \A msg \in wire : msg.type = "add" => Fits(msg.id, msg.num, msg.content)'
    BY <1>5, <2>1, OldCopies
  <2> QED
    BY <1>5, <2>1, <2>2 DEF InvWire
<1>6. ASSUME NEW d \in Devices, DeviceSyn(d) PROVE InvRows' /\ InvHeld' /\ InvWire'
  BY <1>5, <1>6 DEF DeviceSyn, userVars, wireVars, historyVars
<1>7. ASSUME NEW d \in Devices, NEW t \in Ids, Deliver(d, t)
      PROVE  InvRows' /\ InvHeld' /\ InvWire'
  <2>1. PICK msg \in wire : Handle(msg) /\ wire' = wire \ {msg}
    BY <1>7 DEF Deliver
  <2>2. UNCHANGED <<row, unused, request, highest, doubtful>>
    BY <1>7 DEF Deliver, userVars, historyVars
  <2> QED
    BY <2>1, <2>2, HandleNext
<1>8. CASE Fault
  <2>1. PICK msg \in wire : \/ wire' = wire \ {msg} /\ UNCHANGED held
                            \/ Handle(msg) /\ UNCHANGED wire
    BY <1>8 DEF Fault
  <2>2. UNCHANGED <<row, unused, request, highest, doubtful>>
    BY <1>8 DEF Fault, userVars, historyVars
  <2>3. wire' \subseteq wire /\ (Handle(msg) \/ held' = held)
    BY <2>1
  <2> QED
    BY <2>2, <2>3, HandleNext
<1>9. CASE UNCHANGED vars
  BY <1>5, <1>9 DEF vars, userVars, deviceVars, wireVars, historyVars
<1> QED
  BY <1>1, <1>2, <1>3, <1>4, <1>6, <1>7, <1>8, <1>9 DEF Next

\* No row, request, copy, report or message leaves its type, with any number of
\* users and however their requests interleave: the numbers of the timers and
\* their contents are bounded by the requests made.
THEOREM TypeCorrect == Spec => []TypeOK
<1>1. InvTypes => TypeOK
  BY DEF InvTypes
<1> QED
  BY <1>1, TypesInit, TypesNext, PTL DEF Spec

\* Whatever requests overlap, fail after their push or are given up, and whatever
\* is lost, repeated or late: a device that holds a timer under the number of its
\* row holds the content of the row, so that what synTiming does not send again
\* is up to date, unless the timer is doubtful, or still at number 0 with an edit
\* under way.
THEOREM SameNumberIsSameContent == Spec => []SameNumberSameContent
<1>1. SyncInv => SameNumberSameContent
  BY DEF SyncInv, InvHeld, Fits, SameNumberSameContent
<1> QED
  BY <1>1, InvInit, InvNext, PTL DEF Spec
=============================================================================
