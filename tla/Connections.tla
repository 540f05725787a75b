---------------------------- MODULE Connections ----------------------------
(***************************************************************************)
(* The connection registry of uusmart-tx-manager: SocketManager (clients,  *)
(* nowConnection, allowConnection, lines) and ModelInfoManager, as the     *)
(* handlers of TxCoreServerHandler and the umi action change them.         *)
(*                                                                         *)
(* A connection's register and unregister handlers run on the event loop   *)
(* netty gave it; loops run side by side, and umi runs on a thread of the  *)
(* handler pool.  The two counters are plain fields: reading the size of   *)
(* clients, writing nowConnection and writing allowConnection are steps    *)
(* of their own.  Each connection has a remote address of its own, so the  *)
(* connection stands for its channel name.                                 *)
(***************************************************************************)
EXTENDS Naturals, FiniteSets

CONSTANTS
  Conns,      \* connections modules open, one after the other or together
  LoopOf,     \* the event loop of each connection
  IpOf,       \* the ip:port the module of a connection uploads
  Max         \* tm.socket.maxconnection

\* There are finitely many connections and room for at least one.
ASSUME ConnsAssumption == IsFiniteSet(Conns) /\ Max \in Nat \ {0}

VARIABLES
  pc,               \* per connection: where its handlers stand
  leaving,          \* per connection: the handler that runs is the unregister one
  size,             \* per connection: the size of clients its handler has read
  clients,          \* SocketManager.clients
  nowConnection,    \* SocketManager.nowConnection
  allowConnection,  \* SocketManager.allowConnection
  umi,              \* per connection: its umi request
  lines,            \* SocketManager.lines: channel names with a unique key
  modelInfos,       \* ModelInfoManager.modelInfos: channel names with an info
  overlap,          \* history: a handler that counts began while another was counting
  met               \* history: per connection, the infos that ended its umi

handlerVars == <<pc, leaving, size, overlap>>
socketVars  == <<clients, nowConnection, allowConnection>>
infoVars    == <<umi, lines, modelInfos, met>>
vars == <<handlerVars, socketVars, infoVars>>

\* Steps inside a handler; the others are states between handlers.
Running == {"add", "size", "now", "gate", "outline", "forget"}
Phases  == {"new", "told", "up", "refused", "gone"} \cup Running

\* The steps of addClient and removeClient, which end by counting.
Counting == {"add", "size", "now", "gate"}

TypeOK ==
  /\ pc \in [Conns -> Phases]
  /\ leaving \in [Conns -> BOOLEAN]
  /\ size \in [Conns -> 0 .. Cardinality(Conns)]
  /\ clients \subseteq Conns
  /\ nowConnection \in 0 .. Cardinality(Conns)
  /\ allowConnection \in BOOLEAN
  /\ umi \in [Conns -> {"none", "scan", "add", "line", "done"}]
  /\ lines \subseteq Conns
  /\ modelInfos \subseteq Conns
  /\ overlap \in BOOLEAN
  /\ met \in [Conns -> SUBSET Conns]

Init ==
  /\ pc = [c \in Conns |-> "new"]
  /\ leaving = [c \in Conns |-> FALSE]
  /\ size = [c \in Conns |-> 0]
  /\ clients = {}
  /\ nowConnection = 0
  /\ allowConnection = TRUE
  /\ umi = [c \in Conns |-> "none"]
  /\ lines = {}
  /\ modelInfos = {}
  /\ overlap = FALSE
  /\ met = [c \in Conns |-> {}]

-----------------------------------------------------------------------------

\* The event loop of c is not in the middle of another connection's handler.
LoopFree(c) == \A d \in Conns : LoopOf[d] = LoopOf[c] => pc[d] \notin Running

Goto(c, p) == pc' = [pc EXCEPT ![c] = p]

\* History: the handler that begins to count notes whether another one counts.
NoteOverlap == overlap' = (\E d \in Conns : pc[d] \in Counting)

\* getServer, with one TxManager known: a module is sent here while there is room.
GetServer(c) ==
  /\ pc[c] = "new"
  /\ Max > nowConnection
  /\ Goto(c, "told")
  /\ UNCHANGED <<leaving, size, overlap, socketVars, infoVars>>

\* channelRegistered: admit the connection or close it.
Register(c) ==
  /\ pc[c] = "told" /\ LoopFree(c)
  /\ \/ /\ allowConnection
        /\ Goto(c, "add")
        /\ NoteOverlap
     \/ /\ ~allowConnection
        /\ Goto(c, "refused")
        /\ UNCHANGED overlap
  /\ UNCHANGED <<leaving, size, socketVars, infoVars>>

AddClient(c) ==
  /\ pc[c] = "add"
  /\ clients' = clients \cup {c}
  /\ Goto(c, "size")
  /\ UNCHANGED <<leaving, size, overlap, nowConnection, allowConnection, infoVars>>

\* channelUnregistered, also of a connection that was refused: removeClient.
Unregister(c) ==
  /\ pc[c] \in {"up", "refused"} /\ LoopFree(c)
  /\ leaving' = [leaving EXCEPT ![c] = TRUE]
  /\ clients' = clients \ {c}
  /\ Goto(c, "size")
  /\ NoteOverlap
  /\ UNCHANGED <<size, nowConnection, allowConnection, infoVars>>

\* Both addClient and removeClient end by counting the clients ...
ReadSize(c) ==
  /\ pc[c] = "size"
  /\ size' = [size EXCEPT ![c] = Cardinality(clients)]
  /\ Goto(c, "now")
  /\ UNCHANGED <<leaving, overlap, socketVars, infoVars>>

\* Mutant: the number is kept by counting up at every event.
WriteNowUp(c) ==
  /\ pc[c] = "now"
  /\ nowConnection' = nowConnection + 1
  /\ Goto(c, "gate")
  /\ UNCHANGED <<leaving, size, overlap, clients, allowConnection, infoVars>>

\* Mutant: only addClient writes the number.
WriteNowAdd(c) ==
  /\ pc[c] = "now"
  /\ nowConnection' = IF leaving[c] THEN nowConnection ELSE size[c]
  /\ Goto(c, "gate")
  /\ UNCHANGED <<leaving, size, overlap, clients, allowConnection, infoVars>>

\* ... writing the number down ...
WriteNow(c) ==
  /\ pc[c] = "now"
  /\ nowConnection' = size[c]
  /\ Goto(c, "gate")
  /\ UNCHANGED <<leaving, size, overlap, clients, allowConnection, infoVars>>

\* ... and opening or closing the gate.
WriteGate(c) ==
  /\ pc[c] = "gate"
  /\ allowConnection' = (Max # nowConnection)
  /\ Goto(c, IF leaving[c] THEN "outline" ELSE "up")
  /\ UNCHANGED <<leaving, size, overlap, clients, nowConnection, infoVars>>

OutLine(c) ==
  /\ pc[c] = "outline"
  /\ lines' = lines \ {c}
  /\ Goto(c, "forget")
  /\ UNCHANGED <<leaving, size, overlap, socketVars, umi, modelInfos, met>>

RemoveModelInfo(c) ==
  /\ pc[c] = "forget"
  /\ modelInfos' = modelInfos \ {c}
  /\ Goto(c, "gone")
  /\ UNCHANGED <<leaving, size, overlap, socketVars, umi, lines, met>>

-----------------------------------------------------------------------------
(* umi: the module uploads its info once; a pool thread handles it, sooner *)
(* or later, whatever has become of the connection.                        *)

ChannelRead(c) ==
  /\ pc[c] = "up" /\ umi[c] = "none" /\ LoopFree(c)
  /\ umi' = [umi EXCEPT ![c] = "scan"]
  /\ UNCHANGED <<handlerVars, socketVars, lines, modelInfos, met>>

\* The listed infos of the module of c, of this connection or another.
InfosOf(c) == {d \in modelInfos : d = c \/ IpOf[d] = IpOf[c]}

\* Mutant: the scan gives up on any listed info.
ScanInfosAny(c) ==
  /\ umi[c] = "scan"
  /\ umi' = [umi EXCEPT ![c] = IF modelInfos # {} THEN "line" ELSE "add"]
  /\ met' = [met EXCEPT ![c] = InfosOf(c)]
  /\ UNCHANGED <<handlerVars, socketVars, lines, modelInfos>>

\* addModelInfo returns when the channel name or the ip is listed.
ScanInfos(c) ==
  /\ umi[c] = "scan"
  /\ umi' = [umi EXCEPT ![c] = IF InfosOf(c) # {} THEN "line" ELSE "add"]
  /\ met' = [met EXCEPT ![c] = InfosOf(c)]
  /\ UNCHANGED <<handlerVars, socketVars, lines, modelInfos>>

AddInfo(c) ==
  /\ umi[c] = "add"
  /\ modelInfos' = modelInfos \cup {c}
  /\ umi' = [umi EXCEPT ![c] = "line"]
  /\ UNCHANGED <<handlerVars, socketVars, lines, met>>

OnLine(c) ==
  /\ umi[c] = "line"
  /\ lines' = lines \cup {c}
  /\ umi' = [umi EXCEPT ![c] = "done"]
  /\ UNCHANGED <<handlerVars, socketVars, modelInfos, met>>

\* The steps of a handler that has started.
Handle(c) ==
  \/ AddClient(c) \/ ReadSize(c) \/ WriteNow(c) \/ WriteGate(c)
  \/ OutLine(c) \/ RemoveModelInfo(c)

Next ==
  \E c \in Conns :
    \/ GetServer(c) \/ Register(c) \/ Unregister(c) \/ Handle(c)
    \/ ChannelRead(c) \/ ScanInfos(c) \/ AddInfo(c) \/ OnLine(c)

Spec == Init /\ [][Next]_vars

-----------------------------------------------------------------------------
(* Properties.                                                             *)

\* nowConnection, "the current number of connections", and allowConnection say
\* what clients says whenever no handler counts, unless the handlers that
\* counted last ran over each other on two event loops: unlocked counters are
\* wrong only then, and the next handler that counts alone repairs them,
\* whatever it finds.
GateAgrees ==
  (\A c \in Conns : pc[c] \notin Counting) /\ ~overlap =>
    /\ nowConnection = Cardinality(clients)
    /\ allowConnection <=> Cardinality(clients) # Max

\* A connected module whose upload is over is listed under this connection, or
\* the scan of its upload met the info of another connection of the module that
\* is listed still or has gone since.  Only a module that uploads again before
\* its old connection is unregistered becomes unknown, whatever other modules do.
ListedUntilOldLeaves ==
  \A c \in Conns : pc[c] = "up" /\ umi[c] = "done" =>
    c \in modelInfos \/ \E d \in met[c] \ {c} : d \in modelInfos \/ pc[d] = "gone"

\* There are never more clients than tm.socket.maxconnection allows.  It does
\* not hold: with two event loops the check in channelRegistered and the gate's
\* update interleave (see the finding).
LimitKept == Cardinality(clients) <= Max

\* A module that is connected and whose upload has been answered is found with
\* a channel that works, whenever no register or unregister handler runs:
\* compensation can reach it.  It does not hold: a module that connects again
\* before its old connection is unregistered stays unknown (see the finding).
OnlineKnown ==
  (\A c \in Conns : pc[c] \notin Running) =>
    \A c \in Conns : pc[c] = "up" /\ umi[c] = "done" =>
      \E d \in modelInfos : IpOf[d] = IpOf[c] /\ pc[d] = "up"
=============================================================================
