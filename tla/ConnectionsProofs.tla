------------------------- MODULE ConnectionsProofs -------------------------
(***************************************************************************)
(* Proofs about Connections, for any connections, limit and event loops:   *)
(* the types, what the counter and the gate say, who is in clients, and    *)
(* when a module's info is listed.                                         *)
(***************************************************************************)
EXTENDS Connections, FiniteSetTheorems, TLAPS

-----------------------------------------------------------------------------
(* The inductive invariants.                                               *)

\* As long as no handler that counts began during another, only one counts.
InvAlone ==
  ~overlap => \A c, d \in Conns : {pc[c], pc[d]} \subseteq Counting => c = d

\* Such a handler passes on the size of clients: it reads it, writes the number
\* and then the gate, and clients stays as it was.
InvPassed ==
  ~overlap => \A c \in Conns : /\ pc[c] = "now"  => size[c] = Cardinality(clients)
                               /\ pc[c] = "gate" => nowConnection = Cardinality(clients)

CountInv == TypeOK /\ InvAlone /\ InvPassed /\ GateAgrees

\* From its scan on, the info of a connection that is not gone is listed, or one
\* of those its scan met is, or was until that connection went.
InvListed ==
  \A c \in Conns : umi[c] \in {"line", "done"} /\ pc[c] # "gone" =>
    c \in modelInfos \/ \E d \in met[c] \ {c} : d \in modelInfos \/ pc[d] = "gone"

ListInv == TypeOK /\ InvListed

\* The connections that were let in and have not begun to leave.
Admitted == {c \in Conns : ~leaving[c] /\ pc[c] \in {"size", "now", "gate", "up"}}

ClientInv ==
  /\ TypeOK
  /\ clients = Admitted
  /\ \A c \in Conns : pc[c] \in {"new", "told", "add", "up", "refused"} => ~leaving[c]

-----------------------------------------------------------------------------
(* Types.                                                                  *)

\* The sizes clients may have.
LEMMA ClientSizes ==
  ASSUME NEW S \in SUBSET Conns
  PROVE  /\ IsFiniteSet(S)
         /\ Cardinality(S) \in 0 .. Cardinality(Conns)
<1>1. IsFiniteSet(S) /\ Cardinality(S) <= Cardinality(Conns)
  BY ConnsAssumption, FS_Subset
<1>2. Cardinality(S) \in Nat /\ Cardinality(Conns) \in Nat
  BY <1>1, ConnsAssumption, FS_CardinalityType
<1> QED
  BY <1>1, <1>2

\* Initially every variable has its type.
LEMMA TypeInit == Init => TypeOK
<1>1. Cardinality({}) = 0 /\ 0 \in 0 .. Cardinality(Conns)
  BY ClientSizes, FS_EmptySet
<1> QED
  BY <1>1 DEF Init, TypeOK, Phases

\* Every step keeps the types.
LEMMA TypeNext == TypeOK /\ [Next]_vars => TypeOK'
<1> SUFFICES ASSUME TypeOK, [Next]_vars PROVE TypeOK'
  OBVIOUS
<1> USE DEF TypeOK, Phases, Running, NoteOverlap, handlerVars, socketVars, infoVars
<1>1. ASSUME NEW c \in Conns, Handle(c) PROVE TypeOK'
  <2>1. CASE AddClient(c)
    BY <2>1 DEF AddClient, Goto
  <2>2. CASE ReadSize(c)
    BY <2>2, ClientSizes DEF ReadSize, Goto
  <2>3. CASE WriteNow(c)
    BY <2>3 DEF WriteNow, Goto
  <2>4. CASE WriteGate(c)
    BY <2>4 DEF WriteGate, Goto
  <2>5. CASE OutLine(c)
    BY <2>5 DEF OutLine, Goto
  <2>6. CASE RemoveModelInfo(c)
    BY <2>6 DEF RemoveModelInfo, Goto
  <2> QED
    BY <1>1, <2>1, <2>2, <2>3, <2>4, <2>5, <2>6 DEF Handle
<1>2. ASSUME NEW c \in Conns, GetServer(c) PROVE TypeOK'
  BY <1>2 DEF GetServer, Goto
<1>3. ASSUME NEW c \in Conns, Register(c) PROVE TypeOK'
  BY <1>3 DEF Register, Goto, LoopFree
<1>4. ASSUME NEW c \in Conns, Unregister(c) PROVE TypeOK'
  BY <1>4 DEF Unregister, Goto, LoopFree
<1>5. ASSUME NEW c \in Conns, ChannelRead(c) PROVE TypeOK'
  BY <1>5 DEF ChannelRead
<1>6. ASSUME NEW c \in Conns, ScanInfos(c) PROVE TypeOK'
  BY <1>6 DEF ScanInfos, InfosOf
<1>7. ASSUME NEW c \in Conns, AddInfo(c) PROVE TypeOK'
  BY <1>7 DEF AddInfo
<1>8. ASSUME NEW c \in Conns, OnLine(c) PROVE TypeOK'
  BY <1>8 DEF OnLine
<1>9. CASE UNCHANGED vars
  BY <1>9 DEF vars
<1> QED
  BY <1>1, <1>2, <1>3, <1>4, <1>5, <1>6, <1>7, <1>8, <1>9 DEF Next

\* No variable of the registry leaves its type, however the handlers interleave.
THEOREM TypeCorrect == Spec => []TypeOK
<1> QED
  BY TypeInit, TypeNext, PTL DEF Spec

-----------------------------------------------------------------------------
(* The counter and the gate.                                               *)

\* A handler that counts alone is alone until it has counted.
LEMMA AloneNext ==
  ASSUME CountInv, [Next]_vars
  PROVE  InvAlone'
<1> USE DEF CountInv, TypeOK, InvAlone, Counting, handlerVars, socketVars, infoVars
<1>1. ASSUME NEW c \in Conns, Handle(c) PROVE InvAlone'
  <2>1. CASE AddClient(c)
    BY <2>1 DEF AddClient, Goto
  <2>2. CASE ReadSize(c)
    BY <2>2 DEF ReadSize, Goto
  <2>3. CASE WriteNow(c)
    BY <2>3 DEF WriteNow, Goto
  <2>4. CASE WriteGate(c)
    BY <2>4 DEF WriteGate, Goto
  <2>5. CASE OutLine(c)
    BY <2>5 DEF OutLine, Goto
  <2>6. CASE RemoveModelInfo(c)
    BY <2>6 DEF RemoveModelInfo, Goto
  <2> QED
    BY <1>1, <2>1, <2>2, <2>3, <2>4, <2>5, <2>6 DEF Handle
<1>2. ASSUME NEW c \in Conns, GetServer(c) PROVE InvAlone'
  BY <1>2 DEF GetServer, Goto
<1>3. ASSUME NEW c \in Conns, Register(c) PROVE InvAlone'
  <2>1. CASE /\ pc[c] = "told" /\ pc' = [pc EXCEPT ![c] = "add"]
             /\ overlap' = (\E d \in Conns : pc[d] \in Counting)
             /\ UNCHANGED <<leaving, size, socketVars, infoVars>>
    BY <2>1
  <2>2. CASE /\ pc[c] = "told" /\ pc' = [pc EXCEPT ![c] = "refused"]
             /\ UNCHANGED <<leaving, size, overlap, socketVars, infoVars>>
    BY <2>2
  <2> QED
    BY <1>3, <2>1, <2>2 DEF Register, Goto, NoteOverlap
<1>4. ASSUME NEW c \in Conns, Unregister(c) PROVE InvAlone'
  BY <1>4 DEF Unregister, Goto, NoteOverlap
<1>5. ASSUME NEW c \in Conns, ChannelRead(c) PROVE InvAlone'
  BY <1>5 DEF ChannelRead
<1>6. ASSUME NEW c \in Conns, ScanInfos(c) PROVE InvAlone'
  BY <1>6 DEF ScanInfos, InfosOf
<1>7. ASSUME NEW c \in Conns, AddInfo(c) PROVE InvAlone'
  BY <1>7 DEF AddInfo
<1>8. ASSUME NEW c \in Conns, OnLine(c) PROVE InvAlone'
  BY <1>8 DEF OnLine
<1>9. CASE UNCHANGED vars
  BY <1>9 DEF vars
<1> QED
  BY <1>1, <1>2, <1>3, <1>4, <1>5, <1>6, <1>7, <1>8, <1>9 DEF Next

\* It passes on the size it has read, and leaves counter and gate as they should be.
LEMMA CountNext ==
  ASSUME CountInv, [Next]_vars
  PROVE  InvPassed' /\ GateAgrees'
<1> USE DEF CountInv, TypeOK, InvAlone, InvPassed, GateAgrees, Counting, handlerVars, socketVars, infoVars
<1>1. ASSUME NEW c \in Conns, Handle(c) PROVE InvPassed' /\ GateAgrees'
  <2>1. CASE AddClient(c)
    BY <2>1 DEF AddClient, Goto
  <2>2. CASE ReadSize(c)
    BY <2>2 DEF ReadSize, Goto
  <2>3. CASE WriteNow(c)
    BY <2>3 DEF WriteNow, Goto
  <2>4. CASE WriteGate(c)
    BY <2>4 DEF WriteGate, Goto
  <2>5. CASE OutLine(c)
    BY <2>5 DEF OutLine, Goto
  <2>6. CASE RemoveModelInfo(c)
    BY <2>6 DEF RemoveModelInfo, Goto
  <2> QED
    BY <1>1, <2>1, <2>2, <2>3, <2>4, <2>5, <2>6 DEF Handle
<1>2. ASSUME NEW c \in Conns, GetServer(c) PROVE InvPassed' /\ GateAgrees'
  BY <1>2 DEF GetServer, Goto
<1>3. ASSUME NEW c \in Conns, Register(c) PROVE InvPassed' /\ GateAgrees'
  <2>1. CASE /\ pc[c] = "told" /\ pc' = [pc EXCEPT ![c] = "add"]
             /\ overlap' = (\E d \in Conns : pc[d] \in Counting)
             /\ UNCHANGED <<leaving, size, socketVars, infoVars>>
    BY <2>1
  <2>2. CASE /\ pc[c] = "told" /\ pc' = [pc EXCEPT ![c] = "refused"]
             /\ UNCHANGED <<leaving, size, overlap, socketVars, infoVars>>
    BY <2>2
  <2> QED
    BY <1>3, <2>1, <2>2 DEF Register, Goto, NoteOverlap
<1>4. ASSUME NEW c \in Conns, Unregister(c) PROVE InvPassed' /\ GateAgrees'
  BY <1>4 DEF Unregister, Goto, NoteOverlap
<1>5. ASSUME NEW c \in Conns, ChannelRead(c) PROVE InvPassed' /\ GateAgrees'
  BY <1>5 DEF ChannelRead
<1>6. ASSUME NEW c \in Conns, ScanInfos(c) PROVE InvPassed' /\ GateAgrees'
  BY <1>6 DEF ScanInfos, InfosOf
<1>7. ASSUME NEW c \in Conns, AddInfo(c) PROVE InvPassed' /\ GateAgrees'
  BY <1>7 DEF AddInfo
<1>8. ASSUME NEW c \in Conns, OnLine(c) PROVE InvPassed' /\ GateAgrees'
  BY <1>8 DEF OnLine
<1>9. CASE UNCHANGED vars
  BY <1>9 DEF vars
<1> QED
  BY <1>1, <1>2, <1>3, <1>4, <1>5, <1>6, <1>7, <1>8, <1>9 DEF Next

\* On any event loops, the counter and the gate say what clients says whenever
\* no handler counts, unless the last ones that counted ran over each other:
\* refused connections and their unregistering included.
THEOREM GateHolds == Spec => []GateAgrees
<1>1. Init => CountInv
  <2> SUFFICES ASSUME Init PROVE CountInv
    OBVIOUS
  <2>1. Cardinality(clients) = 0
    BY FS_EmptySet DEF Init
  <2> QED
    BY <2>1, TypeInit, ConnsAssumption DEF Init, CountInv, InvAlone, InvPassed, GateAgrees, Counting
<1>2. CountInv /\ [Next]_vars => CountInv'
  BY TypeNext, AloneNext, CountNext DEF CountInv
<1>3. CountInv => GateAgrees
  BY DEF CountInv
<1> QED
  BY <1>1, <1>2, <1>3, PTL DEF Spec

-----------------------------------------------------------------------------
(* clients is exact.                                                       *)

\* A connection enters clients only when let in and leaves it when it leaves.
LEMMA ClientNext == ClientInv /\ [Next]_vars => ClientInv'
<1> SUFFICES ASSUME ClientInv, [Next]_vars PROVE ClientInv'
  OBVIOUS
<1>0. TypeOK'
  BY TypeNext DEF ClientInv
<1> USE <1>0 DEF ClientInv, TypeOK, Admitted, Phases, Running, NoteOverlap, handlerVars, socketVars, infoVars
<1>1. ASSUME NEW c \in Conns, Handle(c) PROVE ClientInv'
  <2>1. CASE AddClient(c)
    BY <2>1 DEF AddClient, Goto
  <2>2. CASE ReadSize(c)
    BY <2>2 DEF ReadSize, Goto
  <2>3. CASE WriteNow(c)
    BY <2>3 DEF WriteNow, Goto
  <2>4. CASE WriteGate(c)
    BY <2>4 DEF WriteGate, Goto
  <2>5. CASE OutLine(c)
    BY <2>5 DEF OutLine, Goto
  <2>6. CASE RemoveModelInfo(c)
    BY <2>6 DEF RemoveModelInfo, Goto
  <2> QED
    BY <1>1, <2>1, <2>2, <2>3, <2>4, <2>5, <2>6 DEF Handle
<1>2. ASSUME NEW c \in Conns, GetServer(c) PROVE ClientInv'
  BY <1>2 DEF GetServer, Goto
<1>3. ASSUME NEW c \in Conns, Register(c) PROVE ClientInv'
  BY <1>3 DEF Register, Goto, LoopFree
<1>4. ASSUME NEW c \in Conns, Unregister(c) PROVE ClientInv'
  BY <1>4 DEF Unregister, Goto, LoopFree
<1>5. ASSUME NEW c \in Conns, ChannelRead(c) PROVE ClientInv'
  BY <1>5 DEF ChannelRead
<1>6. ASSUME NEW c \in Conns, ScanInfos(c) PROVE ClientInv'
  BY <1>6 DEF ScanInfos, InfosOf
<1>7. ASSUME NEW c \in Conns, AddInfo(c) PROVE ClientInv'
  BY <1>7 DEF AddInfo
<1>8. ASSUME NEW c \in Conns, OnLine(c) PROVE ClientInv'
  BY <1>8 DEF OnLine
<1>9. CASE UNCHANGED vars
  BY <1>9 DEF vars
<1> QED
  BY <1>1, <1>2, <1>3, <1>4, <1>5, <1>6, <1>7, <1>8, <1>9 DEF Next

\* However the handlers of different event loops interleave, clients holds the
\* connections that were let in and have not begun to leave, and no other: what
\* goes wrong with two loops is the counter and the gate, never the list.
THEOREM ClientsExact == Spec => [](clients = Admitted)
<1>1. Init => ClientInv
  BY TypeInit DEF Init, ClientInv, Admitted
<1>2. ClientInv => clients = Admitted
  BY DEF ClientInv
<1> QED
  BY <1>1, <1>2, ClientNext, PTL DEF Spec

-----------------------------------------------------------------------------
(* Modules that connect again.                                             *)

\* Only the end of a connection takes its info away.
LEMMA ListedNext ==
  ASSUME ListInv, [Next]_vars
  PROVE  InvListed'
<1> USE DEF ListInv, TypeOK, InvListed, handlerVars, socketVars, infoVars
<1>1. ASSUME NEW c \in Conns, Handle(c) PROVE InvListed'
  <2>1. CASE AddClient(c)
    BY <2>1 DEF AddClient, Goto
  <2>2. CASE ReadSize(c)
    BY <2>2 DEF ReadSize, Goto
  <2>3. CASE WriteNow(c)
    BY <2>3 DEF WriteNow, Goto
  <2>4. CASE WriteGate(c)
    BY <2>4 DEF WriteGate, Goto
  <2>5. CASE OutLine(c)
    BY <2>5 DEF OutLine, Goto
  <2>6. CASE RemoveModelInfo(c)
    BY <2>6 DEF RemoveModelInfo, Goto
  <2> QED
    BY <1>1, <2>1, <2>2, <2>3, <2>4, <2>5, <2>6 DEF Handle
<1>2. ASSUME NEW c \in Conns, GetServer(c) PROVE InvListed'
  BY <1>2 DEF GetServer, Goto
<1>3. ASSUME NEW c \in Conns, Register(c) PROVE InvListed'
  <2>1. CASE /\ pc[c] = "told" /\ pc' = [pc EXCEPT ![c] = "add"]
             /\ overlap' = (\E d \in Conns : pc[d] \in Counting)
             /\ UNCHANGED <<leaving, size, socketVars, infoVars>>
    BY <2>1
  <2>2. CASE /\ pc[c] = "told" /\ pc' = [pc EXCEPT ![c] = "refused"]
             /\ UNCHANGED <<leaving, size, overlap, socketVars, infoVars>>
    BY <2>2
  <2> QED
    BY <1>3, <2>1, <2>2 DEF Register, Goto, NoteOverlap
<1>4. ASSUME NEW c \in Conns, Unregister(c) PROVE InvListed'
  BY <1>4 DEF Unregister, Goto, NoteOverlap
<1>5. ASSUME NEW c \in Conns, ChannelRead(c) PROVE InvListed'
  BY <1>5 DEF ChannelRead
<1>6. ASSUME NEW c \in Conns, ScanInfos(c) PROVE InvListed'
  BY <1>6 DEF ScanInfos, InfosOf
<1>7. ASSUME NEW c \in Conns, AddInfo(c) PROVE InvListed'
  BY <1>7 DEF AddInfo
<1>8. ASSUME NEW c \in Conns, OnLine(c) PROVE InvListed'
  BY <1>8 DEF OnLine
<1>9. CASE UNCHANGED vars
  BY <1>9 DEF vars
<1> QED
  BY <1>1, <1>2, <1>3, <1>4, <1>5, <1>6, <1>7, <1>8, <1>9 DEF Next

\* A connected module whose upload is over is listed, unless its upload met the
\* info of another of its connections which has gone since: however often it
\* connects, on whatever event loops.
THEOREM ListedHolds == Spec => []ListedUntilOldLeaves
<1>1. Init => ListInv
  BY TypeInit DEF Init, ListInv, InvListed
<1>2. ListInv /\ [Next]_vars => ListInv'
  BY TypeNext, ListedNext DEF ListInv
<1>3. ListInv => ListedUntilOldLeaves
  BY DEF ListInv, InvListed, ListedUntilOldLeaves
<1> QED
  BY <1>1, <1>2, <1>3, PTL DEF Spec
=============================================================================
