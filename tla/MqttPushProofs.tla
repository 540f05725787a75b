--------------------------- MODULE MqttPushProofs ---------------------------
(***************************************************************************)
(* Proofs about MqttPush: type correctness, no thread that waits is        *)
(* forgotten, and no command is lost or dropped without cause, for any     *)
(* commands, logins, codes, number of answers and size of the timer pool.  *)
(***************************************************************************)
EXTENDS MqttPush, TLAPS

-----------------------------------------------------------------------------
(* The conjuncts of the inductive invariant.                               *)

\* An answer thread between its first look at the map and its end holds the
\* message it found under its token.
Holds(a) == answer[a].pc \in {"got", "coded", "looked", "removed"}

InvTypes ==
  /\ TypeOK
  /\ \A a \in Answers : Holds(a) => answer[a].msg \in Msgs

\* A message has its two timeouts one after the other and each of them once: the
\* last is queued, taken or over only when the first has queued it.
InvTimer ==
  \A m \in Msgs :
    /\ caller[m] \in {"new", "sched"} => m \notin timer /\ again[m] = "no"
    /\ reSendNumber[m] = 1 <=> again[m] = "no"
    /\ again[m] \in {"send", "sched"} => m \notin timer
    /\ again[m] \in {"no", "send", "sched"} => last[m] = "no"
    /\ last[m] # "no" => m \notin timer

\* What is known of a command anywhere comes from an answer to that command,
\* whichever message of its token the answer met.
InvEvidence ==
  /\ \A c \in Cmds : pushMsgMap[c] # NoMsg => Cmd(pushMsgMap[c]) = c
  /\ \A a \in Answers : Holds(a) =>
       /\ Cmd(answer[a].msg) = answer[a].cmd
       /\ answer[a].cmd \in replied
       /\ answer[a].code \in Final \cup {Ok} => answer[a].cmd \in cleared
  /\ \A m \in respBody : Cmd(m) \in replied
  /\ \A m \in Msgs :
       status[m] = Ok \/ errorCode[m] \in Final \/ caller[m] = "delete" => Cmd(m) \in cleared

\* The first push of a command without an answer is released by its last
\* timeout only, and that saves the command.
InvKept ==
  \A c \in Cmds \ replied : LET m == <<Direct, c>> IN
    /\ m \in latch => last[m] \in {"cache", "over"}
    /\ last[m] = "over" => c \in cacheMessage
    /\ caller[m] = "over" => c \in cacheMessage \/ m \in latch

IInv == InvTypes /\ InvTimer /\ WaiterHeld /\ InvEvidence /\ InvKept

-----------------------------------------------------------------------------
(* Types.                                                                  *)

\* The parts of a message, and the messages of a command.
LEMMA MsgParts ==
  /\ \A m \in Msgs : m[1] \in Runs /\ Cmd(m) \in Cmds /\ m = <<m[1], Cmd(m)>>
  /\ \A c \in Cmds : <<Direct, c>> \in Msgs /\ Cmd(<<Direct, c>>) = c
  /\ \A r \in Runs, c \in Cmds : <<r, c>> \in Msgs
  /\ NoMsg \notin Msgs /\ Direct \notin Logins
  BY RunsAssumption DEF Msgs, Runs, Cmd

\* An answer thread that holds nothing is of its type, at its end as before it.
LEMMA BlankType ==
  ASSUME NEW pc \in AnswerStates
  PROVE  /\ Blank(pc) \in [pc : AnswerStates, cmd : Cmds, code : Codes,
                           msg : Msgs \cup {NoMsg}]
         /\ Blank(pc).pc = pc
<1>1. (CHOOSE c \in Cmds : TRUE) \in Cmds
  BY CmdsAssumption
<1> QED
  BY <1>1, CodesAssumption DEF Blank

\* Initially every variable has its type and nothing has begun.
LEMMA TypesInit == Init => InvTypes
<1> SUFFICES ASSUME Init PROVE InvTypes
  OBVIOUS
<1>1. Blank("idle") \in [pc : AnswerStates, cmd : Cmds, code : Codes, msg : Msgs \cup {NoMsg}]
      /\ Blank("idle").pc = "idle"
  BY BlankType DEF AnswerStates
<1>2. TypeOK
  BY <1>1 DEF Init, TypeOK, MSG_TIME_OUT_MAX
<1> QED
  BY <1>1, <1>2 DEF Init, InvTypes, Holds

\* Sending keeps the types of what it changes.
LEMMA SendTypes ==
  ASSUME TypeOK, NEW m \in Msgs, Send(m)
  PROVE  /\ pushMsgMap' \in [Cmds -> Msgs \cup {NoMsg}]
         /\ wire' \subseteq Cmds
         /\ turned' \subseteq respBody
  BY MsgParts DEF TypeOK, Send

\* Every step keeps the types, and an answer thread its message.
LEMMA TypesNext == InvTypes /\ [Next]_vars => InvTypes'
<1> SUFFICES ASSUME InvTypes, [Next]_vars PROVE InvTypes'
  OBVIOUS
<1> USE DEF InvTypes, TypeOK, Holds, loginVars, rowVars, threadVars, answered, msgVars, netVars
<1>1. CASE ConnectionLost
  BY <1>1 DEF ConnectionLost
<1>2. ASSUME NEW l \in Logins, HandleLogin(l) PROVE InvTypes'
  BY <1>2 DEF HandleLogin
<1>3. ASSUME NEW m \in Msgs, CallerStep(m) PROVE InvTypes'
  <2>1. CASE Push(m)
    BY <2>1, SendTypes DEF Push
  <2>2. CASE Schedule(m)
    BY <2>2 DEF Schedule
  <2>3. CASE Return(m)
    BY <2>3, MsgParts DEF Return, Runs
  <2>4. CASE DeleteRow(m)
    BY <2>4, MsgParts DEF DeleteRow, Runs
  <2> QED
    BY <1>3, <2>1, <2>2, <2>3, <2>4 DEF CallerStep
<1>4. ASSUME NEW m \in Msgs, TimerStep(m) PROVE InvTypes'
  <2>1. CASE FireFirst(m)
    BY <2>1 DEF FireFirst, Take, MSG_TIME_OUT_MAX
  <2>2. CASE SendAgain(m)
    BY <2>2, SendTypes DEF SendAgain
  <2>3. CASE ScheduleAgain(m)
    BY <2>3 DEF ScheduleAgain
  <2>4. CASE EndAgain(m)
    BY <2>4 DEF EndAgain
  <2>5. CASE FireLast(m)
    BY <2>5 DEF FireLast, Take
  <2>6. CASE GiveUp(m)
    BY <2>6 DEF GiveUp
  <2>7. CASE Cache(m)
    BY <2>7, MsgParts DEF Cache
  <2> QED
    BY <1>4, <2>1, <2>2, <2>3, <2>4, <2>5, <2>6, <2>7 DEF TimerStep
<1>5. ASSUME NEW a \in Answers, NEW c \in Cmds, NEW code \in Codes, Arrive(a, c, code)
      PROVE  InvTypes'
  <2>1. Blank("done") \in [pc : AnswerStates, cmd : Cmds, code : Codes, msg : Msgs \cup {NoMsg}]
        /\ Blank("done").pc = "done"
    BY BlankType DEF AnswerStates
  <2>2. CASE callback = "bean" /\ pushMsgMap[c] # NoMsg
    BY <1>5, <2>2 DEF Arrive, AnswerStates
  <2>3. CASE ~(callback = "bean" /\ pushMsgMap[c] # NoMsg)
    <3>1. /\ answer' = [answer EXCEPT ![a] = Blank("done")]
          /\ UNCHANGED <<loginVars, rowVars, threadVars, msgVars, pushMsgMap, wire>>
          /\ replied' = replied \cup {c}
          /\ cleared' \in {cleared, cleared \cup {c}}
      BY <1>5, <2>3 DEF Arrive
    <3>2. answer' \in [Answers -> [pc : AnswerStates, cmd : Cmds, code : Codes,
                                   msg : Msgs \cup {NoMsg}]]
      BY <2>1, <3>1
    <3>3. \A b \in Answers : Holds(b)' => answer'[b].msg \in Msgs
      BY <2>1, <3>1
    <3> QED
      BY <3>1, <3>2, <3>3
  <2> QED
    BY <2>2, <2>3
<1>6. ASSUME NEW a \in Answers, AnswerStep(a) PROVE InvTypes'
  <2>0. Blank("done") \in [pc : AnswerStates, cmd : Cmds, code : Codes, msg : Msgs \cup {NoMsg}]
        /\ Blank("done").pc = "done"
    BY BlankType DEF AnswerStates
  <2>1. CASE SetErrorCode(a)
    <3>1. CASE pushMsgMap[answer[a].cmd] = NoMsg
      BY <2>0, <2>1, <3>1 DEF SetErrorCode
    <3>2. CASE pushMsgMap[answer[a].cmd] # NoMsg
      <4>1. /\ errorCode' = [errorCode EXCEPT ![pushMsgMap[answer[a].cmd]] = answer[a].code]
            /\ answer' = [answer EXCEPT ![a].pc = "coded"]
            /\ Holds(a)
            /\ UNCHANGED <<loginVars, rowVars, threadVars, reSendNumber, status, latch,
                           respBody, turned, pushMsgMap, wire, answered>>
        BY <2>1, <3>2 DEF SetErrorCode
      <4>2. errorCode' \in [Msgs -> {0} \cup Codes]
        BY <4>1, <3>2
      <4>3. answer' \in [Answers -> [pc : AnswerStates, cmd : Cmds, code : Codes,
                                     msg : Msgs \cup {NoMsg}]]
        <5>1. answer \in [Answers -> [pc : AnswerStates, cmd : Cmds, code : Codes,
                                      msg : Msgs \cup {NoMsg}]]
          OBVIOUS
        <5>2. answer' = [answer EXCEPT ![a].pc = "coded"]
          BY <4>1
        <5> QED
          BY ONLY <5>1, <5>2 DEF AnswerStates
      <4>4. \A b \in Answers : Holds(b)' => answer'[b].msg \in Msgs
        BY <4>1
      <4> QED
        BY <4>1, <4>2, <4>3, <4>4
    <3> QED
      BY <3>1, <3>2
  <2>2. CASE Look(a)
    <3>1. CASE pushMsgMap[answer[a].cmd] = NoMsg
      BY <2>0, <2>2, <3>1 DEF Look
    <3>2. CASE pushMsgMap[answer[a].cmd] # NoMsg
      BY <2>2, <3>2 DEF Look, AnswerStates
    <3> QED
      BY <3>1, <3>2
  <2>3. CASE RemoveEntry(a)
    BY <2>3 DEF RemoveEntry, AnswerStates
  <2>4. CASE Settle(a)
    BY <2>0, <2>4 DEF Settle
  <2> QED
    BY <1>6, <2>1, <2>2, <2>3, <2>4 DEF AnswerStep
<1>7. CASE UNCHANGED vars
  BY <1>7 DEF vars
<1> QED
  BY <1>1, <1>2, <1>3, <1>4, <1>5, <1>6, <1>7 DEF Next

-----------------------------------------------------------------------------
(* The timeouts, and the threads that wait.                                *)

\* Every step keeps the order of a message's two timeouts.
LEMMA TimerNext == InvTypes /\ InvTimer /\ [Next]_vars => InvTimer'
<1> SUFFICES ASSUME InvTypes, InvTimer, [Next]_vars PROVE InvTimer'
  OBVIOUS
<1> USE DEF InvTypes, TypeOK, InvTimer, loginVars, rowVars, threadVars, answered, msgVars, netVars
<1>1. CASE ConnectionLost
  BY <1>1 DEF ConnectionLost
<1>2. ASSUME NEW l \in Logins, HandleLogin(l) PROVE InvTimer'
  BY <1>2 DEF HandleLogin
<1>3. ASSUME NEW m \in Msgs, CallerStep(m) PROVE InvTimer'
  <2>1. CASE Push(m)
    BY <2>1 DEF Push, Send
  <2>2. CASE Schedule(m)
    BY <2>2 DEF Schedule
  <2>3. CASE Return(m)
    BY <2>3 DEF Return, Settled
  <2>4. CASE DeleteRow(m)
    BY <2>4 DEF DeleteRow
  <2> QED
    BY <1>3, <2>1, <2>2, <2>3, <2>4 DEF CallerStep
<1>4. ASSUME NEW m \in Msgs, TimerStep(m) PROVE InvTimer'
  <2>1. CASE FireFirst(m)
    BY <2>1 DEF FireFirst, Take, MSG_TIME_OUT_MAX
  <2>2. CASE SendAgain(m)
    BY <2>2 DEF SendAgain, Send
  <2>3. CASE ScheduleAgain(m)
    BY <2>3 DEF ScheduleAgain
  <2>4. CASE EndAgain(m)
    BY <2>4 DEF EndAgain
  <2>5. CASE FireLast(m)
    BY <2>5 DEF FireLast, Take, MSG_TIME_OUT_MAX
  <2>6. CASE GiveUp(m)
    BY <2>6 DEF GiveUp
  <2>7. CASE Cache(m)
    BY <2>7 DEF Cache
  <2> QED
    BY <1>4, <2>1, <2>2, <2>3, <2>4, <2>5, <2>6, <2>7 DEF TimerStep
<1>5. ASSUME NEW a \in Answers, NEW c \in Cmds, NEW code \in Codes, Arrive(a, c, code)
      PROVE  InvTimer'
  BY <1>5 DEF Arrive
<1>6. ASSUME NEW a \in Answers, AnswerStep(a) PROVE InvTimer'
  <2>1. CASE SetErrorCode(a)
    BY <2>1 DEF SetErrorCode
  <2>2. CASE Look(a)
    BY <2>2 DEF Look
  <2>3. CASE RemoveEntry(a)
    BY <2>3 DEF RemoveEntry
  <2>4. CASE Settle(a)
    BY <2>4 DEF Settle
  <2> QED
    BY <1>6, <2>1, <2>2, <2>3, <2>4 DEF AnswerStep
<1>7. CASE UNCHANGED vars
  BY <1>7 DEF vars
<1> QED
  BY <1>1, <1>2, <1>3, <1>4, <1>5, <1>6, <1>7 DEF Next

\* Who held an answer thread's message goes on holding it, or has released it.
LEMMA WaiterNext == InvTypes /\ InvTimer /\ WaiterHeld /\ [Next]_vars => WaiterHeld'
<1> SUFFICES ASSUME InvTypes, InvTimer, WaiterHeld, [Next]_vars PROVE WaiterHeld'
  OBVIOUS
<1> USE DEF InvTypes, TypeOK, WaiterHeld, Waiting, Attended, loginVars, rowVars, threadVars, answered, msgVars, netVars
<1>1. CASE ConnectionLost
  BY <1>1 DEF ConnectionLost
<1>2. ASSUME NEW l \in Logins, HandleLogin(l) PROVE WaiterHeld'
  BY <1>2 DEF HandleLogin
<1>3. ASSUME NEW m \in Msgs, CallerStep(m) PROVE WaiterHeld'
  <2>1. CASE Push(m)
    BY <2>1 DEF Push, Send
  <2>2. CASE Schedule(m)
    BY <2>2 DEF Schedule
  <2>3. CASE Return(m)
    BY <2>3 DEF Return, Settled
  <2>4. CASE DeleteRow(m)
    BY <2>4 DEF DeleteRow
  <2> QED
    BY <1>3, <2>1, <2>2, <2>3, <2>4 DEF CallerStep
<1>4. ASSUME NEW m \in Msgs, TimerStep(m) PROVE WaiterHeld'
  <2>1. CASE FireFirst(m)
    BY <2>1 DEF FireFirst, Take, MSG_TIME_OUT_MAX
  <2>2. CASE SendAgain(m)
    BY <2>2 DEF SendAgain, Send
  <2>3. CASE ScheduleAgain(m)
    BY <2>3 DEF ScheduleAgain
  <2>4. CASE EndAgain(m)
    BY <2>4 DEF EndAgain
  <2>5. CASE FireLast(m)
    BY <2>5 DEF FireLast, Take, MSG_TIME_OUT_MAX
  <2>6. CASE GiveUp(m)
    BY <2>6 DEF GiveUp
  <2>7. CASE Cache(m)
    BY <2>7 DEF Cache
  <2> QED
    BY <1>4, <2>1, <2>2, <2>3, <2>4, <2>5, <2>6, <2>7 DEF TimerStep
<1>5. ASSUME NEW a \in Answers, NEW c \in Cmds, NEW code \in Codes, Arrive(a, c, code)
      PROVE  WaiterHeld'
  BY <1>5 DEF Arrive
<1>6. ASSUME NEW a \in Answers, AnswerStep(a) PROVE WaiterHeld'
  <2>1. CASE SetErrorCode(a)
    BY <2>1 DEF SetErrorCode
  <2>2. CASE Look(a)
    BY <2>2 DEF Look
  <2>3. CASE RemoveEntry(a)
    BY <2>3 DEF RemoveEntry
  <2>4. CASE Settle(a)
    BY <2>4 DEF Settle
  <2> QED
    BY <1>6, <2>1, <2>2, <2>3, <2>4 DEF AnswerStep
<1>7. CASE UNCHANGED vars
  BY <1>7 DEF vars
<1> QED
  BY <1>1, <1>2, <1>3, <1>4, <1>5, <1>6, <1>7 DEF Next

-----------------------------------------------------------------------------
(* What is known of a command, and what becomes of it.                     *)

\* Every step records of a command only what an answer to it said.
LEMMA EvidenceNext == InvTypes /\ InvEvidence /\ [Next]_vars => InvEvidence'
<1> SUFFICES ASSUME InvTypes, InvEvidence, [Next]_vars PROVE InvEvidence'
  OBVIOUS
<1> USE MsgParts DEF InvTypes, TypeOK, InvEvidence, Holds, loginVars, rowVars, threadVars, answered, msgVars, netVars
<1>1. CASE ConnectionLost
  BY <1>1 DEF ConnectionLost
<1>2. ASSUME NEW l \in Logins, HandleLogin(l) PROVE InvEvidence'
  BY <1>2 DEF HandleLogin
<1>3. ASSUME NEW m \in Msgs, CallerStep(m) PROVE InvEvidence'
  <2>1. CASE Push(m)
    BY <2>1 DEF Push, Send
  <2>2. CASE Schedule(m)
    BY <2>2 DEF Schedule
  <2>3. CASE Return(m)
    BY <2>3 DEF Return, Settled
  <2>4. CASE DeleteRow(m)
    BY <2>4 DEF DeleteRow
  <2> QED
    BY <1>3, <2>1, <2>2, <2>3, <2>4 DEF CallerStep
<1>4. ASSUME NEW m \in Msgs, TimerStep(m) PROVE InvEvidence'
  <2>1. CASE FireFirst(m)
    BY <2>1 DEF FireFirst, Take, MSG_TIME_OUT_MAX
  <2>2. CASE SendAgain(m)
    BY <2>2 DEF SendAgain, Send
  <2>3. CASE ScheduleAgain(m)
    BY <2>3 DEF ScheduleAgain
  <2>4. CASE EndAgain(m)
    BY <2>4 DEF EndAgain
  <2>5. CASE FireLast(m)
    BY <2>5 DEF FireLast, Take, MSG_TIME_OUT_MAX
  <2>6. CASE GiveUp(m)
    BY <2>6 DEF GiveUp, Ok
  <2>7. CASE Cache(m)
    BY <2>7 DEF Cache
  <2> QED
    BY <1>4, <2>1, <2>2, <2>3, <2>4, <2>5, <2>6, <2>7 DEF TimerStep
<1>5. ASSUME NEW a \in Answers, NEW c \in Cmds, NEW code \in Codes, Arrive(a, c, code)
      PROVE  InvEvidence'
  <2>0. Blank("done").pc = "done"
    BY BlankType DEF AnswerStates
  <2>1. /\ replied' = replied \cup {c}
        /\ cleared' = IF code \in Final \cup {Ok} THEN cleared \cup {c} ELSE cleared
        /\ UNCHANGED <<pushMsgMap, status, errorCode, caller>>
    BY <1>5 DEF Arrive
  <2>2. CASE callback = "bean" /\ pushMsgMap[c] # NoMsg
    <3>1. /\ respBody' = respBody \cup {pushMsgMap[c]}
          /\ answer' = [answer EXCEPT ![a] = [pc |-> "got", cmd |-> c, code |-> code,
                                              msg |-> pushMsgMap[c]]]
      BY <1>5, <2>2 DEF Arrive
    <3>2. Cmd(pushMsgMap[c]) = c
      BY <2>2
    <3> QED
      BY <2>1, <3>1, <3>2
  <2>3. CASE ~(callback = "bean" /\ pushMsgMap[c] # NoMsg)
    <3>1. respBody' = respBody /\ answer' = [answer EXCEPT ![a] = Blank("done")]
      BY <1>5, <2>3 DEF Arrive
    <3> QED
      BY <2>0, <2>1, <3>1
  <2> QED
    BY <2>2, <2>3
<1>6. ASSUME NEW a \in Answers, AnswerStep(a) PROVE InvEvidence'
  <2>1. CASE SetErrorCode(a)
    <3>0. Blank("done").pc = "done"
      BY BlankType DEF AnswerStates
    <3>1. CASE pushMsgMap[answer[a].cmd] = NoMsg
      BY <2>1, <3>0, <3>1 DEF SetErrorCode
    <3>2. CASE pushMsgMap[answer[a].cmd] # NoMsg
      <4>1. Holds(a) /\ answer[a].cmd \in Cmds /\ Cmd(pushMsgMap[answer[a].cmd]) = answer[a].cmd
        BY <2>1, <3>2 DEF SetErrorCode
      <4>2. /\ errorCode' = [errorCode EXCEPT ![pushMsgMap[answer[a].cmd]] = answer[a].code]
            /\ answer' = [answer EXCEPT ![a].pc = "coded"]
            /\ UNCHANGED <<pushMsgMap, respBody, status, caller, replied, cleared>>
        BY <2>1, <3>2 DEF SetErrorCode
      <4>3. \A b \in Answers : answer'[b].msg = answer[b].msg /\ answer'[b].cmd = answer[b].cmd
                               /\ answer'[b].code = answer[b].code /\ (Holds(b)' => Holds(b))
        BY <4>1, <4>2
      <4>4. \A m \in Msgs : errorCode'[m] \in Final => Cmd(m) \in cleared
        BY <4>1, <4>2
      <4> QED
        BY <4>2, <4>3, <4>4
    <3> QED
      BY <3>1, <3>2
  <2>2. CASE Look(a)
    <3>0. Blank("done").pc = "done"
      BY BlankType DEF AnswerStates
    <3>1. CASE pushMsgMap[answer[a].cmd] = NoMsg
      BY <2>2, <3>0, <3>1 DEF Look
    <3>2. CASE pushMsgMap[answer[a].cmd] # NoMsg
      BY <2>2, <3>2 DEF Look
    <3> QED
      BY <3>1, <3>2
  <2>3. CASE RemoveEntry(a)
    BY <2>3 DEF RemoveEntry
  <2>4. CASE Settle(a)
    <3>1. Blank("done").pc = "done"
      BY BlankType DEF AnswerStates
    <3>2. /\ answer[a].pc = "removed"
          /\ status' = [status EXCEPT ![answer[a].msg] = IF answer[a].code = Ok THEN 1 ELSE 9]
          /\ answer' = [answer EXCEPT ![a] = Blank("done")]
          /\ UNCHANGED <<pushMsgMap, respBody, errorCode, caller, replied, cleared>>
      BY <2>4 DEF Settle
    <3>3. \A b \in Answers : Holds(b)' => Holds(b) /\ answer'[b] = answer[b]
      BY <3>1, <3>2
    <3>4. \A m \in Msgs : status'[m] = Ok => Cmd(m) \in cleared
      BY <3>2 DEF Ok
    <3> QED
      BY <3>2, <3>3, <3>4
  <2> QED
    BY <1>6, <2>1, <2>2, <2>3, <2>4 DEF AnswerStep
<1>7. CASE UNCHANGED vars
  BY <1>7 DEF vars
<1> QED
  BY <1>1, <1>2, <1>3, <1>4, <1>5, <1>6, <1>7 DEF Next

\* Every step keeps a first push whose command has no answer from being lost.
LEMMA KeptNext ==
  InvTypes /\ InvTimer /\ InvEvidence /\ InvKept /\ [Next]_vars => InvKept'
<1> SUFFICES ASSUME InvTypes, InvTimer, InvEvidence, InvKept, [Next]_vars PROVE InvKept'
  OBVIOUS
<1> USE MsgParts DEF InvTypes, TypeOK, InvKept, loginVars, rowVars, threadVars, answered, msgVars, netVars
<1>1. CASE ConnectionLost
  BY <1>1 DEF ConnectionLost
<1>2. ASSUME NEW l \in Logins, HandleLogin(l) PROVE InvKept'
  BY <1>2 DEF HandleLogin
<1>3. ASSUME NEW m \in Msgs, CallerStep(m) PROVE InvKept'
  <2>1. CASE Push(m)
    BY <2>1 DEF Push, Send
  <2>2. CASE Schedule(m)
    BY <2>2 DEF Schedule
  <2>3. CASE Return(m)
    BY <2>3 DEF Return, Settled
  <2>4. CASE DeleteRow(m)
    BY <2>4 DEF DeleteRow, InvEvidence
  <2> QED
    BY <1>3, <2>1, <2>2, <2>3, <2>4 DEF CallerStep
<1>4. ASSUME NEW m \in Msgs, TimerStep(m) PROVE InvKept'
  <2>1. CASE FireFirst(m)
    BY <2>1 DEF FireFirst, Take, MSG_TIME_OUT_MAX
  <2>2. CASE SendAgain(m)
    BY <2>2 DEF SendAgain, Send
  <2>3. CASE ScheduleAgain(m)
    BY <2>3 DEF ScheduleAgain
  <2>4. CASE EndAgain(m)
    BY <2>4 DEF EndAgain
  <2>5. CASE FireLast(m)
    BY <2>5 DEF FireLast, Take, MSG_TIME_OUT_MAX, InvTimer
  <2>6. CASE GiveUp(m)
    BY <2>6 DEF GiveUp
  <2>7. CASE Cache(m)
    BY <2>7 DEF Cache, IsCache, InvEvidence
  <2> QED
    BY <1>4, <2>1, <2>2, <2>3, <2>4, <2>5, <2>6, <2>7 DEF TimerStep
<1>5. ASSUME NEW a \in Answers, NEW c \in Cmds, NEW code \in Codes, Arrive(a, c, code)
      PROVE  InvKept'
  BY <1>5 DEF Arrive
<1>6. ASSUME NEW a \in Answers, AnswerStep(a) PROVE InvKept'
  <2>1. CASE SetErrorCode(a)
    BY <2>1 DEF SetErrorCode
  <2>2. CASE Look(a)
    BY <2>2 DEF Look
  <2>3. CASE RemoveEntry(a)
    BY <2>3 DEF RemoveEntry
  <2>4. CASE Settle(a)
    <3>1. answer[a].msg \in Msgs /\ Cmd(answer[a].msg) \in replied
      BY <2>4 DEF Settle, Holds, InvEvidence
    <3>2. /\ latch' = latch \cup {answer[a].msg}
          /\ UNCHANGED <<cacheMessage, caller, last, replied>>
      BY <2>4 DEF Settle
    <3> QED
      BY <3>1, <3>2
  <2> QED
    BY <1>6, <2>1, <2>2, <2>3, <2>4 DEF AnswerStep
<1>7. CASE UNCHANGED vars
  BY <1>7 DEF vars
<1> QED
  BY <1>1, <1>2, <1>3, <1>4, <1>5, <1>6, <1>7 DEF Next

-----------------------------------------------------------------------------
(* The theorems.                                                           *)

\* The inductive invariant holds initially.
LEMMA InvInit == Init => IInv
<1> SUFFICES ASSUME Init PROVE IInv
  OBVIOUS
<1>1. InvTypes
  BY TypesInit
<1>2. InvTimer /\ WaiterHeld
  BY DEF Init, InvTimer, WaiterHeld, Waiting
<1>3. InvEvidence
  <2>1. \A a \in Answers : ~Holds(a)
    BY BlankType DEF Init, Holds, AnswerStates
  <2> QED
    BY <2>1 DEF Init, InvEvidence, Ok, Final
<1>4. InvKept
  BY MsgParts DEF Init, InvKept
<1> QED
  BY <1>1, <1>2, <1>3, <1>4 DEF IInv

\* The inductive invariant holds in every reachable state, for any commands,
\* logins, answers and codes and any size of the timer pool.
THEOREM Invariance == Spec => []IInv
<1>1. Init => IInv
  BY InvInit
<1>2. IInv /\ [Next]_vars => IInv'
  BY TypesNext, TimerNext, WaiterNext, EvidenceNext, KeptNext DEF IInv
<1> QED
  BY <1>1, <1>2, PTL DEF Spec

\* Every variable of the command library keeps its type: in particular no field
\* of a message is written for an entry that is not in PUSH_MSG_MAP.
THEOREM TypeCorrect == Spec => []TypeOK
<1>1. IInv => TypeOK
  BY DEF IInv, InvTypes
<1> QED
  BY <1>1, Invariance, PTL

\* Whoever waits in mqIotPushMsgAndGetResult or in a first timeout, and is not
\* yet released, has a timeout queued or a thread at work that releases him,
\* although the messages of one command share their entry in PUSH_MSG_MAP.
THEOREM WaitersHeld == Spec => []WaiterHeld
<1>1. IInv => WaiterHeld
  BY DEF IInv
<1> QED
  BY <1>1, Invariance, PTL

\* A command pushed for the first time that the device has never answered is in
\* t_cache_msg when its threads are through, whatever the retries and the logins
\* of the device did meanwhile.
THEOREM CommandsKept == Spec => []CommandKept
<1>1. IInv => CommandKept
  BY MsgParts DEF IInv, InvTypes, TypeOK, InvKept, CommandKept, Quiet
<1> QED
  BY <1>1, Invariance, PTL

\* A step that deletes a cached command follows an answer of the device to that
\* command, with success or a final error.
LEMMA DeletesForCause ==
  IInv /\ [Next]_vars => [cacheMessage \ cacheMessage' \subseteq cleared]_vars
<1> SUFFICES ASSUME IInv, Next PROVE cacheMessage \ cacheMessage' \subseteq cleared
  OBVIOUS
<1>1. ASSUME NEW m \in Msgs, DeleteRow(m) PROVE cacheMessage \ cacheMessage' \subseteq cleared
  BY <1>1 DEF IInv, InvEvidence, DeleteRow
<1>2. ASSUME NEW m \in Msgs, ~DeleteRow(m), CallerStep(m) \/ TimerStep(m)
      PROVE  cacheMessage \subseteq cacheMessage'
  BY <1>2 DEF CallerStep, TimerStep, Push, Schedule, Return, FireFirst, SendAgain,
              ScheduleAgain, EndAgain, FireLast, GiveUp, Cache, rowVars
<1>3. ASSUME NEW a \in Answers,
             (\E c \in Cmds, code \in Codes : Arrive(a, c, code)) \/ AnswerStep(a)
      PROVE  cacheMessage' = cacheMessage
  BY <1>3 DEF Arrive, AnswerStep, SetErrorCode, Look, RemoveEntry, Settle, rowVars
<1>4. ASSUME ConnectionLost \/ \E l \in Logins : HandleLogin(l)
      PROVE  cacheMessage' = cacheMessage
  BY <1>4 DEF ConnectionLost, HandleLogin, rowVars
<1> QED
  BY <1>1, <1>2, <1>3, <1>4 DEF Next

\* handleCacheMessage never deletes a command the device has not answered so,
\* even when the answer met the message of another run of that command.
THEOREM RowsDroppedForCause == Spec => DroppedForCause
<1>1. IInv /\ [Next]_vars => [cacheMessage \ cacheMessage' \subseteq cleared]_vars
  BY DeletesForCause
<1> QED
  BY <1>1, Invariance, PTL DEF Spec, DroppedForCause
=============================================================================
