------------------------------ MODULE MqttPush ------------------------------
(***************************************************************************)
(* Commands to one device through MqIotUtils of uusmart_agreement, in the  *)
(* device service: mqIotPushMsgAndGetResult pushes a command and blocks    *)
(* its caller on a latch; HandeMqIotMsgTimeOut sends the command a second  *)
(* time and then gives it up; handleCallBack, on a thread of its own for   *)
(* each answer, releases the caller.  A command nobody answered is saved   *)
(* to t_cache_msg and pushed again when the device logs in                 *)
(* (handleCacheMessage).                                                   *)
(*                                                                         *)
(* A message is <<run, command>>: the MqIotMessage object with which a run *)
(* pushes the command.  The token a device repeats in its answer is that   *)
(* of the command, so the objects of one command share it.  Steps of       *)
(* different threads that commute are one action: putting an entry and     *)
(* pushing, scheduling the timeout and noting its future, containsKey and  *)
(* the first get.                                                          *)
(***************************************************************************)
EXTENDS Naturals, FiniteSets

CONSTANTS
  Cmds,     \* commands for the device, each with a token of its own
  Direct,   \* the run that pushes a command for the first time
  Logins,   \* login messages of the device, each with its handleCacheMessage
  MaxAnswers,   \* bound on the answers of the device
  Codes,    \* the codes a device answers with
  Pool,     \* threads of MqIotUtils.timer
  NoMsg     \* no entry in PUSH_MSG_MAP

Ok   == 1            \* mainStatus.SUCCESS
Final == {22003, 22004}   \* the error codes after which a cached command is dropped
MSG_TIME_OUT_MAX == 2

\* Answers, and the threads that handle them, in the order of their arrival.
Answers == 1 .. MaxAnswers

Runs == Logins \cup {Direct}
Msgs == Runs \X Cmds

ASSUME CmdsAssumption  == IsFiniteSet(Cmds) /\ Cmds # {} /\ IsFiniteSet(Logins)
ASSUME RunsAssumption  == Direct \notin Logins /\ NoMsg \notin Msgs
ASSUME CodesAssumption == Codes \subseteq Nat /\ Ok \in Codes
ASSUME PoolAssumption  == Pool \in Nat \ {0} /\ MaxAnswers \in Nat

Cmd(m) == m[2]

\* MqIotMessage.isCache: set for a first push only.
IsCache(m) == m[1] = Direct

VARIABLES
  callback,      \* what the client calls: the Spring "bean", or a "bare" new CallBack()
  login,         \* per login: "no", "begun" or "ignored"
  todo,          \* per login: cached commands its loop has still to push
  cacheMessage,  \* t_cache_msg: commands saved for the device
  caller,        \* per message: where the thread that pushes it stands
  again,         \* per message: where the timer thread of its first timeout stands
  last,          \* per message: where the timer thread of its last timeout stands
  timer,         \* messages with a timeout in the queue of the timer
  reSendNumber, status, errorCode,   \* fields of each message
  latch,         \* messages whose latch is counted down
  respBody,      \* messages whose respBody is set
  turned,        \* messages handleAdditionalData has turned into a response
  pushMsgMap,    \* PUSH_MSG_MAP: per command, the message under its token
  wire,          \* commands the broker may deliver to the device, once or often
  answer,        \* per answer thread: where it stands, its command, code, message
  replied,       \* commands the device has answered
  cleared        \* commands it has answered with success or a final error

loginVars == <<callback, login>>
rowVars  == <<todo, cacheMessage>>
threadVars == <<caller, again, last, timer>>
answered == <<replied, cleared>>
msgVars  == <<reSendNumber, status, errorCode, latch, respBody, turned>>
netVars  == <<pushMsgMap, wire, answer, answered>>
vars == <<loginVars, rowVars, threadVars, msgVars, netVars>>

AnswerStates == {"idle", "got", "coded", "looked", "removed", "done"}

TypeOK ==
  /\ callback \in {"bean", "bare"}
  /\ login \in [Logins -> {"no", "begun", "ignored"}]
  /\ todo \in [Logins -> SUBSET Cmds]
  /\ cacheMessage \subseteq Cmds
  /\ caller \in [Msgs -> {"new", "sched", "await", "delete", "over"}]
  /\ again \in [Msgs -> {"no", "send", "sched", "await", "over"}]
  /\ last \in [Msgs -> {"no", "expire", "cache", "over"}]
  /\ timer \subseteq Msgs
  /\ reSendNumber \in [Msgs -> 1 .. MSG_TIME_OUT_MAX]
  /\ status \in [Msgs -> {0, 1, 2, 9}]
  /\ errorCode \in [Msgs -> {0} \cup Codes]
  /\ latch \subseteq Msgs /\ respBody \subseteq Msgs /\ turned \subseteq respBody
  /\ pushMsgMap \in [Cmds -> Msgs \cup {NoMsg}]
  /\ wire \subseteq Cmds
  /\ answer \in [Answers -> [pc : AnswerStates, cmd : Cmds, code : Codes,
                             msg : Msgs \cup {NoMsg}]]
  /\ replied \subseteq Cmds /\ cleared \subseteq replied

\* An answer thread that holds nothing.
Blank(pc) == [pc |-> pc, cmd |-> CHOOSE c \in Cmds : TRUE, code |-> Ok, msg |-> NoMsg]

\* The service starts connected, with commands an earlier life has saved.
Init ==
  /\ callback = "bean"
  /\ login = [l \in Logins |-> "no"]
  /\ todo = [l \in Logins |-> {}]
  /\ cacheMessage \in SUBSET Cmds
  /\ caller = [m \in Msgs |-> IF m[1] = Direct /\ Cmd(m) \in cacheMessage
                              THEN "over" ELSE "new"]
  /\ again = [m \in Msgs |-> "no"]
  /\ last = [m \in Msgs |-> "no"]
  /\ timer = {}
  /\ reSendNumber = [m \in Msgs |-> 1]
  /\ status = [m \in Msgs |-> 0]
  /\ errorCode = [m \in Msgs |-> 0]
  /\ latch = {} /\ respBody = {} /\ turned = {}
  /\ pushMsgMap = [c \in Cmds |-> NoMsg]
  /\ wire = cacheMessage
  /\ answer = [a \in Answers |-> Blank("idle")]
  /\ replied = {} /\ cleared = {}

-----------------------------------------------------------------------------
(* The connection to the broker and the login of the device.               *)

\* connectionLost: the client reconnects with a new CallBack().  What is pushed
\* before it is connected again is lost, as any message may be.
ConnectionLost ==
  /\ callback = "bean"
  /\ callback' = "bare"
  /\ UNCHANGED <<login, rowVars, threadVars, msgVars, netVars>>

\* The device's login arrives: messageArrived, handle and handelDeviceLogin up to
\* the query of handleCacheMessage.  A CallBack that is no bean has no
\* serviceConfig and throws at its first use.
HandleLogin(l) ==
  /\ login[l] = "no"
  /\ login' = [login EXCEPT ![l] = IF callback = "bean" THEN "begun" ELSE "ignored"]
  /\ todo' = [todo EXCEPT ![l] = IF callback = "bean" THEN cacheMessage ELSE {}]
  /\ UNCHANGED <<callback, cacheMessage, threadVars, msgVars, netVars>>

-----------------------------------------------------------------------------
(* mqIotPushMsgAndGetResult on the caller's thread.                        *)

\* Put the entry, over any other of the token, and push.  A message whose
\* respBody is set goes out as a response to its own sender, who ends with a
\* NullPointerException, as there is no code in it.
Send(m) ==
  /\ pushMsgMap' = [pushMsgMap EXCEPT ![Cmd(m)] = m]
  /\ turned' = turned \cup ({m} \cap respBody)
  /\ wire' = IF m \in respBody THEN wire ELSE wire \cup {Cmd(m)}

\* The loop of a login's run is between two messages.
BetweenMessages(l) == \A c \in Cmds : caller[<<l, c>>] \in {"new", "over"}

Push(m) ==
  /\ caller[m] = "new"
  /\ m[1] # Direct => BetweenMessages(m[1]) /\ Cmd(m) \in todo[m[1]]
  /\ Send(m)
  /\ caller' = [caller EXCEPT ![m] = "sched"]
  /\ UNCHANGED <<loginVars, rowVars, again, last, timer, reSendNumber, status,
                 errorCode, latch, respBody, answer, answered>>

Schedule(m) ==
  /\ caller[m] = "sched"
  /\ timer' = timer \cup {m}
  /\ caller' = [caller EXCEPT ![m] = "await"]
  /\ UNCHANGED <<loginVars, rowVars, again, last, msgVars, netVars>>

\* Mutant: the code of the error is not looked at.
SettledAny(m) == status[m] # 2

\* What handleCacheMessage asks of a message that came back.
Settled(m) == status[m] = Ok \/ errorCode[m] \in Final

\* await returns; the loop of a login goes on to delete the row or to its next.
Return(m) ==
  /\ caller[m] = "await" /\ m \in latch
  /\ LET delete == m[1] # Direct /\ Settled(m)
     IN /\ caller' = [caller EXCEPT ![m] = IF delete THEN "delete" ELSE "over"]
        /\ todo' = IF m[1] = Direct \/ delete THEN todo
                   ELSE [todo EXCEPT ![m[1]] = @ \ {Cmd(m)}]
  /\ UNCHANGED <<loginVars, cacheMessage, again, last, timer, msgVars, netVars>>

\* delete(cid) throws when the row is gone, and the run ends there.
DeleteRow(m) ==
  /\ caller[m] = "delete"
  /\ cacheMessage' = cacheMessage \ {Cmd(m)}
  /\ todo' = [todo EXCEPT ![m[1]] = IF Cmd(m) \in cacheMessage THEN @ \ {Cmd(m)} ELSE {}]
  /\ caller' = [caller EXCEPT ![m] = "over"]
  /\ UNCHANGED <<loginVars, again, last, timer, msgVars, netVars>>

-----------------------------------------------------------------------------
(* HandeMqIotMsgTimeOut on a thread of the timer pool.                     *)

\* Threads that run a timeout, those that await a latch included.
BusyThreads ==
  Cardinality({m \in Msgs : again[m] \notin {"no", "over"}})
    + Cardinality({m \in Msgs : last[m] \notin {"no", "over"}})

\* A thread of the pool takes m's timeout, which is due.
Take(m) ==
  /\ m \in timer /\ BusyThreads < Pool
  /\ timer' = timer \ {m}

\* Mutant: one more try than MSG_TIME_OUT_MAX.
FireFirstMore(m) ==
  /\ reSendNumber[m] <= MSG_TIME_OUT_MAX
  /\ Take(m)
  /\ reSendNumber' = [reSendNumber EXCEPT ![m] = @ + 1]
  /\ again' = [again EXCEPT ![m] = "send"]
  /\ UNCHANGED <<loginVars, rowVars, caller, last, status, errorCode, latch,
                 respBody, turned, netVars>>

FireFirst(m) ==
  /\ reSendNumber[m] < MSG_TIME_OUT_MAX
  /\ Take(m)
  /\ reSendNumber' = [reSendNumber EXCEPT ![m] = @ + 1]
  /\ again' = [again EXCEPT ![m] = "send"]
  /\ UNCHANGED <<loginVars, rowVars, caller, last, status, errorCode, latch,
                 respBody, turned, netVars>>

SendAgain(m) ==
  /\ again[m] = "send"
  /\ Send(m)
  /\ again' = [again EXCEPT ![m] = "sched"]
  /\ UNCHANGED <<loginVars, rowVars, caller, last, timer, reSendNumber, status,
                 errorCode, latch, respBody, answer, answered>>

ScheduleAgain(m) ==
  /\ again[m] = "sched"
  /\ timer' = timer \cup {m}
  /\ again' = [again EXCEPT ![m] = "await"]
  /\ UNCHANGED <<loginVars, rowVars, caller, last, msgVars, netVars>>

EndAgain(m) ==
  /\ again[m] = "await" /\ m \in latch
  /\ again' = [again EXCEPT ![m] = "over"]
  /\ UNCHANGED <<loginVars, rowVars, caller, last, timer, msgVars, netVars>>

FireLast(m) ==
  /\ reSendNumber[m] = MSG_TIME_OUT_MAX
  /\ Take(m)
  /\ last' = [last EXCEPT ![m] = "expire"]
  /\ UNCHANGED <<loginVars, rowVars, caller, again, msgVars, netVars>>

\* Mutant: the latch is left to the answer that may still come.
GiveUpSilent(m) ==
  /\ last[m] = "expire"
  /\ status' = [status EXCEPT ![m] = 2]
  /\ last' = [last EXCEPT ![m] = "cache"]
  /\ UNCHANGED <<loginVars, rowVars, caller, again, timer, reSendNumber, errorCode,
                 latch, respBody, turned, netVars>>

GiveUp(m) ==
  /\ last[m] = "expire"
  /\ status' = [status EXCEPT ![m] = 2]
  /\ latch' = latch \cup {m}
  /\ last' = [last EXCEPT ![m] = "cache"]
  /\ UNCHANGED <<loginVars, rowVars, caller, again, timer, reSendNumber, errorCode,
                 respBody, turned, netVars>>

\* Mutant: an entry that is gone from the map is taken for answered in time.
CacheListed(m) ==
  /\ last[m] = "cache"
  /\ cacheMessage' = IF IsCache(m) /\ pushMsgMap[Cmd(m)] # m
                     THEN cacheMessage \cup {Cmd(m)} ELSE cacheMessage
  /\ last' = [last EXCEPT ![m] = "over"]
  /\ UNCHANGED <<loginVars, todo, caller, again, timer, msgVars, netVars>>

\* Save the command unless an answer came after all.  A message turned into a
\* response is saved under the sender's address, where no login finds it.
Cache(m) ==
  /\ last[m] = "cache"
  /\ cacheMessage' = IF IsCache(m) /\ status[m] # Ok /\ m \notin turned
                     THEN cacheMessage \cup {Cmd(m)} ELSE cacheMessage
  /\ last' = [last EXCEPT ![m] = "over"]
  /\ UNCHANGED <<loginVars, todo, caller, again, timer, msgVars, netVars>>

-----------------------------------------------------------------------------
(* handleCallBack, onSuccess and onFail, one thread for each answer.       *)

\* The device has a copy of c and answers with code; the answer arrives.
\* Without an entry under the token handleCallBack returns false.
Arrive(a, c, code) ==
  /\ answer[a].pc = "idle" /\ c \in wire
  /\ \A b \in Answers : b < a => answer[b].pc # "idle"
  /\ replied' = replied \cup {c}
  /\ cleared' = IF code \in Final \cup {Ok} THEN cleared \cup {c} ELSE cleared
  /\ LET m == pushMsgMap[c] IN
       IF callback = "bean" /\ m # NoMsg
       THEN /\ respBody' = respBody \cup {m}
            /\ answer' = [answer EXCEPT ![a] = [pc |-> "got", cmd |-> c, code |-> code, msg |-> m]]
       ELSE /\ answer' = [answer EXCEPT ![a] = Blank("done")]
            /\ UNCHANGED respBody
  /\ UNCHANGED <<loginVars, rowVars, threadVars, reSendNumber, status, errorCode,
                 latch, turned, pushMsgMap, wire>>

\* setErrorCode on the entry of this moment; without one the thread ends with
\* a NullPointerException.
SetErrorCode(a) ==
  /\ answer[a].pc = "got" /\ answer[a].code # Ok
  /\ LET m == pushMsgMap[answer[a].cmd] IN
       IF m = NoMsg
       THEN /\ answer' = [answer EXCEPT ![a] = Blank("done")]
            /\ UNCHANGED errorCode
       ELSE /\ errorCode' = [errorCode EXCEPT ![m] = answer[a].code]
            /\ answer' = [answer EXCEPT ![a].pc = "coded"]
  /\ UNCHANGED <<loginVars, rowVars, threadVars, reSendNumber, status, latch, respBody,
                 turned, pushMsgMap, wire, answered>>

\* The call back is taken from the entry of this moment as well.
Look(a) ==
  /\ \/ answer[a].pc = "coded"
     \/ answer[a].pc = "got" /\ answer[a].code = Ok
  /\ answer' = [answer EXCEPT ![a] =
       IF pushMsgMap[answer[a].cmd] = NoMsg THEN Blank("done") ELSE [@ EXCEPT !.pc = "looked"]]
  /\ UNCHANGED <<loginVars, rowVars, threadVars, msgVars, pushMsgMap, wire, answered>>

\* onSuccess and onFail begin by removing the entry, whosever it is now.
RemoveEntry(a) ==
  /\ answer[a].pc = "looked"
  /\ pushMsgMap' = [pushMsgMap EXCEPT ![answer[a].cmd] = NoMsg]
  /\ answer' = [answer EXCEPT ![a].pc = "removed"]
  /\ UNCHANGED <<loginVars, rowVars, threadVars, msgVars, wire, answered>>

\* Mutant: onFail cancels the timeout and leaves the caller to the retries.
SettleOk(a) ==
  /\ answer[a].pc = "removed"
  /\ LET m == answer[a].msg IN
       /\ status' = [status EXCEPT ![m] = IF answer[a].code = Ok THEN 1 ELSE 9]
       /\ timer' = timer \ {m}
       /\ latch' = IF answer[a].code = Ok THEN latch \cup {m} ELSE latch
  /\ answer' = [answer EXCEPT ![a] = Blank("done")]
  /\ UNCHANGED <<loginVars, rowVars, caller, again, last, reSendNumber, errorCode,
                 respBody, turned, pushMsgMap, wire, answered>>

\* ... set the status, cancel the timeout if it is still queued, and release
\* the threads that wait.
Settle(a) ==
  /\ answer[a].pc = "removed"
  /\ LET m == answer[a].msg IN
       /\ status' = [status EXCEPT ![m] = IF answer[a].code = Ok THEN 1 ELSE 9]
       /\ timer' = timer \ {m}
       /\ latch' = latch \cup {m}
  /\ answer' = [answer EXCEPT ![a] = Blank("done")]
  /\ UNCHANGED <<loginVars, rowVars, caller, again, last, reSendNumber, errorCode,
                 respBody, turned, pushMsgMap, wire, answered>>

-----------------------------------------------------------------------------

\* A step of the thread that pushes m, and one of a timer thread of m.
CallerStep(m) == Push(m) \/ Schedule(m) \/ Return(m) \/ DeleteRow(m)

TimerStep(m) ==
  \/ FireFirst(m) \/ SendAgain(m) \/ ScheduleAgain(m) \/ EndAgain(m)
  \/ FireLast(m) \/ GiveUp(m) \/ Cache(m)

AnswerStep(a) == SetErrorCode(a) \/ Look(a) \/ RemoveEntry(a) \/ Settle(a)

Next ==
  \/ ConnectionLost
  \/ \E l \in Logins : HandleLogin(l)
  \/ \E m \in Msgs : CallerStep(m) \/ TimerStep(m)
  \/ \E a \in Answers :
       \/ \E c \in Cmds, code \in Codes : Arrive(a, c, code)
       \/ AnswerStep(a)

Spec == Init /\ [][Next]_vars

\* While threads that have started can go on, one of them does; as each of them
\* ends, this is all they need.  Whether somebody pushes a command for the first
\* time, the connection stays up and the device logs in or answers is free.
Fairness ==
  WF_vars(\/ \E m \in Msgs : \/ m[1] # Direct /\ Push(m)
                            \/ Schedule(m) \/ Return(m) \/ DeleteRow(m) \/ TimerStep(m)
          \/ \E a \in Answers : AnswerStep(a))

FairSpec == Spec /\ Fairness

-----------------------------------------------------------------------------
(* Properties.                                                             *)

\* Somebody will still count m's latch down: its timeout is queued or a thread
\* is about to queue it, a timer thread has begun to give it up, or an answer
\* thread has m in hand.
Attended(m) ==
  \/ m \in timer
  \/ again[m] \in {"send", "sched"}
  \/ last[m] = "expire"
  \/ \E a \in Answers : answer[a].pc \in {"looked", "removed"} /\ answer[a].msg = m

\* The threads that wait for an answer, callers and timer threads alike.
Waiting == {m \in Msgs : "await" \in {caller[m], again[m]}}

\* A thread that waits for an answer is never forgotten, although an answer
\* cancels only the timeout it knows of, and an answer that meets the entry of
\* another message of the same token takes that entry away.
WaiterHeld ==
  \A m \in Waiting \ latch : Attended(m)

\* No timer thread has m, and none will.
Quiet(m) == m \notin timer /\ {again[m], last[m]} \subseteq {"no", "over"}

\* When all is over with the first push of a command, and after any logins,
\* the command is in t_cache_msg unless the device has answered it.
CommandKept ==
  \A c \in Cmds : LET m == <<Direct, c>> IN
    caller[m] = "over" /\ Quiet(m) /\ c \notin replied => c \in cacheMessage

\* A login's delivery deletes a cached command only when the device has
\* answered that command with success or a final error, whichever of the
\* messages under its token the answers were for.
DroppedForCause ==
  [][cacheMessage \ cacheMessage' \subseteq cleared]_vars

\* Every thread that waits returns; as messages are finitely many and each is
\* waited for once, nobody waits in the end.  It needs a thread of the timer for
\* the last timeouts: a first timeout keeps its thread until the message is settled.
Released == <>[](Waiting = {})

\* A login that reaches the service is handled, whatever became of the
\* connection before it.  The reconnection breaks this: see the finding.
LoginHandled == \A l \in Logins : login[l] # "ignored"
=============================================================================
