---------------------------- MODULE Compensation ----------------------------
(***************************************************************************)
(* What becomes of a compensation record (CompensateServiceImpl): the      *)
(* automatic attempts, the administrator's manual ones, the re-runs of the *)
(* transaction they cause, and reloadCompensate, which decides for every   *)
(* call of a re-run whether it commits.                                    *)
(*                                                                         *)
(* The module TxManager treats one run of a group; here a re-run is three  *)
(* steps of that protocol: it opens its group, closes it, and the starter  *)
(* answers the command.  The client that re-runs the method is outside     *)
(* src/; it takes one command at a time.                                   *)
(***************************************************************************)
EXTENDS Naturals, Sequences, FiniteSets

CONSTANTS
  Keys,        \* what identifies a call in a record: model and method
  MaxCalls,    \* bound on the calls of the transaction
  AutoThread,  \* the thread of autoCompensate
  Admins,      \* administrators that press compensate
  SameOrder    \* re-runs make their calls in the recorded order

\* The bounds are numbers, administrators are finitely many, and the automatic
\* thread is none of them.
ASSUME CompensationAssumption ==
  /\ MaxCalls \in Nat
  /\ SameOrder \in BOOLEAN
  /\ IsFiniteSet(Admins) /\ AutoThread \notin Admins

MaxTries == 3     \* autoCompensate breaks when executeCount = 3
MaxWork  == 2     \* bound: twice is as wrong as any more

Executors == Admins \cup {AutoThread}
Commands  == Executors \X (1 .. MaxTries)

CallLists == UNION {[1 .. n -> Keys] : n \in 0 .. MaxCalls}
Infos     == [key : Keys, notify : {0, 1}]

VARIABLES
  recorded,    \* the list of the recorded group
  calls,       \* the keys of the calls a re-run makes, in its order
  origin,      \* per call of a re-run: the recorded position it repeats
  kept,        \* the record is in redis
  dropped,     \* history: an administrator deleted it
  work,        \* per recorded call: how often its work has been committed
  exec,        \* per executor: where it stands
  tries,       \* per executor: the commands it has sent
  got,         \* per executor: the answer its task was given
  run,         \* per command: where the re-run it causes stands
  told         \* what autoCompensate reported to the business side

recordVars == <<recorded, calls, origin>>
execVars   == <<exec, tries, got>>
vars == <<recordVars, kept, dropped, work, execVars, run, told>>

ExecStates == {"idle", "try", "await", "decide", "sleep", "delete", "notify", "done"}
RunStates  == {"none", "sent", "normal", "compensate", "ok", "failed", "over"}

TypeOK ==
  /\ Len(recorded) <= MaxCalls /\ Len(calls) <= MaxCalls
  /\ \A i \in DOMAIN recorded : recorded[i] \in Infos
  /\ kept \in BOOLEAN /\ dropped \in BOOLEAN
  /\ work \in [DOMAIN calls -> 0 .. MaxWork]
  /\ exec \in [Executors -> ExecStates]
  /\ tries \in [Executors -> 0 .. MaxTries]
  /\ got \in [Executors -> {"none", "1", "0", "-2"}]
  /\ run \in [Commands -> RunStates]
  /\ told \in {"none", "true", "false"}

-----------------------------------------------------------------------------
(* reloadCompensate.                                                       *)

\* The recorded calls a list of keys could repeat, from position p on.
Matches(rec, key, p) == {j \in p + 1 .. Len(rec) : rec[j].key = key}

First(S) == CHOOSE j \in S : \A k \in S : j <= k

\* The one iterator over the record that all calls of the re-run share: where
\* it stands after call i.  A call that finds no match exhausts it.
Iterator(rec, keys) ==
  LET it[i \in 0 .. Len(keys)] ==
        IF i = 0 THEN 0
        ELSE LET M == Matches(rec, keys[i], it[i - 1])
             IN  IF M = {} THEN Len(rec) ELSE First(M)
  IN  it

\* Mutant: a match decides as it decided before.
IsCommitAgain(rec, keys) ==
  [i \in DOMAIN keys |->
     LET it == Iterator(rec, keys)
         M  == Matches(rec, keys[i], it[i - 1])
     IN  IF M # {} /\ rec[First(M)].notify = 1 THEN 1 ELSE 0]

\* Mutant: a match always commits.
IsCommitAlways(rec, keys) ==
  [i \in DOMAIN keys |->
     IF Matches(rec, keys[i], Iterator(rec, keys)[i - 1]) # {} THEN 1 ELSE 0]

\* isCommit of each call: 1 when it is matched with a call that was not
\* notified; the default, and the value of a call that was, is 0.
IsCommit(rec, keys) ==
  [i \in DOMAIN keys |->
     LET it == Iterator(rec, keys)
         M  == Matches(rec, keys[i], it[i - 1])
     IN  IF M # {} /\ rec[First(M)].notify = 0 THEN 1 ELSE 0]

-----------------------------------------------------------------------------

\* The order o of a re-run makes every recorded call once.  Calls of one key,
\* which no record tells apart, keep their order in any case.
Repeats(o, keys) ==
  \A i, j \in DOMAIN o : i < j =>
    /\ o[i] # o[j]
    /\ (SameOrder \/ keys[o[i]] = keys[o[j]]) => o[i] < o[j]

\* A record with calls has the calls of its transaction; one without was left
\* by a group redis no longer held, all of whose members had committed.
Init ==
  /\ \E keys \in CallLists :
       \/ \E notify \in [DOMAIN keys -> {0, 1}] :
            /\ recorded = [i \in DOMAIN keys |-> [key |-> keys[i], notify |-> notify[i]]]
            /\ work = notify
       \/ recorded = <<>> /\ work = [i \in DOMAIN keys |-> 1]
     /\ origin \in {o \in [DOMAIN keys -> DOMAIN keys] : Repeats(o, keys)}
     /\ calls = [i \in DOMAIN keys |-> keys[origin[i]]]
  /\ kept = TRUE
  /\ dropped = FALSE
  /\ exec = [x \in Executors |-> "idle"]
  /\ tries = [x \in Executors |-> 0]
  /\ got = [x \in Executors |-> "none"]
  /\ run = [c \in Commands |-> "none"]
  /\ told = "none"

Goto(x, s) == exec' = [exec EXCEPT ![x] = s]

-----------------------------------------------------------------------------
(* The executors.                                                          *)

\* The callback of a new record: automatic compensation is on and the business
\* side answers success, or nothing happens.
Callback ==
  /\ exec[AutoThread] = "idle"
  /\ Goto(AutoThread, "try") \/ Goto(AutoThread, "done")
  /\ UNCHANGED <<recordVars, kept, dropped, work, tries, got, run, told>>

\* executeCompensate: an administrator's attempt needs the record.
Press(x) ==
  /\ x \in Admins /\ exec[x] = "idle"
  /\ Goto(x, IF kept THEN "try" ELSE "done")
  /\ UNCHANGED <<recordVars, kept, dropped, work, tries, got, run, told>>

\* delCompensate.
Drop ==
  /\ Admins # {} /\ kept
  /\ kept' = FALSE
  /\ dropped' = TRUE
  /\ UNCHANGED <<recordVars, work, execVars, run, told>>

\* _executeCompensate: without a connected module of the record's model it
\* throws, which ends the attempts; otherwise the command is sent.  A channel
\* that has closed since swallows it.
Execute(x) ==
  /\ exec[x] = "try"
  /\ \/ /\ Goto(x, IF x = AutoThread THEN "notify" ELSE "done")
        /\ UNCHANGED <<tries, got, run>>
     \/ /\ Goto(x, "await")
        /\ tries' = [tries EXCEPT ![x] = @ + 1]
        /\ got' = [got EXCEPT ![x] = "none"]
        /\ run' = [run EXCEPT ![<<x, tries[x] + 1>>] = "sent"]
  /\ UNCHANGED <<recordVars, kept, dropped, work, told>>

\* The task's timer: it may have seen the task unanswered just before an
\* answer came, and then replaces the answer the thread has not read yet.
Timeout(x) ==
  /\ exec[x] \in {"await", "decide"} /\ got[x] # "-2"
  /\ got' = [got EXCEPT ![x] = "-2"]
  /\ Goto(x, "decide")
  /\ UNCHANGED <<recordVars, kept, dropped, work, tries, run, told>>

\* Mutant: the record goes whatever the answer.
DecideDelete(x) ==
  /\ exec[x] = "decide"
  /\ Goto(x, IF got[x] = "1" \/ tries[x] = MaxTries \/ x # AutoThread THEN "delete" ELSE "sleep")
  /\ UNCHANGED <<recordVars, kept, dropped, work, tries, got, run, told>>

\* Mutant: executeCount is compared one attempt too late.
DecideLate(x) ==
  /\ exec[x] = "decide"
  /\ Goto(x, IF got[x] = "1" THEN "delete"
             ELSE IF x # AutoThread THEN "done"
             ELSE IF tries[x] > MaxTries THEN "notify" ELSE "sleep")
  /\ UNCHANGED <<recordVars, kept, dropped, work, tries, got, run, told>>

\* Mutant: executeCount is not kept.
DecideForever(x) ==
  /\ exec[x] = "decide"
  /\ Goto(x, IF got[x] = "1" THEN "delete" ELSE IF x = AutoThread THEN "sleep" ELSE "done")
  /\ tries' = [tries EXCEPT ![x] = 0]
  /\ UNCHANGED <<recordVars, kept, dropped, work, got, run, told>>

\* After an answer: "1" deletes the record, anything else is tried again by
\* the automatic thread, three times in all.
Decide(x) ==
  /\ exec[x] = "decide"
  /\ Goto(x, IF got[x] = "1" THEN "delete"
             ELSE IF x # AutoThread THEN "done"
             ELSE IF tries[x] = MaxTries THEN "notify" ELSE "sleep")
  /\ UNCHANGED <<recordVars, kept, dropped, work, tries, got, run, told>>

\* The pause of tm.compensate.tryTime.
Wake ==
  /\ exec[AutoThread] = "sleep"
  /\ Goto(AutoThread, "try")
  /\ UNCHANGED <<recordVars, kept, dropped, work, tries, got, run, told>>

Delete(x) ==
  /\ exec[x] = "delete"
  /\ kept' = FALSE
  /\ Goto(x, IF x = AutoThread THEN "notify" ELSE "done")
  /\ UNCHANGED <<recordVars, dropped, work, tries, got, run, told>>

\* Mutant: only an answer that denies counts as a failure.
NotifyUnlessDenied ==
  /\ exec[AutoThread] = "notify"
  /\ told' = IF got[AutoThread] = "0" THEN "false" ELSE "true"
  /\ Goto(AutoThread, "done")
  /\ UNCHANGED <<recordVars, kept, dropped, work, tries, got, run>>

\* The result is posted to tm.compensate.notifyUrl.
Notify ==
  /\ exec[AutoThread] = "notify"
  /\ told' = IF got[AutoThread] = "1" THEN "true" ELSE "false"
  /\ Goto(AutoThread, "done")
  /\ UNCHANGED <<recordVars, kept, dropped, work, tries, got, run>>

-----------------------------------------------------------------------------
(* The re-runs.                                                            *)

\* The client runs the method again; its group is a compensation when
\* createTransactionGroup finds the record.
Open(c) ==
  /\ run[c] = "sent"
  /\ \A d \in Commands : run[d] \notin {"normal", "compensate"}
  /\ run' = [run EXCEPT ![c] = IF kept THEN "compensate" ELSE "normal"]
  /\ UNCHANGED <<recordVars, kept, dropped, work, execVars, told>>

\* What the close sends to each call of the re-run.  reloadCompensate reads the
\* record again: gone, or empty, it leaves every call at 0.
Commits(c) ==
  {i \in DOMAIN calls :
     \/ run[c] = "normal"
     \/ kept /\ IsCommit(recorded, calls)[i] = 1}

\* Calls that commit once more do the work of the recorded calls they repeat.
Done(S) == [j \in DOMAIN work |->
              IF \E i \in S : origin[i] = j /\ work[j] < MaxWork THEN work[j] + 1 ELSE work[j]]

\* The close is answered "1" when every call has applied its decision;
\* otherwise, or when the method fails before the close, some or none have.
Close(c) ==
  /\ run[c] \in {"normal", "compensate"}
  /\ \/ work' = Done(Commits(c)) /\ run' = [run EXCEPT ![c] = "ok"]
     \/ \E S \in SUBSET Commits(c) :
          work' = Done(S) /\ run' = [run EXCEPT ![c] = "failed"]
  /\ UNCHANGED <<recordVars, kept, dropped, execVars, told>>

\* The answer to the command.  It reaches its own task only, and only while
\* the thread has not read an answer and removed the task.
Reply(c) ==
  /\ run[c] \in {"ok", "failed"}
  /\ LET x == c[1]
     IN  IF exec[x] \in {"await", "decide"} /\ tries[x] = c[2]
         THEN /\ got' = [got EXCEPT ![x] = IF run[c] = "ok" THEN "1" ELSE "0"]
              /\ Goto(x, "decide")
         ELSE UNCHANGED <<got, exec>>
  /\ run' = [run EXCEPT ![c] = "over"]
  /\ UNCHANGED <<recordVars, kept, dropped, work, tries, told>>

Next ==
  \/ Callback \/ Drop \/ Wake \/ Notify
  \/ \E x \in Executors :
       Press(x) \/ Execute(x) \/ Timeout(x) \/ Decide(x) \/ Delete(x)
  \/ \E c \in Commands : Open(c) \/ Close(c) \/ Reply(c)

Spec == Init /\ [][Next]_vars

\* The thread of autoCompensate and its timer run; commands, re-runs and their
\* answers may be lost.
Fairness ==
  /\ WF_vars(Wake) /\ WF_vars(Notify)
  /\ WF_vars(Execute(AutoThread)) /\ WF_vars(Timeout(AutoThread))
  /\ WF_vars(Decide(AutoThread)) /\ WF_vars(Delete(AutoThread))

FairSpec == Spec /\ Fairness

-----------------------------------------------------------------------------
(* Properties.                                                             *)

\* The record is permanent data (application.properties:60): it goes only
\* when a re-run was complete, or when an administrator deletes it.
RecordKept ==
  ~kept => dropped \/ \E c \in Commands : run[c] = "over" /\ got[c[1]] = "1"

\* When a re-run was taken for complete the work of no recorded call is
\* missing, whatever failed part-way, was late or was tried twice before.  It
\* needs re-runs that repeat the calls in their order: see the finding.
NothingLost ==
  (\E x \in Executors : got[x] = "1") /\ ~dropped =>
    \A j \in DOMAIN work : work[j] >= 1

\* A first attempt that succeeds on its own restores the transaction exactly:
\* nothing is missing and nothing is done twice.
FirstRunExact ==
  (\E x \in Executors : got[x] = "1") /\ ~dropped
  /\ Cardinality({c \in Commands : run[c] \notin {"none", "sent"}}) = 1 =>
    \A j \in DOMAIN work : work[j] = 1

\* Automatic compensation reports success only of a record it has deleted.
ReportSound == told = "true" => ~kept /\ got[AutoThread] = "1"

\* Once accepted, automatic compensation comes to an end and reports it.
AutoEnds == exec[AutoThread] = "try" ~> told # "none"
=============================================================================
