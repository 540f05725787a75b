------------------------- MODULE CompensationProofs -------------------------
(***************************************************************************)
(* Proofs about Compensation, for any keys, administrators and number of   *)
(* calls: the types, when a record goes and what is reported of it; and    *)
(* for re-runs in the recorded order, that no work is lost and that a      *)
(* first re-run does exactly what is missing.                              *)
(***************************************************************************)
EXTENDS Compensation, FiniteSetTheorems, WellFoundedInduction, TLAPS

-----------------------------------------------------------------------------
(* The conjuncts of the inductive invariants.                              *)

\* The calls of a re-run, each with the recorded call it repeats; the record has
\* all of them or none.
InvShape ==
  LET n == Len(calls) IN
    /\ n \in 0 .. MaxCalls /\ calls \in [1 .. n -> Keys]
    /\ DOMAIN work = 1 .. n
    /\ origin \in [1 .. n -> 1 .. n]
    /\ \/ recorded = <<>>
       \/ /\ Len(recorded) = n /\ recorded \in [1 .. n -> Infos]
          /\ \A i \in 1 .. n : calls[i] = recorded[origin[i]].key
    /\ SameOrder => \A i \in 1 .. n : origin[i] = i

\* An executor about to send a command has one left, and no command is sent twice.
InvTries ==
  /\ \A x \in Executors : /\ exec[x] = "idle" => tries[x] = 0
                          /\ exec[x] \in {"try", "sleep"} => tries[x] < MaxTries
  /\ \A c \in Commands : run[c] # "none" => c[2] <= tries[c[1]]

\* Who deletes the record has the answer "1", from a re-run that is over, and
\* keeps it.
InvRecord ==
  /\ \A x \in Executors :
       /\ exec[x] = "delete" => got[x] = "1"
       /\ exec[x] \in {"idle", "try", "sleep"} => got[x] # "1"
       /\ got[x] = "1" => \E c \in Commands : c[1] = x /\ run[c] = "over"
  /\ ~kept => dropped \/ \E x \in Executors : got[x] = "1" /\ exec[x] \in {"notify", "done"}

\* The automatic thread that has the answer "1" has deleted the record before it
\* reports.
InvReport ==
  /\ told # "none" => exec[AutoThread] = "done"
  /\ exec[AutoThread] = "notify" /\ got[AutoThread] = "1" => ~kept
  /\ ReportSound

IInv == TypeOK /\ InvShape /\ InvTries /\ InvRecord /\ InvReport

\* What the record calls notified is done.
InvWork ==
  \A j \in DOMAIN work :
    /\ recorded = <<>> => work[j] >= 1
    /\ recorded # <<>> /\ recorded[j].notify = 1 => work[j] >= 1

\* Nothing is missing from the moment a re-run has closed well.
Full == \A j \in DOMAIN work : work[j] >= 1

InvFull ==
  ~dropped /\ (\/ \E x \in Executors : got[x] = "1"
               \/ \E c \in Commands : run[c] = "ok"
               \/ ~kept) => Full

\* The commands whose re-run has opened its group.
Opened == {c \in Commands : run[c] \notin {"none", "sent"}}

\* The work is as it was when the record was written.
Untouched ==
  \A j \in DOMAIN work : work[j] = IF recorded = <<>> THEN 1 ELSE recorded[j].notify

Exact == \A j \in DOMAIN work : work[j] = 1

Answered == \E x \in Executors : got[x] = "1"

\* The first re-run finds the record and the work it was written for; alone, it
\* does what is missing and no more.
InvFirst ==
  ~dropped =>
    /\ Opened = {} => Untouched /\ ~Answered
    /\ \A c \in Commands : Opened = {c} =>
         /\ run[c] # "normal"
         /\ run[c] \in {"compensate", "failed", "ok"} => ~Answered
         /\ run[c] = "compensate" => Untouched
         /\ run[c] = "ok" => Exact
         /\ Answered => Exact

OrderInv == IInv /\ InvWork /\ InvFull /\ InvFirst

-----------------------------------------------------------------------------
(* Numbers and orders.                                                     *)

\* Every set of naturals that is not empty has a least element.
LEMMA LeastNatural ==
  ASSUME NEW S \in SUBSET Nat, S # {}
  PROVE  \E m \in S : \A k \in S : m <= k
<1> DEFINE T == {0 .. m : m \in S}
<1>1. IsWellFoundedOn(StrictSubsetOrdering(Nat), FiniteSubsetsOf(Nat))
  BY FS_StrictSubsetOrderingWellFounded
<1>2. T \subseteq FiniteSubsetsOf(Nat) /\ T # {}
  <2>1. \A m \in Nat : IsFiniteSet(0 .. m)
    BY FS_Interval
  <2>2. \A m \in Nat : 0 .. m \in FiniteSubsetsOf(Nat)
    BY <2>1 DEF FiniteSubsetsOf
  <2> QED
    BY <2>2
<1> HIDE DEF T
<1>3. PICK x \in T : \A y \in T : <<y, x>> \notin StrictSubsetOrdering(Nat)
  BY <1>1, <1>2, WFMin
<1> USE DEF T
<1>4. PICK m \in S : x = 0 .. m
  BY <1>3
<1>5. ASSUME NEW k \in S, k < m PROVE FALSE
  <2>1. 0 .. k \subseteq 0 .. m /\ 0 .. k # 0 .. m
    BY <1>5
  <2>2. <<0 .. k, 0 .. m>> \in StrictSubsetOrdering(Nat)
    BY <2>1 DEF StrictSubsetOrdering
  <2> QED
    BY <1>3, <1>4, <2>2
<1> QED
  BY <1>5

\* A list of 1 .. n that strictly increases is 1 .. n itself.
LEMMA IncreasingIsIdentity ==
  ASSUME NEW n \in Nat, NEW o \in [1 .. n -> 1 .. n],
         \A i, j \in 1 .. n : i < j => o[i] < o[j]
  PROVE  \A i \in 1 .. n : o[i] = i
<1>1. ASSUME NEW i \in 1 .. n, o[i] < i PROVE FALSE
  <2> DEFINE A == 1 .. i
             B == 1 .. o[i]
             f == [k \in A |-> o[k]]
  <2>1. IsFiniteSet(A) /\ IsFiniteSet(B) /\ Cardinality(B) < Cardinality(A)
    BY <1>1, FS_Interval
  <2>2. f \in [A -> B]
    <3>1. ASSUME NEW k \in A PROVE o[k] \in B
      <4>1. k \in 1 .. n /\ o[k] \in 1 .. n /\ k <= i
        OBVIOUS
      <4>2. k < i => o[k] < o[i]
        BY <4>1
      <4>3. k = i \/ k < i
        BY <4>1
      <4> QED
        BY <4>1, <4>2, <4>3
    <3> QED
      BY <3>1
  <2>3. PICK x, y \in A : x # y /\ f[x] = f[y]
    <3> HIDE DEF A, B, f
    <3> QED
      BY <2>1, <2>2, FS_PigeonHole
  <2> QED
    BY <2>3
<1>2. ASSUME NEW i \in 1 .. n, o[i] > i PROVE FALSE
  <2> DEFINE A == i .. n
             B == o[i] .. n
             f == [k \in A |-> o[k]]
  <2>1. IsFiniteSet(A) /\ IsFiniteSet(B) /\ Cardinality(B) < Cardinality(A)
    BY <1>2, FS_Interval
  <2>2. f \in [A -> B]
    <3>1. ASSUME NEW k \in A PROVE o[k] \in B
      <4>1. k \in 1 .. n /\ o[k] \in 1 .. n /\ i <= k
        OBVIOUS
      <4>2. i < k => o[i] < o[k]
        BY <4>1
      <4>3. k = i \/ i < k
        BY <4>1
      <4> QED
        BY <4>1, <4>2, <4>3
    <3> QED
      BY <3>1
  <2>3. PICK x, y \in A : x # y /\ f[x] = f[y]
    <3> HIDE DEF A, B, f
    <3> QED
      BY <2>1, <2>2, FS_PigeonHole
  <2> QED
    BY <2>3
<1> QED
  BY <1>1, <1>2

-----------------------------------------------------------------------------
(* reloadCompensate.                                                       *)

\* What the shared iterator does at call i, from where it stood after the last.
NextMatch(rec, keys, f, i) ==
  IF i = 0 THEN 0
  ELSE LET M == Matches(rec, keys[i], f[i - 1]) IN IF M = {} THEN Len(rec) ELSE First(M)

\* A function that follows the iterator from call to call is the iterator.
LEMMA IteratorIs ==
  ASSUME NEW rec, NEW keys, NEW n \in Nat, n = Len(keys),
         NEW g, g = [i \in 0 .. n |-> NextMatch(rec, keys, g, i)]
  PROVE  Iterator(rec, keys) = g
<1> DEFINE it == Iterator(rec, keys)
<1>1. it = [i \in 0 .. n |-> NextMatch(rec, keys, it, i)]
  BY DEF Iterator, NextMatch
<1> HIDE DEF it
<1> DEFINE S == {i \in 0 .. n : it[i] # g[i]}
<1>2. ASSUME S # {} PROVE FALSE
  <2>1. PICK m \in S : \A k \in S : m <= k
    <3>1. S \in SUBSET Nat
      OBVIOUS
    <3> HIDE DEF S
    <3> QED
      BY <1>2, <3>1, LeastNatural
  <2>2. m \in 0 .. n /\ it[m] # g[m]
    BY <2>1
  <2>3. m # 0
    BY <1>1, <2>2 DEF NextMatch
  <2>4. m - 1 \in 0 .. n /\ it[m - 1] = g[m - 1]
    BY <2>1, <2>2, <2>3
  <2>5. NextMatch(rec, keys, it, m) = NextMatch(rec, keys, g, m)
    BY ONLY <2>4 DEF NextMatch
  <2>6. it[m] = NextMatch(rec, keys, it, m)
    BY <1>1, <2>2
  <2>7. g[m] = NextMatch(rec, keys, g, m)
    BY <2>2
  <2> QED
    BY <2>2, <2>5, <2>6, <2>7
<1> QED
  BY <1>1, <1>2 DEF it

\* The first of a set of numbers is its least.
LEMMA FirstIs ==
  ASSUME NEW S \in SUBSET Nat, NEW m \in S, \A k \in S : m <= k
  PROVE  First(S) = m
<1>1. \A x \in S : (\A k \in S : x <= k) => x = m
  OBVIOUS
<1> QED
  BY <1>1 DEF First

\* A record without calls lets no call of a re-run commit.
LEMMA IsCommitEmpty ==
  ASSUME NEW n \in Nat, NEW keys, n = Len(keys), DOMAIN keys = 1 .. n
  PROVE  \A i \in 1 .. n : IsCommit(<<>>, keys)[i] = 0
<1> DEFINE g == [i \in 0 .. n |-> 0]
<1>1. \A k : Matches(<<>>, k, 0) = {}
  BY DEF Matches
<1>2. g = [i \in 0 .. n |-> NextMatch(<<>>, keys, g, i)]
  BY <1>1 DEF NextMatch
<1> HIDE DEF g
<1>3. Iterator(<<>>, keys) = g
  BY <1>2, IteratorIs
<1>4. \A i \in 1 .. n : Matches(<<>>, keys[i], Iterator(<<>>, keys)[i - 1]) = {}
  BY <1>1, <1>3 DEF g
<1> QED
  BY <1>4 DEF IsCommit

\* When the calls come in the recorded order each is matched with its own entry.
LEMMA IsCommitSame ==
  ASSUME NEW n \in Nat, NEW keys, n = Len(keys), DOMAIN keys = 1 .. n,
         NEW rec, Len(rec) = n, \A i \in 1 .. n : rec[i].key = keys[i]
  PROVE  \A i \in 1 .. n : IsCommit(rec, keys)[i] = IF rec[i].notify = 0 THEN 1 ELSE 0
<1> DEFINE g == [i \in 0 .. n |-> i]
<1>1. ASSUME NEW i \in 1 .. n
      PROVE  LET M == Matches(rec, keys[i], i - 1) IN M # {} /\ First(M) = i
  <2> DEFINE M == Matches(rec, keys[i], i - 1)
  <2>1. M \in SUBSET Nat /\ i \in M /\ \A k \in M : i <= k
    BY DEF Matches
  <2> HIDE DEF M
  <2> QED
    BY <2>1, FirstIs DEF M
<1>2. \A i \in 1 .. n : g[i - 1] = i - 1
  OBVIOUS
<1>3. g = [i \in 0 .. n |-> NextMatch(rec, keys, g, i)]
  <2>1. ASSUME NEW i \in 0 .. n PROVE NextMatch(rec, keys, g, i) = i
    <3> HIDE DEF g
    <3>1. CASE i = 0
      BY <3>1 DEF NextMatch
    <3>2. CASE i \in 1 .. n
      BY <1>1, <1>2, <3>2 DEF NextMatch
    <3> QED
      BY <3>1, <3>2
  <2> QED
    BY <2>1
<1> HIDE DEF g
<1>4. Iterator(rec, keys) = g
  BY <1>3, IteratorIs
<1>5. ASSUME NEW i \in 1 .. n
      PROVE  LET M == Matches(rec, keys[i], Iterator(rec, keys)[i - 1]) IN M # {} /\ First(M) = i
  BY <1>1, <1>2, <1>4
<1> QED
  BY <1>5 DEF IsCommit

-----------------------------------------------------------------------------
(* Types, the record and the report.                                       *)

\* A list is as long as its index set.
LEMMA ListLength ==
  ASSUME NEW S, NEW n \in Nat, NEW s \in [1 .. n -> S]
  PROVE  Len(s) = n /\ DOMAIN s = 1 .. n
  OBVIOUS

\* The commands are those of the executors.
LEMMA CommandParts ==
  /\ \A c \in Commands : c[1] \in Executors /\ c[2] \in 1 .. MaxTries /\ c = <<c[1], c[2]>>
  /\ \A x \in Executors, k \in 1 .. MaxTries : <<x, k>> \in Commands
  /\ AutoThread \in Executors
<1>1. AutoThread \in Executors
  BY DEF Executors
<1> DEFINE K == 1 .. MaxTries
<1>2. Commands = Executors \X K
  BY DEF Commands
<1> HIDE DEF K
<1>3. \A c \in Commands : c[1] \in Executors /\ c[2] \in K /\ c = <<c[1], c[2]>>
  BY <1>2
<1>4. \A x \in Executors, k \in K : <<x, k>> \in Commands
  BY <1>2
<1> QED
  BY <1>1, <1>3, <1>4 DEF K

\* Initially the record has its calls, each with the call that repeats it.
LEMMA ShapeInit == Init => InvShape /\ TypeOK
<1> SUFFICES ASSUME Init PROVE InvShape /\ TypeOK
  OBVIOUS
<1> USE CompensationAssumption
<1>1. PICK keys \in CallLists :
        /\ \/ \E notify \in [DOMAIN keys -> {0, 1}] :
                /\ recorded = [i \in DOMAIN keys |-> [key |-> keys[i], notify |-> notify[i]]]
                /\ work = notify
           \/ recorded = <<>> /\ work = [i \in DOMAIN keys |-> 1]
        /\ origin \in {o \in [DOMAIN keys -> DOMAIN keys] : Repeats(o, keys)}
        /\ calls = [i \in DOMAIN keys |-> keys[origin[i]]]
  BY DEF Init
<1>2. PICK n \in 0 .. MaxCalls : keys \in [1 .. n -> Keys]
  BY <1>1 DEF CallLists
<1>3. DOMAIN keys = 1 .. n /\ n \in Nat
  BY <1>2
<1>4. origin \in [1 .. n -> 1 .. n] /\ Repeats(origin, keys)
  BY <1>1, <1>3
<1>5. calls \in [1 .. n -> Keys] /\ Len(calls) = n /\ DOMAIN calls = 1 .. n
  <2>1. calls \in [1 .. n -> Keys]
    BY <1>1, <1>2, <1>3, <1>4
  <2> QED
    BY <1>3, <2>1, ListLength
<1>6. SameOrder => \A i \in 1 .. n : origin[i] = i
  <2>1. SameOrder => \A i, j \in 1 .. n : i < j => origin[i] < origin[j]
    BY <1>4 DEF Repeats
  <2> QED
    BY <1>3, <1>4, <2>1, IncreasingIsIdentity
<1>7. /\ \/ recorded = <<>> /\ Len(recorded) = 0
         \/ /\ Len(recorded) = n /\ recorded \in [1 .. n -> Infos]
            /\ \A i \in 1 .. n : calls[i] = recorded[origin[i]].key
      /\ work \in [1 .. n -> {0, 1}]
  <2>1. CASE recorded = <<>> /\ work = [i \in DOMAIN keys |-> 1]
    BY <1>3, <2>1
  <2>2. ASSUME NEW notify \in [1 .. n -> {0, 1}],
               recorded = [i \in 1 .. n |-> [key |-> keys[i], notify |-> notify[i]]],
               work = notify
        PROVE  /\ Len(recorded) = n /\ recorded \in [1 .. n -> Infos]
               /\ \A i \in 1 .. n : calls[i] = recorded[origin[i]].key
               /\ work \in [1 .. n -> {0, 1}]
    <3>1. recorded \in [1 .. n -> Infos]
      BY <1>2, <2>2 DEF Infos
    <3>2. Len(recorded) = n
      BY <1>3, <3>1, ListLength
    <3>3. \A i \in 1 .. n : calls[i] = recorded[origin[i]].key
      BY <1>1, <1>3, <1>4, <2>2
    <3> QED
      BY <2>2, <3>1, <3>2, <3>3
  <2> QED
    BY <1>1, <1>3, <2>1, <2>2
<1>8. InvShape
  BY <1>3, <1>4, <1>5, <1>6, <1>7 DEF InvShape
<1>9. TypeOK
  <2>1. \A i \in DOMAIN recorded : recorded[i] \in Infos
    BY <1>7
  <2>2. work \in [DOMAIN calls -> 0 .. MaxWork]
    BY <1>5, <1>7 DEF MaxWork
  <2>3. Len(recorded) <= MaxCalls /\ Len(calls) <= MaxCalls
    BY <1>2, <1>5, <1>7
  <2>4. /\ kept \in BOOLEAN /\ dropped \in BOOLEAN /\ told \in {"none", "true", "false"}
        /\ exec \in [Executors -> ExecStates]
        /\ tries \in [Executors -> 0 .. MaxTries]
        /\ got \in [Executors -> {"none", "1", "0", "-2"}]
        /\ run \in [Commands -> RunStates]
    <3>1. /\ kept = TRUE /\ dropped = FALSE /\ told = "none"
          /\ exec = [x \in Executors |-> "idle"]
          /\ tries = [x \in Executors |-> 0]
          /\ got = [x \in Executors |-> "none"]
          /\ run = [c \in Commands |-> "none"]
      BY DEF Init
    <3>2. exec \in [Executors -> ExecStates] /\ run \in [Commands -> RunStates]
      BY <3>1 DEF ExecStates, RunStates
    <3>3. tries \in [Executors -> 0 .. MaxTries]
      BY <3>1 DEF MaxTries
    <3>4. got \in [Executors -> {"none", "1", "0", "-2"}]
      BY <3>1
    <3>5. kept \in BOOLEAN /\ dropped \in BOOLEAN
      BY <3>1
    <3> QED
      BY <3>1, <3>2, <3>3, <3>4, <3>5
  <2> QED
    BY <2>1, <2>2, <2>3, <2>4 DEF TypeOK
<1> QED
  BY <1>8, <1>9

\* Doing work again keeps its counts in range and takes nothing back.
LEMMA DoneCounts ==
  ASSUME TypeOK, NEW S
  PROVE  /\ Done(S) \in [DOMAIN calls -> 0 .. MaxWork]
         /\ DOMAIN Done(S) = DOMAIN work
         /\ \A j \in DOMAIN work : Done(S)[j] >= work[j]
<1>1. work \in [DOMAIN calls -> 0 .. MaxWork] /\ MaxWork = 2
  BY DEF TypeOK, MaxWork
<1> QED
  BY <1>1 DEF Done

\* Every step keeps the types.
LEMMA TypeNext == TypeOK /\ InvTries /\ [Next]_vars => TypeOK'
<1> SUFFICES ASSUME TypeOK, InvTries, [Next]_vars PROVE TypeOK'
  OBVIOUS
<1> USE CommandParts DEF TypeOK, ExecStates, RunStates, recordVars, execVars
<1>1. CASE Callback
  BY <1>1 DEF Callback, Goto
<1>2. CASE Drop
  BY <1>2 DEF Drop
<1>3. CASE Wake
  BY <1>3 DEF Wake, Goto
<1>4. CASE Notify
  BY <1>4 DEF Notify, Goto
<1>5. ASSUME NEW x \in Executors, Press(x) PROVE TypeOK'
  BY <1>5 DEF Press, Goto
<1>6. ASSUME NEW x \in Executors, Execute(x) PROVE TypeOK'
  <2>1. CASE Goto(x, IF x = AutoThread THEN "notify" ELSE "done") /\ UNCHANGED <<tries, got, run>>
    BY <1>6, <2>1 DEF Execute, Goto
  <2>2. CASE /\ Goto(x, "await")
             /\ tries' = [tries EXCEPT ![x] = @ + 1]
             /\ got' = [got EXCEPT ![x] = "none"]
             /\ run' = [run EXCEPT ![<<x, tries[x] + 1>>] = "sent"]
    <3>1. tries[x] + 1 \in 0 .. MaxTries
      <4>1. exec[x] = "try" /\ tries[x] \in 0 .. MaxTries
        BY <1>6 DEF Execute
      <4>2. tries[x] < MaxTries
        BY <4>1 DEF InvTries
      <4> QED
        BY ONLY <4>1, <4>2 DEF MaxTries
    <3>2. tries' \in [Executors -> 0 .. MaxTries]
      BY <2>2, <3>1
    <3>3. exec' \in [Executors -> ExecStates] /\ got' \in [Executors -> {"none", "1", "0", "-2"}]
      BY <2>2 DEF Goto
    <3>4. run' \in [Commands -> RunStates]
      BY <2>2
    <3>5. UNCHANGED <<recordVars, kept, dropped, work, told>>
      BY <1>6 DEF Execute
    <3> QED
      BY <3>2, <3>3, <3>4, <3>5
  <2> QED
    BY <1>6, <2>1, <2>2 DEF Execute
<1>7. ASSUME NEW x \in Executors, Timeout(x) PROVE TypeOK'
  BY <1>7 DEF Timeout, Goto
<1>8. ASSUME NEW x \in Executors, Decide(x) PROVE TypeOK'
  BY <1>8 DEF Decide, Goto
<1>9. ASSUME NEW x \in Executors, Delete(x) PROVE TypeOK'
  BY <1>9 DEF Delete, Goto
<1>10. ASSUME NEW c \in Commands, Open(c) PROVE TypeOK'
  BY <1>10 DEF Open
<1>11. ASSUME NEW c \in Commands, Close(c) PROVE TypeOK'
  <2>1. PICK S : work' = Done(S)
    BY <1>11 DEF Close
  <2>2. run' \in [Commands -> RunStates]
    BY <1>11 DEF Close
  <2>3. UNCHANGED <<recordVars, kept, dropped, execVars, told>>
    BY <1>11 DEF Close
  <2> QED
    BY <2>1, <2>2, <2>3, DoneCounts
<1>12. ASSUME NEW c \in Commands, Reply(c) PROVE TypeOK'
  BY <1>12 DEF Reply, Goto
<1>13. CASE UNCHANGED vars
  BY <1>13 DEF vars
<1> QED
  BY <1>1, <1>2, <1>3, <1>4, <1>5, <1>6, <1>7, <1>8, <1>9, <1>10, <1>11, <1>12, <1>13
     DEF Next

\* The record and the calls are what they were.
LEMMA ShapeNext == InvShape /\ TypeOK /\ [Next]_vars => InvShape'
<1> SUFFICES ASSUME InvShape, TypeOK, [Next]_vars PROVE InvShape'
  OBVIOUS
<1>0. UNCHANGED recordVars /\ DOMAIN work' = DOMAIN work
  BY DoneCounts DEF Next, Callback, Press, Drop, Execute, Timeout, Decide, Wake, Delete, Notify,
                    Open, Close, Reply, vars
<1> QED
  BY <1>0 DEF InvShape, recordVars

\* Every step keeps the count of the commands.
LEMMA TriesNext == InvTries /\ TypeOK /\ [Next]_vars => InvTries'
<1> SUFFICES ASSUME InvTries, TypeOK, [Next]_vars PROVE InvTries'
  OBVIOUS
<1>0. /\ AutoThread \in Executors
      /\ tries \in [Executors -> 0 .. 3] /\ exec \in [Executors -> ExecStates]
      /\ run \in [Commands -> RunStates]
      /\ \A c \in Commands : c[1] \in Executors /\ c[2] \in 1 .. 3
  BY CommandParts DEF TypeOK, MaxTries
<1> USE <1>0 DEF InvTries, MaxTries, recordVars, execVars
<1>1. CASE Callback
  <2>1. \A x \in Executors \ {AutoThread} : exec'[x] = exec[x]
    BY <1>1 DEF Callback, Goto
  <2>2. exec[AutoThread] = "idle" /\ exec'[AutoThread] \in {"try", "done"} /\ UNCHANGED <<tries, run>>
    BY <1>1 DEF Callback, Goto
  <2> QED
    BY <2>1, <2>2
<1>2. CASE Drop
  BY <1>2 DEF Drop
<1>3. CASE Wake
  BY <1>3 DEF Wake, Goto
<1>4. CASE Notify
  BY <1>4 DEF Notify, Goto
<1>5. ASSUME NEW x \in Executors, Press(x) PROVE InvTries'
  <2>1. \A y \in Executors \ {x} : exec'[y] = exec[y]
    BY <1>5 DEF Press, Goto
  <2>2. exec[x] = "idle" /\ exec'[x] \in {"try", "done"} /\ UNCHANGED <<tries, run>>
    BY <1>5 DEF Press, Goto
  <2> QED
    BY <2>1, <2>2
<1>6. ASSUME NEW x \in Executors, Execute(x) PROVE InvTries'
  <2>1. CASE Goto(x, IF x = AutoThread THEN "notify" ELSE "done") /\ UNCHANGED <<tries, got, run>>
    BY <1>6, <2>1 DEF Execute, Goto
  <2>2. CASE /\ Goto(x, "await")
             /\ tries' = [tries EXCEPT ![x] = @ + 1]
             /\ got' = [got EXCEPT ![x] = "none"]
             /\ run' = [run EXCEPT ![<<x, tries[x] + 1>>] = "sent"]
    <3>1. /\ exec'[x] = "await" /\ tries'[x] = tries[x] + 1
          /\ \A y \in Executors \ {x} : exec'[y] = exec[y] /\ tries'[y] = tries[y]
      BY <2>2 DEF Goto
    <3>2. \A c \in Commands : run'[c] = run[c] \/ (c[1] = x /\ c[2] = tries[x] + 1)
      BY <2>2
    <3> QED
      BY <3>1, <3>2
  <2> QED
    BY <1>6, <2>1, <2>2 DEF Execute
<1>7. ASSUME NEW x \in Executors, Timeout(x) PROVE InvTries'
  BY <1>7 DEF Timeout, Goto
<1>8. ASSUME NEW x \in Executors, Decide(x) PROVE InvTries'
  <2>1. \A y \in Executors \ {x} : exec'[y] = exec[y]
    BY <1>8 DEF Decide, Goto
  <2>2. /\ exec'[x] \in {"delete", "done", "notify", "sleep"}
        /\ exec'[x] = "sleep" => tries[x] # MaxTries
        /\ UNCHANGED <<tries, run>>
    BY <1>8 DEF Decide, Goto
  <2>3. tries[x] \in 0 .. MaxTries
    OBVIOUS
  <2> QED
    BY <2>1, <2>2, <2>3
<1>9. ASSUME NEW x \in Executors, Delete(x) PROVE InvTries'
  BY <1>9 DEF Delete, Goto
<1>10. ASSUME NEW c \in Commands, Open(c) PROVE InvTries'
  BY <1>10 DEF Open
<1>11. ASSUME NEW c \in Commands, Close(c) PROVE InvTries'
  BY <1>11 DEF Close
<1>12. ASSUME NEW c \in Commands, Reply(c) PROVE InvTries'
  BY <1>12 DEF Reply, Goto
<1>13. CASE UNCHANGED vars
  BY <1>13 DEF vars
<1> QED
  BY <1>1, <1>2, <1>3, <1>4, <1>5, <1>6, <1>7, <1>8, <1>9, <1>10, <1>11, <1>12, <1>13
     DEF Next

\* Every step keeps the answer of who deletes the record, or has.
LEMMA RecordNext == InvRecord /\ InvTries /\ TypeOK /\ [Next]_vars => InvRecord'
<1> SUFFICES ASSUME InvRecord, InvTries, TypeOK, [Next]_vars PROVE InvRecord'
  OBVIOUS
<1> USE CommandParts DEF TypeOK, InvRecord, InvTries, recordVars, execVars
<1>1. CASE Callback
  BY <1>1 DEF Callback, Goto
<1>2. CASE Drop
  BY <1>2 DEF Drop
<1>3. CASE Wake
  BY <1>3 DEF Wake, Goto
<1>4. CASE Notify
  BY <1>4 DEF Notify, Goto
<1>5. ASSUME NEW x \in Executors, Press(x) PROVE InvRecord'
  BY <1>5 DEF Press, Goto
<1>6. ASSUME NEW x \in Executors, Execute(x) PROVE InvRecord'
  <2>1. CASE Goto(x, IF x = AutoThread THEN "notify" ELSE "done") /\ UNCHANGED <<tries, got, run>>
    BY <1>6, <2>1 DEF Execute, Goto
  <2>2. CASE /\ Goto(x, "await")
             /\ tries' = [tries EXCEPT ![x] = @ + 1]
             /\ got' = [got EXCEPT ![x] = "none"]
             /\ run' = [run EXCEPT ![<<x, tries[x] + 1>>] = "sent"]
    <3>1. /\ exec[x] = "try" /\ exec'[x] = "await" /\ got'[x] = "none"
          /\ \A y \in Executors \ {x} : exec'[y] = exec[y] /\ got'[y] = got[y]
          /\ UNCHANGED <<kept, dropped>>
      BY <1>6, <2>2 DEF Execute, Goto
    <3>2. \A c \in Commands : c[1] # x => run'[c] = run[c]
      BY <2>2
    <3>3. ASSUME NEW y \in Executors
          PROVE  /\ exec'[y] = "delete" => got'[y] = "1"
                 /\ exec'[y] \in {"idle", "try", "sleep"} => got'[y] # "1"
                 /\ got'[y] = "1" => \E c \in Commands : c[1] = y /\ run'[c] = "over"
      <4>1. CASE y = x
        BY <3>1, <4>1
      <4>2. CASE y # x
        <5>1. exec'[y] = exec[y] /\ got'[y] = got[y]
          BY <3>1, <4>2
        <5>2. ASSUME NEW c \in Commands, c[1] = y, run[c] = "over"
              PROVE  run'[c] = "over"
          BY <3>2, <4>2, <5>2
        <5>3. got[y] = "1" => \E c \in Commands : c[1] = y /\ run[c] = "over"
          OBVIOUS
        <5> QED
          BY <5>1, <5>2, <5>3
      <4> QED
        BY <4>1, <4>2
    <3>4. ~kept' => dropped' \/ \E y \in Executors : got'[y] = "1" /\ exec'[y] \in {"notify", "done"}
      BY <3>1
    <3> QED
      BY <3>3, <3>4
  <2> QED
    BY <1>6, <2>1, <2>2 DEF Execute
<1>7. ASSUME NEW x \in Executors, Timeout(x) PROVE InvRecord'
  BY <1>7 DEF Timeout, Goto
<1>8. ASSUME NEW x \in Executors, Decide(x) PROVE InvRecord'
  BY <1>8 DEF Decide, Goto
<1>9. ASSUME NEW x \in Executors, Delete(x) PROVE InvRecord'
  BY <1>9 DEF Delete, Goto
<1>10. ASSUME NEW c \in Commands, Open(c) PROVE InvRecord'
  BY <1>10 DEF Open
<1>11. ASSUME NEW c \in Commands, Close(c) PROVE InvRecord'
  BY <1>11 DEF Close
<1>12. ASSUME NEW c \in Commands, Reply(c) PROVE InvRecord'
  <2>1. /\ run[c] \in {"ok", "failed"} /\ run' = [run EXCEPT ![c] = "over"]
        /\ UNCHANGED <<kept, dropped>>
    BY <1>12 DEF Reply
  <2>2. run'[c] = "over" /\ \A d \in Commands : run[d] = "over" => run'[d] = "over"
    BY <2>1
  <2>3. c[1] \in Executors /\ c[2] \in 1 .. MaxTries /\ c = <<c[1], c[2]>>
    OBVIOUS
  <2>4. CASE exec[c[1]] \in {"await", "decide"} /\ tries[c[1]] = c[2]
    <3>1. /\ exec'[c[1]] = "decide"
          /\ \A y \in Executors \ {c[1]} : exec'[y] = exec[y] /\ got'[y] = got[y]
      BY <1>12, <2>3, <2>4 DEF Reply, Goto
    <3>2. ASSUME NEW y \in Executors
          PROVE  /\ exec'[y] = "delete" => got'[y] = "1"
                 /\ exec'[y] \in {"idle", "try", "sleep"} => got'[y] # "1"
                 /\ got'[y] = "1" => \E d \in Commands : d[1] = y /\ run'[d] = "over"
      <4>1. CASE y = c[1]
        BY <2>2, <3>1, <4>1
      <4>2. CASE y # c[1]
        BY <2>2, <3>1, <4>2
      <4> QED
        BY <4>1, <4>2
    <3>3. ~kept' => dropped' \/ \E y \in Executors : got'[y] = "1" /\ exec'[y] \in {"notify", "done"}
      BY <2>1, <2>3, <2>4, <3>1
    <3> QED
      BY <3>2, <3>3
  <2>5. CASE ~(exec[c[1]] \in {"await", "decide"} /\ tries[c[1]] = c[2])
    <3>1. UNCHANGED <<got, exec>>
      BY <1>12, <2>5 DEF Reply
    <3> QED
      BY <2>1, <2>2, <3>1
  <2> QED
    BY <2>4, <2>5
<1>13. CASE UNCHANGED vars
  BY <1>13 DEF vars
<1> QED
  BY <1>1, <1>2, <1>3, <1>4, <1>5, <1>6, <1>7, <1>8, <1>9, <1>10, <1>11, <1>12, <1>13
     DEF Next

\* Every step keeps the report sound.
LEMMA ReportNext == InvReport /\ InvRecord /\ TypeOK /\ [Next]_vars => InvReport'
<1> SUFFICES ASSUME InvReport, InvRecord, TypeOK, [Next]_vars PROVE InvReport'
  OBVIOUS
<1> USE CommandParts DEF TypeOK, InvReport, InvRecord, ReportSound, recordVars, execVars
<1>1. CASE Callback
  BY <1>1 DEF Callback, Goto
<1>2. CASE Drop
  BY <1>2 DEF Drop
<1>3. CASE Wake
  BY <1>3 DEF Wake, Goto
<1>4. CASE Notify
  BY <1>4 DEF Notify, Goto
<1>5. ASSUME NEW x \in Executors, Press(x) PROVE InvReport'
  BY <1>5 DEF Press, Goto
<1>6. ASSUME NEW x \in Executors, Execute(x) PROVE InvReport'
  BY <1>6 DEF Execute, Goto
<1>7. ASSUME NEW x \in Executors, Timeout(x) PROVE InvReport'
  BY <1>7 DEF Timeout, Goto
<1>8. ASSUME NEW x \in Executors, Decide(x) PROVE InvReport'
  BY <1>8 DEF Decide, Goto
<1>9. ASSUME NEW x \in Executors, Delete(x) PROVE InvReport'
  BY <1>9 DEF Delete, Goto
<1>10. ASSUME NEW c \in Commands, Open(c) PROVE InvReport'
  BY <1>10 DEF Open
<1>11. ASSUME NEW c \in Commands, Close(c) PROVE InvReport'
  BY <1>11 DEF Close
<1>12. ASSUME NEW c \in Commands, Reply(c) PROVE InvReport'
  BY <1>12 DEF Reply, Goto
<1>13. CASE UNCHANGED vars
  BY <1>13 DEF vars
<1> QED
  BY <1>1, <1>2, <1>3, <1>4, <1>5, <1>6, <1>7, <1>8, <1>9, <1>10, <1>11, <1>12, <1>13
     DEF Next

\* Initially nothing is sent, answered, deleted or reported.
LEMMA StateInit == Init => IInv
<1> SUFFICES ASSUME Init PROVE IInv
  OBVIOUS
<1>1. InvShape /\ TypeOK
  BY ShapeInit
<1>2. /\ kept = TRUE /\ told = "none"
      /\ exec = [x \in Executors |-> "idle"]
      /\ tries = [x \in Executors |-> 0]
      /\ got = [x \in Executors |-> "none"]
      /\ run = [c \in Commands |-> "none"]
  BY DEF Init
<1>3. InvTries
  BY <1>2 DEF InvTries, MaxTries
<1>4. InvRecord
  BY <1>2 DEF InvRecord
<1>5. InvReport
  BY <1>2, CommandParts DEF InvReport, ReportSound
<1> QED
  BY <1>1, <1>3, <1>4, <1>5 DEF IInv

\* The conjuncts of the inductive invariant hold in every state, for every number
\* of administrators, every list of calls and every order of the re-runs.
THEOREM Invariance == Spec => []IInv
<1>1. Init => IInv
  BY StateInit
<1>2. IInv /\ [Next]_vars => IInv'
  BY TypeNext, ShapeNext, TriesNext, RecordNext, ReportNext DEF IInv
<1> QED
  BY <1>1, <1>2, PTL DEF Spec

\* The variables of CompensateServiceImpl's model keep their types.
THEOREM TypeCorrect == Spec => []TypeOK
<1>1. IInv => TypeOK
  BY DEF IInv
<1> QED
  BY <1>1, Invariance, PTL

\* A record is deleted by executeCompensate and autoCompensate only after a
\* re-run of theirs was answered "1", or by delCompensate.
THEOREM RecordsKept == Spec => []RecordKept
<1>1. InvRecord => RecordKept
  <2> SUFFICES ASSUME InvRecord, ~kept, ~dropped
               PROVE  \E c \in Commands : run[c] = "over" /\ got[c[1]] = "1"
    BY DEF RecordKept
  <2>1. PICK x \in Executors : got[x] = "1"
    BY DEF InvRecord
  <2>2. PICK c \in Commands : c[1] = x /\ run[c] = "over"
    BY <2>1 DEF InvRecord
  <2> QED
    BY <2>1, <2>2
<1>2. IInv => InvRecord
  BY DEF IInv
<1> QED
  BY <1>1, <1>2, Invariance, PTL

\* autoCompensate posts success to the business side only of a record it has
\* deleted.
THEOREM ReportsSound == Spec => []ReportSound
<1>1. IInv => ReportSound
  BY DEF IInv, InvReport
<1> QED
  BY <1>1, Invariance, PTL

-----------------------------------------------------------------------------
(* Re-runs in the recorded order.                                          *)

\* Each call of such a re-run does the work of its own entry.
LEMMA DoneInOrder ==
  ASSUME SameOrder, TypeOK, InvShape, NEW S, S \subseteq DOMAIN calls
  PROVE  \A j \in DOMAIN work :
           Done(S)[j] = IF j \in S /\ work[j] < MaxWork THEN work[j] + 1 ELSE work[j]
<1>1. DOMAIN calls = DOMAIN work /\ \A i \in DOMAIN work : origin[i] = i
  BY DEF InvShape
<1> QED
  BY <1>1 DEF Done

\* A compensation that finds its record commits the calls not notified.
LEMMA CommitsInOrder ==
  ASSUME SameOrder, InvShape, kept, NEW c, run[c] = "compensate"
  PROVE  Commits(c) = {j \in DOMAIN work : recorded # <<>> /\ recorded[j].notify = 0}
<1> DEFINE n == Len(calls)
<1>1. n \in Nat /\ calls \in [1 .. n -> Keys] /\ DOMAIN work = 1 .. n
  BY CompensationAssumption DEF InvShape
<1>2. DOMAIN calls = 1 .. n
  BY <1>1
<1>3. CASE recorded = <<>>
  <2>1. \A i \in 1 .. n : IsCommit(recorded, calls)[i] = 0
    <3> HIDE DEF n
    <3> QED
      BY <1>1, <1>2, <1>3, IsCommitEmpty DEF n
  <2> QED
    BY <1>1, <1>2, <1>3, <2>1 DEF Commits
<1>4. CASE recorded # <<>>
  <2>1. Len(recorded) = n /\ \A i \in 1 .. n : recorded[i].key = calls[i]
    BY <1>1, <1>4 DEF InvShape
  <2>2. \A i \in 1 .. n : IsCommit(recorded, calls)[i] = IF recorded[i].notify = 0 THEN 1 ELSE 0
    <3> HIDE DEF n
    <3> QED
      BY <1>1, <1>2, <2>1, IsCommitSame DEF n
  <2> QED
    BY <1>1, <1>2, <1>4, <2>2 DEF Commits
<1> QED
  BY <1>3, <1>4

\* While the record is kept, a re-run that closes well leaves nothing missing.
LEMMA CloseFull ==
  ASSUME SameOrder, TypeOK, InvShape, InvWork, kept,
         NEW c \in Commands, run[c] \in {"normal", "compensate"}
  PROVE  \A j \in DOMAIN work : Done(Commits(c))[j] >= 1
<1>1. Commits(c) \subseteq DOMAIN calls /\ DOMAIN calls = DOMAIN work
  BY DEF Commits, InvShape
<1>2. ASSUME NEW j \in DOMAIN work PROVE Done(Commits(c))[j] >= 1
  <2>1. work[j] \in 0 .. 2 /\ MaxWork = 2
    BY <1>1 DEF TypeOK, MaxWork
  <2>2. Done(Commits(c))[j] = IF j \in Commits(c) /\ work[j] < MaxWork THEN work[j] + 1 ELSE work[j]
    BY <1>1, DoneInOrder
  <2>3. CASE run[c] = "normal"
    <3>1. j \in Commits(c)
      BY <1>1, <2>3 DEF Commits
    <3> QED
      BY <2>1, <2>2, <3>1
  <2>4. CASE run[c] = "compensate"
    <3>1. j \in Commits(c) \/ recorded = <<>> \/ recorded[j].notify # 0
      BY <2>4, CommitsInOrder
    <3>2. recorded # <<>> => recorded[j].notify \in {0, 1}
      BY <1>1 DEF InvShape, Infos
    <3>3. j \in Commits(c) \/ work[j] >= 1
      BY <3>1, <3>2 DEF InvWork
    <3> QED
      BY <2>1, <2>2, <3>3
  <2> QED
    BY <2>3, <2>4
<1> QED
  BY <1>2

\* Alone, on work as the record says, it does exactly what is missing.
LEMMA CloseExact ==
  ASSUME SameOrder, TypeOK, InvShape, Untouched, kept,
         NEW c \in Commands, run[c] = "compensate"
  PROVE  \A j \in DOMAIN work : Done(Commits(c))[j] = 1
<1>1. Commits(c) \subseteq DOMAIN calls /\ DOMAIN calls = DOMAIN work
  BY DEF Commits, InvShape
<1>2. ASSUME NEW j \in DOMAIN work PROVE Done(Commits(c))[j] = 1
  <2>1. MaxWork = 2 /\ work[j] = IF recorded = <<>> THEN 1 ELSE recorded[j].notify
    BY DEF Untouched, MaxWork
  <2>2. Done(Commits(c))[j] = IF j \in Commits(c) /\ work[j] < MaxWork THEN work[j] + 1 ELSE work[j]
    BY <1>1, DoneInOrder
  <2>3. j \in Commits(c) <=> recorded # <<>> /\ recorded[j].notify = 0
    BY CommitsInOrder
  <2>4. recorded # <<>> => recorded[j].notify \in {0, 1}
    BY <1>1 DEF InvShape, Infos
  <2> QED
    BY <2>1, <2>2, <2>3, <2>4
<1> QED
  BY <1>2

\* No work is taken back, and the record and its calls stay.
LEMMA WorkGrows ==
  ASSUME TypeOK, [Next]_vars
  PROVE  /\ UNCHANGED recordVars /\ DOMAIN work' = DOMAIN work
         /\ \A j \in DOMAIN work : work[j] \in Nat /\ work'[j] \in Nat /\ work'[j] >= work[j]
         /\ dropped => dropped'
<1>1. \A j \in DOMAIN work : work[j] \in Nat
  BY DEF TypeOK, MaxWork
<1>2. ASSUME NEW c \in Commands, Close(c)
      PROVE  /\ UNCHANGED recordVars /\ DOMAIN work' = DOMAIN work
             /\ \A j \in DOMAIN work : work'[j] \in Nat /\ work'[j] >= work[j]
             /\ UNCHANGED dropped
  <2>1. PICK S : work' = Done(S)
    BY <1>2 DEF Close
  <2>2. UNCHANGED recordVars /\ UNCHANGED dropped
    BY <1>2 DEF Close
  <2>3. \A j \in DOMAIN work : work'[j] \in Nat
    BY <2>1, DoneCounts DEF TypeOK, MaxWork
  <2> QED
    BY <1>1, <2>1, <2>2, <2>3, DoneCounts
<1>3. (\E c \in Commands : Close(c)) \/ (UNCHANGED recordVars /\ UNCHANGED work)
  BY DEF Next, Callback, Press, Drop, Execute, Timeout, Decide, Wake, Delete, Notify,
         Open, Reply, vars
<1>4. (\E c \in Commands : Close(c)) \/ UNCHANGED dropped \/ dropped'
  BY DEF Next, Callback, Press, Drop, Execute, Timeout, Decide, Wake, Delete, Notify,
         Open, Reply, vars
<1> QED
  BY <1>1, <1>2, <1>3, <1>4

\* What was done stays done.
LEMMA WorkNext == InvWork /\ TypeOK /\ [Next]_vars => InvWork'
BY WorkGrows DEF InvWork, recordVars

\* What a command's re-run and its answer change.
LEMMA RunSteps ==
  ASSUME IInv, [Next]_vars
  PROVE  \/ UNCHANGED <<work, run>> /\ (Answered' => Answered)
         \/ /\ Opened' = Opened /\ UNCHANGED work /\ (Answered' => Answered)
            /\ \A c \in Commands : run'[c] = run[c] \/ (run[c] = "none" /\ run'[c] = "sent")
         \/ \E c \in Commands : Open(c) \/ Close(c) \/ Reply(c)
<1> USE DEF recordVars, execVars
<1>0. /\ got \in [Executors -> {"none", "1", "0", "-2"}]
      /\ tries \in [Executors -> 0 .. MaxTries] /\ run \in [Commands -> RunStates]
  BY DEF IInv, TypeOK
<1>1. ASSUME Callback \/ Drop \/ Wake \/ Notify \/ UNCHANGED vars
      PROVE  UNCHANGED <<work, run>> /\ UNCHANGED got
  BY <1>1 DEF Callback, Drop, Wake, Notify, vars
<1>2. ASSUME NEW x \in Executors, Press(x) \/ Decide(x) \/ Delete(x)
      PROVE  UNCHANGED <<work, run>> /\ UNCHANGED got
  BY <1>2 DEF Press, Decide, Delete
<1>3. ASSUME NEW x \in Executors, Timeout(x)
      PROVE  UNCHANGED <<work, run>> /\ (Answered' => Answered)
  BY <1>0, <1>3 DEF Timeout, Answered
<1>4. ASSUME NEW x \in Executors, Execute(x)
      PROVE  \/ UNCHANGED <<work, run>> /\ (Answered' => Answered)
             \/ /\ Opened' = Opened /\ UNCHANGED work /\ (Answered' => Answered)
                /\ \A c \in Commands : run'[c] = run[c] \/ (run[c] = "none" /\ run'[c] = "sent")
  <2>1. CASE UNCHANGED <<tries, got, run>>
    BY <1>4, <2>1 DEF Execute, Answered
  <2>2. CASE /\ got' = [got EXCEPT ![x] = "none"]
             /\ run' = [run EXCEPT ![<<x, tries[x] + 1>>] = "sent"]
    <3>1. UNCHANGED work
      BY <1>4 DEF Execute
    <3>2. Answered' => Answered
      BY <1>0, <2>2 DEF Answered
    <3>3. \A c \in Commands : run'[c] = run[c] \/ (c = <<x, tries[x] + 1>> /\ run'[c] = "sent")
      BY <1>0, <2>2
    <3>4. \A c \in Commands : c = <<x, tries[x] + 1>> => run[c] = "none"
      <4>1. tries[x] \in Nat /\ ~(tries[x] + 1 <= tries[x])
        BY <1>0
      <4> QED
        BY <4>1 DEF IInv, InvTries
    <3>5. \A c \in Commands : run'[c] = run[c] \/ (run[c] = "none" /\ run'[c] = "sent")
      BY <3>3, <3>4
    <3>6. Opened' = Opened
      BY <3>5 DEF Opened
    <3> QED
      BY <3>1, <3>2, <3>5, <3>6
  <2> QED
    BY <1>4, <2>1, <2>2 DEF Execute
<1>5. UNCHANGED got => (Answered' => Answered)
  BY DEF Answered
<1> QED
  BY <1>1, <1>2, <1>3, <1>4, <1>5 DEF Next

\* The only record not kept, unless an administrator deleted it, is an answered one.
LEMMA KeptOrAnswered == InvRecord => kept \/ dropped \/ Answered
BY DEF InvRecord, Answered

\* Nothing is missing from the moment a re-run has closed well: only a close answered
\* "1" is the origin of an answer and of a deletion by an executor.
LEMMA FullNext ==
  ASSUME SameOrder, IInv, InvWork, InvFull, [Next]_vars
  PROVE  InvFull'
<1> SUFFICES ASSUME ~dropped',
                    \/ Answered' \/ ~kept'
                    \/ \E c \in Commands : run'[c] = "ok"
             PROVE  Full'
  BY DEF InvFull, Answered
<1>1. ~dropped /\ (Full => Full')
  BY WorkGrows DEF IInv, Full
<1>2. Answered \/ ~kept \/ (\E c \in Commands : run[c] = "ok") => Full'
  BY <1>1 DEF InvFull, Answered
<1>3. ~kept' => ~kept \/ Answered
  <2>1. ~kept' /\ kept => Drop \/ \E x \in Executors : Delete(x)
    BY DEF Next, Callback, Press, Execute, Timeout, Decide, Wake, Notify, Open, Close, Reply, vars
  <2>2. ~Drop
    BY DEF Drop
  <2>3. ASSUME NEW x \in Executors, Delete(x) PROVE Answered
    BY <2>3 DEF Delete, IInv, InvRecord, Answered
  <2> QED
    BY <2>1, <2>2, <2>3
<1>4. CASE \E c \in Commands : Open(c) \/ Close(c) \/ Reply(c)
  <2>0. run \in [Commands -> RunStates] /\ got \in [Executors -> {"none", "1", "0", "-2"}]
    BY DEF IInv, TypeOK
  <2>1. ASSUME NEW c \in Commands, Open(c) PROVE Full'
    <3>1. UNCHANGED got /\ \A d \in Commands : run'[d] = "ok" => run[d] = "ok"
      BY <2>0, <2>1 DEF Open, execVars
    <3> QED
      BY <1>2, <1>3, <3>1 DEF Answered
  <2>2. ASSUME NEW c \in Commands, Close(c) PROVE Full'
    <3>1. UNCHANGED <<got, kept>> /\ run[c] \in {"normal", "compensate"}
      BY <2>2 DEF Close, execVars
    <3>2. CASE work' = Done(Commits(c))
      <4>1. kept => \A j \in DOMAIN work : Done(Commits(c))[j] >= 1
        BY <3>1, CloseFull DEF IInv
      <4>2. DOMAIN work' = DOMAIN work
        BY WorkGrows DEF IInv
      <4> QED
        BY <1>2, <3>2, <4>1, <4>2 DEF Full
    <3>3. CASE run' = [run EXCEPT ![c] = "failed"]
      <4>1. \A d \in Commands : run'[d] = "ok" => run[d] = "ok"
        BY <2>0, <3>3
      <4> QED
        BY <1>2, <3>1, <4>1 DEF Answered
    <3> QED
      BY <2>2, <3>2, <3>3 DEF Close
  <2>3. ASSUME NEW c \in Commands, Reply(c) PROVE Full'
    <3>1. Answered' => Answered \/ run[c] = "ok"
      BY <2>0, <2>3 DEF Reply, Answered
    <3>2. UNCHANGED kept /\ \A d \in Commands : run'[d] = "ok" => run[d] = "ok"
      BY <2>0, <2>3 DEF Reply
    <3> QED
      BY <1>2, <3>1, <3>2
  <2> QED
    BY <1>4, <2>1, <2>2, <2>3
<1>5. CASE /\ Answered' => Answered
           /\ \A c \in Commands : run'[c] = run[c] \/ (run[c] = "none" /\ run'[c] = "sent")
  BY <1>2, <1>3, <1>5
<1> QED
  BY <1>4, <1>5, RunSteps

\* Until a second re-run opens, the work is as the record says, or exactly done.
LEMMA FirstNext ==
  ASSUME SameOrder, IInv, InvFirst, [Next]_vars
  PROVE  InvFirst'
<1> SUFFICES ASSUME ~dropped'
             PROVE  InvFirst'
  BY DEF InvFirst
<1>0. /\ run \in [Commands -> RunStates] /\ got \in [Executors -> {"none", "1", "0", "-2"}]
      /\ ~dropped /\ UNCHANGED recorded
  BY WorkGrows DEF IInv, TypeOK, recordVars
<1>1. /\ Opened = {} => Untouched /\ ~Answered
      /\ \A c \in Commands : Opened = {c} =>
           /\ run[c] # "normal"
           /\ run[c] \in {"compensate", "failed", "ok"} => ~Answered
           /\ run[c] = "compensate" => Untouched
           /\ run[c] = "ok" => Exact
           /\ Answered => Exact
  BY <1>0 DEF InvFirst
<1>2. ~Answered => kept
  BY <1>0, KeptOrAnswered DEF IInv
<1>3. UNCHANGED work => (Untouched => Untouched') /\ (Exact => Exact')
  BY <1>0 DEF Untouched, Exact
<1>4. CASE UNCHANGED <<work, run>> /\ (Answered' => Answered)
  <2>1. Opened' = Opened /\ UNCHANGED run
    BY <1>4 DEF Opened
  <2> QED
    BY <1>1, <1>3, <1>4, <2>1 DEF InvFirst
<1>5. CASE /\ Opened' = Opened /\ UNCHANGED work /\ (Answered' => Answered)
           /\ \A c \in Commands : run'[c] = run[c] \/ (run[c] = "none" /\ run'[c] = "sent")
  <2>1. \A c \in Commands : Opened = {c} => run'[c] = run[c]
    BY <1>5 DEF Opened
  <2> QED
    BY <1>1, <1>3, <1>5, <2>1 DEF InvFirst
<1>6. ASSUME NEW c \in Commands, Open(c) PROVE InvFirst'
  <2>1. /\ run[c] = "sent" /\ run' = [run EXCEPT ![c] = IF kept THEN "compensate" ELSE "normal"]
        /\ UNCHANGED <<work, got>>
    BY <1>6 DEF Open, execVars
  <2>2. c \notin Opened /\ Opened' = Opened \cup {c}
    <3>1. run'[c] \in {"compensate", "normal"} /\ \A d \in Commands \ {c} : run'[d] = run[d]
      BY <1>0, <2>1
    <3> QED
      BY <2>1, <3>1 DEF Opened
  <2>3. Answered' = Answered
    BY <2>1 DEF Answered
  <2>4. ASSUME NEW d \in Commands, Opened' = {d}
        PROVE  run'[d] = "compensate" /\ Untouched' /\ ~Answered'
    <3>1. d = c /\ Opened = {}
      BY <2>2, <2>4
    <3> QED
      BY <1>0, <1>1, <1>2, <1>3, <2>1, <2>3, <3>1
  <2> QED
    BY <2>2, <2>4 DEF InvFirst
<1>7. ASSUME NEW c \in Commands, Close(c) PROVE InvFirst'
  <2>1. /\ run[c] \in {"normal", "compensate"} /\ UNCHANGED got
        /\ \/ work' = Done(Commits(c)) /\ run' = [run EXCEPT ![c] = "ok"]
           \/ run' = [run EXCEPT ![c] = "failed"]
    BY <1>7 DEF Close, execVars
  <2>2. c \in Opened /\ Opened' = Opened
    <3>1. run'[c] \in {"ok", "failed"} /\ \A d \in Commands \ {c} : run'[d] = run[d]
      BY <1>0, <2>1
    <3> QED
      BY <2>1, <3>1 DEF Opened
  <2>3. Answered' = Answered
    BY <2>1 DEF Answered
  <2>4. ASSUME NEW d \in Commands, Opened' = {d}
        PROVE  /\ run'[d] \in {"ok", "failed"} /\ ~Answered'
               /\ run'[d] = "ok" => Exact'
    <3>1. d = c /\ Opened = {c}
      BY <2>2, <2>4
    <3>2. run[c] = "compensate" /\ Untouched /\ ~Answered /\ kept
      BY <1>1, <1>2, <2>1, <3>1
    <3>3. \A j \in DOMAIN work : Done(Commits(c))[j] = 1
      BY <3>2, CloseExact DEF IInv
    <3>4. DOMAIN work' = DOMAIN work
      BY WorkGrows DEF IInv
    <3> QED
      BY <1>0, <2>1, <2>3, <3>1, <3>2, <3>3, <3>4 DEF Exact
  <2> QED
    BY <2>2, <2>4 DEF InvFirst
<1>8. ASSUME NEW c \in Commands, Reply(c) PROVE InvFirst'
  <2>1. /\ run[c] \in {"ok", "failed"} /\ run' = [run EXCEPT ![c] = "over"] /\ UNCHANGED work
        /\ Answered' => Answered \/ run[c] = "ok"
    BY <1>0, <1>8 DEF Reply, Answered
  <2>2. c \in Opened /\ Opened' = Opened
    <3>1. run'[c] = "over" /\ \A d \in Commands \ {c} : run'[d] = run[d]
      BY <1>0, <2>1
    <3> QED
      BY <2>1, <3>1 DEF Opened
  <2>3. ASSUME NEW d \in Commands, Opened' = {d}
        PROVE  run'[d] = "over" /\ (Answered' => Exact')
    <3>1. d = c /\ Opened = {c}
      BY <2>2, <2>3
    <3> QED
      BY <1>0, <1>1, <1>3, <2>1, <3>1
  <2> QED
    BY <2>2, <2>3 DEF InvFirst
<1> QED
  BY <1>4, <1>5, <1>6, <1>7, <1>8, RunSteps

\* Initially the work is what the record calls notified.
LEMMA OrderInit == Init => InvWork /\ InvFull /\ InvFirst
<1> SUFFICES ASSUME Init PROVE InvWork /\ InvFull /\ InvFirst
  OBVIOUS
<1>1. /\ kept = TRUE
      /\ got = [x \in Executors |-> "none"]
      /\ run = [c \in Commands |-> "none"]
  BY DEF Init
<1>2. Opened = {} /\ ~Answered
  BY <1>1 DEF Opened, Answered
<1>3. \A c \in Commands : run[c] # "ok"
  BY <1>1
<1>4. PICK keys \in CallLists :
        \/ \E notify \in [DOMAIN keys -> {0, 1}] :
             /\ recorded = [i \in DOMAIN keys |-> [key |-> keys[i], notify |-> notify[i]]]
             /\ work = notify
        \/ recorded = <<>> /\ work = [i \in DOMAIN keys |-> 1]
  BY DEF Init
<1>5. Untouched
  <2>1. CASE recorded = <<>> /\ work = [i \in DOMAIN keys |-> 1]
    BY <2>1 DEF Untouched
  <2>2. ASSUME NEW notify \in [DOMAIN keys -> {0, 1}],
               recorded = [i \in DOMAIN keys |-> [key |-> keys[i], notify |-> notify[i]]],
               work = notify
        PROVE  Untouched
    <3>1. \A j \in DOMAIN work : recorded[j].notify = work[j] /\ j \in DOMAIN recorded
      BY <2>2
    <3> QED
      BY <3>1 DEF Untouched
  <2> QED
    BY <1>4, <2>1, <2>2
<1>6. InvWork
  BY <1>5 DEF InvWork, Untouched
<1>7. InvFull
  BY <1>1, <1>2, <1>3 DEF InvFull, Answered
<1>8. InvFirst
  BY <1>2, <1>5 DEF InvFirst
<1> QED
  BY <1>6, <1>7, <1>8

\* Where re-runs repeat the calls in the recorded order, a group that no one
\* deletes has all its work when it is answered, and a first re-run finds the work
\* as the record describes it.
THEOREM OrderInvariance ==
  ASSUME SameOrder
  PROVE  Spec => []OrderInv
<1>1. Init => OrderInv
  BY StateInit, OrderInit DEF OrderInv
<1>2. OrderInv /\ [Next]_vars => OrderInv'
  <2> SUFFICES ASSUME OrderInv, [Next]_vars PROVE OrderInv'
    OBVIOUS
  <2>1. IInv'
    BY TypeNext, ShapeNext, TriesNext, RecordNext, ReportNext DEF OrderInv, IInv
  <2>2. InvWork'
    BY WorkNext DEF OrderInv, IInv
  <2>3. InvFull' /\ InvFirst'
    BY FullNext, FirstNext DEF OrderInv
  <2> QED
    BY <2>1, <2>2, <2>3 DEF OrderInv
<1> QED
  BY <1>1, <1>2, PTL DEF Spec

\* What reloadCompensate lets commit, over all re-runs of a record and whichever
\* of them fail or are answered late, is everything that was missing.
THEOREM NothingIsLost ==
  ASSUME SameOrder
  PROVE  Spec => []NothingLost
<1>1. OrderInv => NothingLost
  BY DEF OrderInv, InvFull, Full, NothingLost
<1> QED
  BY <1>1, OrderInvariance, PTL

\* A record that one re-run has satisfied has each call's work exactly once: what
\* was committed before is not committed again.
THEOREM FirstRunIsExact ==
  ASSUME SameOrder
  PROVE  Spec => []FirstRunExact
<1>1. OrderInv => FirstRunExact
  <2> SUFFICES ASSUME OrderInv, Answered, ~dropped, Cardinality(Opened) = 1
               PROVE  Exact
    BY DEF FirstRunExact, Answered, Opened, Exact
  <2>1. IsFiniteSet(Commands)
    <3>1. IsFiniteSet(Executors)
      BY CompensationAssumption, FS_AddElement DEF Executors
    <3>2. IsFiniteSet(1 .. MaxTries)
      <4>1. 1 \in Int /\ MaxTries \in Int
        BY DEF MaxTries
      <4> QED
        BY ONLY <4>1, FS_Interval
    <3> QED
      BY <3>1, <3>2, FS_Product DEF Commands
  <2>2. Opened \subseteq Commands
    BY DEF Opened
  <2>3. PICK c : Opened = {c}
    BY <2>1, <2>2, FS_Subset, FS_Singleton
  <2> QED
    BY <2>2, <2>3 DEF OrderInv, InvFirst
<1> QED
  BY <1>1, OrderInvariance, PTL
=============================================================================
