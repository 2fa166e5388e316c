---------------------------- MODULE TaskQueueProofs ----------------------------
(***************************************************************************)
(* Proofs about TaskQueue, for any number of managers and of tasks, and    *)
(* any bounds.                                                             *)
(***************************************************************************)
EXTENDS TaskQueue, FiniteSetTheorems, TLAPS

(* The task in hand is a task of the file, chosen with retries left.       *)
InHand == {"execute", "record"} \cup Updating
ChoiceInv ==
  \A m \in Managers :
    /\ pc[m] \in InHand => task[m] \in Tasks
    /\ pc[m] = "execute" => retry[m] < MaxRetries

(* What executed.log says is done has succeeded or was marked, and a task  *)
(* that is about to be recorded has succeeded.                             *)
Done(t) == successes[t] > 0 \/ t \in marked
DoneInv ==
  /\ \A t \in executed : Done(t)
  /\ \A m \in Managers : pc[m] = "record" => successes[task[m]] > 0
  /\ DependenciesFirst

(* A task that is not in executed.log has no success but those whose       *)
(* record was lost to a kill or a command, or the one about to be recorded.*)
OnceInv ==
  \A t \in Tasks \ Repeating :
    /\ successes[t] <= 1 + killed + commands
    /\ \/ t \in executed
       \/ \E m \in Managers : pc[m] = "record" /\ task[m] = t
       \/ successes[t] <= killed + commands
    /\ \A m \in Managers :
         pc[m] = "execute" /\ task[m] = t => successes[t] <= killed + commands

(* The failures of t in a row that the file need not account for: one for  *)
(* each kill, and for each command whose awk has run one, or all the       *)
(* retries if the user has set the count of t to 0.                        *)
Before == {"truncate", "rewrite"}
Rewrites == commands - (IF user.step \in Before THEN 1 ELSE 0)
Weight(t) == IF t \in zeroed THEN MaxRetries + 1 ELSE 1
Spare(k, r, w) == k + r * w
Spared(t) == Spare(killed, Rewrites, Weight(t))

(* The counts in the file f account for the failures of t.                 *)
Covers(f, t) == t \in DOMAIN f => failures[t] <= f[t] + Spared(t)

(* They do but for one, while a manager has not finished its update.       *)
Owed(t) ==
  IF \E m \in Managers : pc[m] \in Updating /\ task[m] = t THEN 1 ELSE 0
AlmostCovers(f, t) ==
  t \in DOMAIN f => failures[t] <= f[t] + Spared(t) + Owed(t)

(* A file is open for writing during an awk only, and a command that sets  *)
(* counts to 0 is counted as one.                                          *)
WriterInv ==
  /\ \A m \in Managers : out[m] # "none" <=> pc[m] = "rewrite"
  /\ user.step \in Before => commands > 0
  /\ user.tasks \subseteq zeroed

CountInv ==
  /\ \A t \in Tasks : failures[t] <= MaxRetries + Spared(t)
  /\ \A f \in {csv} \cup tmp, t \in Tasks : AlmostCovers(f, t)

(* The counts in the hands of manager m, and in the files around its       *)
(* update.                                                                 *)
UpdateInv(m) ==
  LET t == task[m]
  IN  /\ pc[m] = "execute" => failures[t] <= retry[m] + Spared(t)
      /\ pc[m] = "record" => failures[t] = 0
      /\ pc[m] \in Before => failures[t] <= newRetry[m] + Spared(t)
      /\ pc[m] \in {"rewrite", "rename"} => \A f \in tmp : Covers(f, t)
      /\ pc[m] = "rewrite" /\ out[m] # "tmp" => Covers(csv, t)
      /\ pc[m] = "rename" /\ tmp = {} => Covers(csv, t)

RetryInv == WriterInv /\ CountInv /\ \A m \in Managers : UpdateInv(m)

-----------------------------------------------------------------------------
(* Types                                                                   *)

Files == [Tasks -> 0 .. MaxRetries] \cup {Blank}

(* An awk leaves a file of the same tasks.                                 *)
LEMMA AwkTypes ==
  ASSUME NEW f \in Files, NEW S, NEW n \in 0 .. MaxRetries
  PROVE  [t \in DOMAIN f |-> IF t \in S THEN n ELSE f[t]] \in Files
<1> DEFINE g == [t \in DOMAIN f |-> IF t \in S THEN n ELSE f[t]]
<1>1. CASE f \in [Tasks -> 0 .. MaxRetries]
  BY <1>1 DEF Files
<1>2. CASE f = Blank
  <2>1. DOMAIN f = {}
    BY <1>2 DEF Blank
  <2>2. g = [i \in 1 .. 0 |-> 0]
    BY <2>1
  <2>3. g = <<>>
    BY <2>2
  <2> QED BY <2>3 DEF Files, Blank
<1> QED BY <1>1, <1>2 DEF Files

(* The three files of an update, as TypeOK has them.                       *)
TableOK ==
  /\ {csv} \cup tmp \subseteq Files /\ Cardinality(tmp) <= 1
  /\ out \in [Managers \cup {TheUser} -> {"none", "tmp", "csv", "gone"}]

(* The shell empties the temporary file.                                   *)
LEMMA RedirectTypes ==
  ASSUME TableOK, NEW w \in Managers \cup {TheUser}, Redirect(w)
  PROVE  TableOK'
<1>1. Cardinality({Blank}) = 1
  BY FS_Singleton
<1> QED BY <1>1 DEF TableOK, Redirect, Files

(* awk writes one of the two files.                                        *)
LEMMA AwkTableTypes ==
  ASSUME TableOK, NEW w \in Managers \cup {TheUser}, NEW S,
         NEW n \in 0 .. MaxRetries, Awk(w, S, n)
  PROVE  TableOK'
<1> DEFINE g == [t \in DOMAIN csv |-> IF t \in S THEN n ELSE csv[t]]
<1>1. g \in Files
  BY AwkTypes DEF TableOK
<1>2. /\ csv' \in {g, csv} /\ tmp' \in {{g}, tmp}
      /\ out' = [out EXCEPT ![w] = "none"]
  BY DEF Awk
<1> HIDE DEF g
<1>3. Cardinality({g}) = 1
  BY FS_Singleton
<1> QED BY <1>1, <1>2, <1>3 DEF TableOK

(* mv leaves no temporary file.                                            *)
LEMMA MoveTypes ==
  ASSUME TableOK, Move
  PROVE  TableOK'
<1>1. CASE tmp = {}
  BY <1>1 DEF Move, TableOK, table
<1>2. CASE tmp # {}
  <2>1. Cardinality({}) = 0
    BY FS_EmptySet
  <2>2. csv' \in tmp /\ tmp' = {}
    BY <1>2 DEF Move
  <2>3. out' \in [Managers \cup {TheUser} -> {"none", "tmp", "csv", "gone"}]
    BY <1>2 DEF Move, TableOK
  <2> QED BY <2>1, <2>2, <2>3 DEF TableOK
<1> QED BY <1>1, <1>2

(* A manager that is not at a step of a task of its own.                   *)
Quiet(m) ==
  \/ CheckLock(m) \/ RemoveStale(m) \/ CreateLock(m) \/ WriteLock(m)
  \/ SelectNothing(m) \/ QuotaExceeded(m) \/ ReleaseLock(m) \/ StartManager(m)

(* It changes no file and nothing of the other managers, and takes no task *)
(* in hand.                                                                *)
QuietEffect(m) ==
  /\ UNCHANGED <<files, early, history>>
  /\ lock' \in {lock, NoFile, Empty, m}
  /\ pc[m] \notin Updating \cup {"record"}
  /\ pc' \in {[pc EXCEPT ![m] = p] :
       p \in {"idle", "start", "stale", "acquire", "write", "select", "release"}}
  /\ task' \in [Managers -> Tasks \cup {NoTask}]
  /\ retry' \in [Managers -> 0 .. MaxRetries]
  /\ newRetry' \in [Managers -> 0 .. MaxRetries]
  /\ \A n \in Managers : n # m => UNCHANGED <<task[n], retry[n], newRetry[n]>>

(* All quiet steps have that effect.                                       *)
LEMMA QuietParts ==
  ASSUME TypeOK, NEW m \in Managers, Quiet(m)
  PROVE  QuietEffect(m)
<1>1. /\ UNCHANGED <<files, early, history>>
      /\ lock' \in {lock, NoFile, Empty, m}
      /\ pc[m] \notin Updating \cup {"record"}
      /\ pc' \in {[pc EXCEPT ![m] = p] :
           p \in {"idle", "start", "stale", "acquire", "write", "select", "release"}}
      /\ UNCHANGED local \/ Exit(m)
  BY DEF Quiet, CheckLock, RemoveStale, CreateLock, WriteLock, SelectNothing,
         QuotaExceeded, ReleaseLock, StartManager, files, Updating
<1>2. /\ task' \in [Managers -> Tasks \cup {NoTask}]
      /\ retry' \in [Managers -> 0 .. MaxRetries]
      /\ newRetry' \in [Managers -> 0 .. MaxRetries]
      /\ \A n \in Managers :
           n # m => UNCHANGED <<task[n], retry[n], newRetry[n]>>
  BY <1>1, QueueAssumption DEF TypeOK, Exit, local
<1> QED BY <1>1, <1>2 DEF QuietEffect

(* A quiet step keeps the types.                                           *)
LEMMA QuietTypes ==
  ASSUME TypeOK, ChoiceInv, NEW m \in Managers, Quiet(m)
  PROVE  TypeOK' /\ ChoiceInv'
<1>0. QuietEffect(m)
  BY QuietParts
<1>1. TypeOK'
  BY <1>0 DEF QuietEffect, TypeOK, history, given, files, table
<1>2. ASSUME NEW n \in Managers
      PROVE  /\ pc'[n] \in InHand => task'[n] \in Tasks
             /\ pc'[n] = "execute" => retry'[n] < MaxRetries
  BY <1>0 DEF QuietEffect, ChoiceInv, TypeOK, InHand, Updating
<1> QED BY <1>1, <1>2 DEF ChoiceInv

(* A process that ends changes its own variables only.                     *)
LEMMA ExitTypes ==
  ASSUME TypeOK, NEW m \in Managers, Exit(m)
  PROVE  /\ task' \in [Managers -> Tasks \cup {NoTask}]
         /\ retry' \in [Managers -> 0 .. MaxRetries]
         /\ newRetry' \in [Managers -> 0 .. MaxRetries]
         /\ \A n \in Managers :
              n # m => UNCHANGED <<task[n], retry[n], newRetry[n]>>
BY QueueAssumption DEF TypeOK, Exit

(* The rest of TypeOK.                                                     *)
RestOK ==
  /\ pc \in [Managers -> {"idle", "start", "stale", "acquire", "write",
                          "select", "execute", "record", "release"}
                         \cup Updating]
  /\ lock \in Managers \cup {NoFile, Empty, Dead}
  /\ executed \subseteq Tasks \ Repeating /\ early \subseteq Tasks
  /\ task \in [Managers -> Tasks \cup {NoTask}]
  /\ retry \in [Managers -> 0 .. MaxRetries]
  /\ newRetry \in [Managers -> 0 .. MaxRetries]
  /\ successes \in [Tasks -> Nat] /\ failures \in [Tasks -> Nat]
  /\ user \in [step : {"idle"} \cup Updating, tasks : SUBSET Tasks]
  /\ marked \subseteq zeroed /\ zeroed \subseteq Tasks
  /\ commands \in 0 .. MaxCommands /\ killed \in 0 .. MaxKills

(* TypeOK is about the files of an update, and about the rest.             *)
LEMMA TypeParts == TypeOK <=> TableOK /\ RestOK
BY DEF TypeOK, TableOK, RestOK, Files

(* Every step keeps the types, and the task in hand one of the file.       *)
LEMMA TypeStep ==
  ASSUME TypeOK, ChoiceInv, [Next]_vars
  PROVE  TypeOK' /\ ChoiceInv'
<1> USE DEF files, local, history, given
<1>0. /\ Tasks \subseteq 1 .. 9 /\ Repeating \subseteq Tasks
      /\ MaxRetries \in Nat /\ MaxKills \in Nat /\ MaxCommands \in Nat
  BY QueueAssumption
<1>1. ASSUME NEW m \in Managers, Select(m) PROVE TypeOK' /\ ChoiceInv'
  <2>1. PICK t \in Tasks : /\ Eligible(t)
                           /\ task' = [task EXCEPT ![m] = t]
                           /\ retry' = [retry EXCEPT ![m] = csv[t]]
    BY <1>1 DEF Select
  <2>2. csv[t] \in 0 .. MaxRetries /\ csv[t] < MaxRetries
    BY <2>1 DEF Eligible, TypeOK, Blank
  <2>3. /\ pc' = [pc EXCEPT ![m] = "execute"]
        /\ UNCHANGED <<lock, files, early, newRetry, history>>
    BY <1>1 DEF Select
  <2>4. TypeOK'
    BY <2>1, <2>2, <2>3 DEF TypeOK, table
  <2>5. ChoiceInv'
    BY <2>1, <2>2, <2>3 DEF TypeOK, ChoiceInv, InHand, Updating
  <2> QED BY <2>4, <2>5
<1>2. ASSUME NEW m \in Managers, Succeed(m) PROVE TypeOK' /\ ChoiceInv'
  <2>1. task[m] \in Tasks
    BY <1>2 DEF Succeed, ChoiceInv, InHand
  <2> QED BY <2>1, <1>2 DEF Succeed, TypeOK, table, ChoiceInv, InHand, Updating
<1>3. ASSUME NEW m \in Managers, Record(m) PROVE TypeOK' /\ ChoiceInv'
  <2>1. task[m] \in Tasks
    BY <1>3 DEF Record, ChoiceInv, InHand
  <2>2. executed' \subseteq Tasks \ Repeating /\ early' \subseteq Tasks
    BY <2>1, <1>3 DEF Record, TypeOK
  <2>3. newRetry' \in [Managers -> 0 .. MaxRetries]
    BY <1>0, <1>3 DEF Record, TypeOK
  <2>5. TypeOK'
    BY <2>2, <2>3, <1>3 DEF Record, TypeOK, Updating, table
  <2>4. ChoiceInv'
    BY <1>3 DEF Record, TypeOK, ChoiceInv, InHand, Updating
  <2> QED BY <2>4, <2>5
<1>4. ASSUME NEW m \in Managers, Fail(m) PROVE TypeOK' /\ ChoiceInv'
  <2>1. task[m] \in Tasks /\ retry[m] + 1 \in 0 .. MaxRetries
    BY <1>0, <1>4 DEF Fail, ChoiceInv, InHand, TypeOK
  <2>4. /\ newRetry' \in [Managers -> 0 .. MaxRetries]
        /\ failures' \in [Tasks -> Nat]
    BY <2>1, <1>4 DEF Fail, TypeOK
  <2>2. TypeOK'
    BY <2>4, <1>4 DEF Fail, TypeOK, Updating, table
  <2>3. ChoiceInv'
    BY <1>4 DEF Fail, TypeOK, ChoiceInv, InHand, Updating
  <2> QED BY <2>2, <2>3
<1>5. ASSUME NEW m \in Managers, Truncate(m) \/ Rewrite(m) \/ Rename(m)
      PROVE  TypeOK' /\ ChoiceInv'
  <2>1. TableOK
    BY TypeParts
  <2>2. TableOK'
    <3>1. CASE Truncate(m)
      BY <3>1, <2>1, RedirectTypes DEF Truncate
    <3>2. CASE Rewrite(m)
      <4>1. newRetry[m] \in 0 .. MaxRetries
        BY DEF TypeOK
      <4> QED BY <3>2, <4>1, <2>1, AwkTableTypes DEF Rewrite
    <3>3. CASE Rename(m)
      BY <3>3, <2>1, MoveTypes DEF Rename
    <3> QED BY <3>1, <3>2, <3>3, <1>5
  <2>3. /\ \E p \in Updating \cup {"release"} : pc' = [pc EXCEPT ![m] = p]
        /\ pc[m] \in Updating
        /\ UNCHANGED <<lock, executed, early, local, history>>
    BY <1>5 DEF Truncate, Rewrite, Rename, Updating
  <2>4. RestOK /\ pc' \in [Managers -> {"idle", "start", "stale", "acquire",
            "write", "select", "execute", "record", "release"} \cup Updating]
    BY <2>3, TypeParts DEF RestOK
  <2>6. RestOK'
    BY <2>3, <2>4 DEF RestOK
  <2>5. ChoiceInv'
    BY <2>3 DEF TypeOK, ChoiceInv, InHand, Updating
  <2> QED BY <2>2, <2>5, <2>6 DEF TypeOK, TableOK, RestOK, Files
<1>6. ASSUME NEW m \in Managers, Kill(m) PROVE TypeOK' /\ ChoiceInv'
  <2>1. /\ task' \in [Managers -> Tasks \cup {NoTask}]
        /\ retry' \in [Managers -> 0 .. MaxRetries]
        /\ newRetry' \in [Managers -> 0 .. MaxRetries]
        /\ \A n \in Managers : n # m => UNCHANGED <<task[n], retry[n], newRetry[n]>>
    BY <1>6, ExitTypes DEF Kill
  <2>2. TypeOK'
    BY <1>0, <2>1, <1>6 DEF Kill, TypeOK
  <2>3. ChoiceInv'
    BY <2>1, <1>6 DEF Kill, TypeOK, ChoiceInv, InHand, Updating
  <2> QED BY <2>2, <2>3
<1>7. ASSUME UNCHANGED <<pc, local, successes, failures, killed>>, TableOK',
             lock' \in {lock, NoFile}, marked' \subseteq zeroed',
             zeroed' \subseteq Tasks, commands' \in 0 .. MaxCommands,
             executed' \subseteq Tasks \ Repeating, early' \subseteq Tasks,
             user' \in [step : {"idle"} \cup Updating, tasks : SUBSET Tasks]
      PROVE  TypeOK' /\ ChoiceInv'
  <2>1. RestOK
    BY TypeParts
  <2>2. RestOK'
    BY <1>7, <2>1 DEF RestOK
  <2>3. ChoiceInv'
    BY <1>7 DEF ChoiceInv
  <2> QED BY <1>7, <2>2, <2>3 DEF TypeOK, TableOK, RestOK, Files
<1>8. CASE User
  <2>0. TableOK
    BY TypeParts
  <2>1. ASSUME NEW t \in Tasks, Complete(t) PROVE TypeOK' /\ ChoiceInv'
    <3>1. executed' \subseteq Tasks \ Repeating /\ early' \subseteq Tasks
      BY <2>1 DEF Complete, TypeOK
    <3>2. /\ UNCHANGED <<pc, local, successes, failures, killed, lock, table>>
          /\ marked' \subseteq zeroed' /\ zeroed' \subseteq Tasks
          /\ commands' \in 0 .. MaxCommands
          /\ user' \in [step : {"idle"} \cup Updating, tasks : SUBSET Tasks]
      BY <1>0, <2>1 DEF Complete, TypeOK, Updating
    <3>3. TableOK'
      BY <2>0, <3>2 DEF TableOK, table
    <3> QED BY <1>7, <3>1, <3>2, <3>3
  <2>2. ASSUME NEW logs, Reset(logs) PROVE TypeOK' /\ ChoiceInv'
    <3>1. executed' \subseteq Tasks \ Repeating /\ early' \subseteq Tasks
      BY <2>2 DEF Reset, TypeOK
    <3>2. /\ UNCHANGED <<pc, local, successes, failures, killed, table>>
          /\ lock' \in {lock, NoFile}
          /\ marked' = marked /\ zeroed' \in {zeroed, Tasks}
          /\ user' \in {user, [step |-> "truncate", tasks |-> Tasks]}
          /\ commands < MaxCommands /\ commands' = commands + 1
      BY <2>2 DEF Reset
    <3>3. TableOK'
      BY <2>0, <3>2 DEF TableOK, table
    <3>4. /\ marked' \subseteq zeroed' /\ zeroed' \subseteq Tasks
          /\ commands' \in 0 .. MaxCommands
      BY <1>0, <3>2 DEF TypeOK
    <3>5. user' \in [step : {"idle"} \cup Updating, tasks : SUBSET Tasks]
      BY <3>2 DEF TypeOK, Updating
    <3> QED BY <1>7, <3>1, <3>2, <3>3, <3>4, <3>5
  <2>3. ASSUME UserTruncate \/ UserRewrite \/ UserRename
        PROVE  TypeOK' /\ ChoiceInv'
    <3>1. /\ UNCHANGED <<pc, lock, executed, early, local, marked, zeroed,
                         commands, successes, failures, killed>>
          /\ user' \in [step : {"idle"} \cup Updating, tasks : SUBSET Tasks]
      BY <2>3 DEF UserTruncate, UserRewrite, UserRename, TypeOK, Updating
    <3>2. TableOK'
      BY <2>3, <2>0, <1>0, RedirectTypes, AwkTableTypes, MoveTypes
         DEF UserTruncate, UserRewrite, UserRename
    <3>3. /\ marked \subseteq zeroed /\ zeroed \subseteq Tasks
          /\ commands \in 0 .. MaxCommands
          /\ executed \subseteq Tasks \ Repeating /\ early \subseteq Tasks
      BY TypeParts DEF RestOK
    <3> QED BY <1>7, <3>1, <3>2, <3>3
  <2> QED BY <1>8, <2>1, <2>2, <2>3 DEF User
<1>9. ASSUME NEW t \in Tasks, TimePasses(t) PROVE TypeOK' /\ ChoiceInv'
  BY <1>9 DEF TimePasses, TypeOK, table, ChoiceInv
<1>10. CASE UNCHANGED vars
  BY <1>10 DEF vars, TypeOK, table, ChoiceInv
<1> QED BY <1>1, <1>2, <1>3, <1>4, <1>5, <1>6, <1>8, <1>9, <1>10, QuietTypes
           DEF Next, Manager, Run, Quiet

-----------------------------------------------------------------------------
(* Dependencies                                                            *)

(* The manager has had its task in hand, or has just chosen it.            *)
Kept(n) == pc[n] \in InHand /\ task'[n] = task[n]
Chosen(n) ==
  /\ pc[n] = "select" /\ pc'[n] = "execute"
  /\ task'[n] \in Tasks /\ Eligible(task'[n])
  /\ retry'[n] = csv[task'[n]]
  /\ UNCHANGED <<files, history>>

(* A task in hand after a step was so before, or has been chosen by it.    *)
LEMMA HandStep ==
  ASSUME TypeOK, [Next]_vars, NEW n \in Managers, pc'[n] \in InHand
  PROVE  Kept(n) \/ Chosen(n)
<1> USE DEF local, InHand, Updating
<1>1. ASSUME NEW m \in Managers, Quiet(m) PROVE Kept(n)
  <2>1. QuietEffect(m)
    BY <1>1, QuietParts
  <2> QED BY <2>1 DEF QuietEffect, TypeOK, Kept
<1>2. ASSUME NEW m \in Managers, Select(m) PROVE Kept(n) \/ Chosen(n)
  <2>1. PICK t \in Tasks : /\ Eligible(t)
                           /\ task' = [task EXCEPT ![m] = t]
                           /\ retry' = [retry EXCEPT ![m] = csv[t]]
    BY <1>2 DEF Select
  <2>2. /\ pc[m] = "select" /\ pc' = [pc EXCEPT ![m] = "execute"]
        /\ UNCHANGED <<files, history>>
    BY <1>2 DEF Select
  <2> QED BY <2>1, <2>2 DEF TypeOK, Kept, Chosen
<1>3. ASSUME NEW m \in Managers, Succeed(m) \/ Record(m) \/ Fail(m)
             \/ Truncate(m) \/ Rewrite(m) \/ Rename(m)
      PROVE  Kept(n)
  BY <1>3 DEF Succeed, Record, Fail, Truncate, Rewrite, Rename, TypeOK, Kept
<1>4. ASSUME NEW m \in Managers, Kill(m) PROVE Kept(n)
  BY <1>4 DEF Kill, Exit, TypeOK, Kept
<1>5. CASE UNCHANGED <<pc, local>>
  BY <1>5 DEF Kept
<1>6. User \/ (\E t \in Tasks : TimePasses(t)) \/ UNCHANGED vars
      => UNCHANGED <<pc, local>>
  BY DEF User, Complete, Reset, UserTruncate, UserRewrite, UserRename,
         TimePasses, vars
<1> QED BY <1>1, <1>2, <1>3, <1>4, <1>5, <1>6 DEF Next, Manager, Run, Quiet

(* Only a success, a failure, a kill and a command change the history.     *)
LEMMA HistoryStep ==
  ASSUME TypeOK, [Next]_vars
  PROVE  \/ UNCHANGED <<successes, failures, killed>>
         \/ \E m \in Managers : Succeed(m) \/ Fail(m) \/ Kill(m)
<1>1. ASSUME NEW m \in Managers, Quiet(m)
      PROVE  UNCHANGED <<successes, failures, killed>>
  <2>1. QuietEffect(m)
    BY <1>1, QuietParts
  <2> QED BY <2>1 DEF QuietEffect, history
<1>2. ASSUME NEW m \in Managers,
             \/ Select(m) \/ Record(m) \/ Truncate(m) \/ Rewrite(m) \/ Rename(m)
      PROVE  UNCHANGED <<successes, failures, killed>>
  BY <1>2 DEF Select, Record, Truncate, Rewrite, Rename, history
<1>3. User \/ (\E t \in Tasks : TimePasses(t)) \/ UNCHANGED vars
      => UNCHANGED <<successes, failures, killed>>
  BY DEF User, Complete, Reset, UserTruncate, UserRewrite, UserRename,
         TimePasses, vars, history
<1> QED BY <1>1, <1>2, <1>3 DEF Next, Manager, Run, Quiet

(* executed.log grows by a record and by a mark only.                      *)
LEMMA LogStep ==
  ASSUME TypeOK, [Next]_vars
  PROVE  /\ marked \subseteq marked'
         /\ \/ executed' \subseteq executed
            \/ \E m \in Managers : Record(m)
            \/ \E t \in Tasks : Complete(t)
<1>1. ASSUME NEW m \in Managers, Quiet(m) PROVE UNCHANGED <<executed, marked>>
  <2>1. QuietEffect(m)
    BY <1>1, QuietParts
  <2> QED BY <2>1 DEF QuietEffect, files, history, given
<1>2. ASSUME NEW m \in Managers,
             \/ Select(m) \/ Succeed(m) \/ Fail(m)
             \/ Truncate(m) \/ Rewrite(m) \/ Rename(m) \/ Kill(m)
      PROVE  UNCHANGED <<executed, marked>>
  BY <1>2 DEF Select, Succeed, Fail, Truncate, Rewrite, Rename, Kill, files,
              history, given
<1>3. ASSUME NEW logs, Reset(logs) PROVE executed' \subseteq executed /\ marked' = marked
  BY <1>3 DEF Reset
<1>4. UserTruncate \/ UserRewrite \/ UserRename
      \/ (\E t \in Tasks : TimePasses(t)) \/ UNCHANGED vars
      => UNCHANGED <<executed, marked>>
  BY DEF UserTruncate, UserRewrite, UserRename, TimePasses, vars, files,
         history, given
<1>5. ASSUME NEW m \in Managers, Record(m) PROVE marked' = marked
  BY <1>5 DEF Record, history, given
<1>6. ASSUME NEW t \in Tasks, Complete(t) PROVE marked \subseteq marked'
  BY <1>6 DEF Complete
<1> QED BY <1>1, <1>2, <1>3, <1>4, <1>5, <1>6
           DEF Next, Manager, Run, Quiet, User

(* A task is recorded after a success, and a success is of a task in hand. *)
LEMMA RecordStep ==
  ASSUME TypeOK, [Next]_vars, NEW n \in Managers, pc'[n] = "record"
  PROVE  /\ task'[n] = task[n]
         /\ Succeed(n) \/ pc[n] = "record"
<1>1. ASSUME NEW m \in Managers, Quiet(m)
      PROVE  pc[n] = "record" /\ task'[n] = task[n]
  <2>1. QuietEffect(m)
    BY <1>1, QuietParts
  <2> QED BY <2>1 DEF QuietEffect, TypeOK
<1>2. ASSUME NEW m \in Managers, 
             Select(m) \/ Succeed(m) \/ Record(m) \/ Fail(m)
             \/ Truncate(m) \/ Rewrite(m) \/ Rename(m)
      PROVE  /\ task'[n] = task[n]
             /\ Succeed(n) \/ pc[n] = "record"
  BY <1>2 DEF Select, Succeed, Record, Fail, Truncate, Rewrite, Rename,
              TypeOK, local
<1>3. ASSUME NEW m \in Managers, Kill(m)
      PROVE  pc[n] = "record" /\ task'[n] = task[n]
  BY <1>3 DEF Kill, Exit, TypeOK
<1>4. User \/ (\E t \in Tasks : TimePasses(t)) \/ UNCHANGED vars
      => UNCHANGED <<pc, local>>
  BY DEF User, Complete, Reset, UserTruncate, UserRewrite, UserRename,
         TimePasses, vars
<1> QED BY <1>1, <1>2, <1>3, <1>4 DEF Next, Manager, Run, Quiet, local

(* DoneInv is inductive, for any number of managers.                       *)
LEMMA DoneStep ==
  ASSUME TypeOK, ChoiceInv, DoneInv, [Next]_vars
  PROVE  DoneInv'
<1>0. Depends \in [Tasks -> SUBSET Tasks]
  BY QueueAssumption
<1>1. ASSUME NEW m \in Managers, Succeed(m)
      PROVE  /\ successes'[task[m]] > 0
             /\ \A t \in Tasks : successes'[t] >= successes[t]
  <2>1. task[m] \in Tasks
    BY <1>1 DEF Succeed, ChoiceInv, InHand
  <2> QED BY <2>1, <1>1 DEF Succeed, TypeOK
<1>2. \A t \in Tasks : successes'[t] >= successes[t]
  BY <1>1, HistoryStep DEF Fail, Kill, TypeOK
<1>n. successes \in [Tasks -> Nat] /\ successes' \in [Tasks -> Nat]
  BY TypeStep DEF TypeOK
<1>3. \A t \in Tasks : Done(t) => Done(t)'
  BY <1>n, <1>2, LogStep DEF Done
<1>4. \A t \in executed' : Done(t)'
  <2>1. \A t \in executed : t \in Tasks /\ Done(t)'
    BY <1>3 DEF DoneInv, TypeOK
  <2>2. ASSUME NEW m \in Managers, Record(m) PROVE \A t \in executed' : Done(t)'
    <3>1. executed' \subseteq executed \cup {task[m]} /\ task[m] \in Tasks
      BY <2>2 DEF Record, ChoiceInv, InHand
    <3>2. Done(task[m])
      BY <2>2 DEF Record, DoneInv, Done
    <3> QED BY <2>1, <3>1, <3>2, <1>3
  <2>3. ASSUME NEW u \in Tasks, Complete(u) PROVE \A t \in executed' : Done(t)'
    BY <2>1, <2>3 DEF Complete, Done
  <2> QED BY <2>1, <2>2, <2>3, LogStep
<1>5. ASSUME NEW m \in Managers, pc'[m] = "record" PROVE successes'[task'[m]] > 0
  <2>1. task'[m] = task[m]
    BY <1>5, RecordStep
  <2>2. CASE Succeed(m)
    BY <2>1, <2>2, <1>1
  <2>3. CASE pc[m] = "record"
    <3>1. task[m] \in Tasks /\ successes[task[m]] > 0
      BY <2>3 DEF ChoiceInv, InHand, DoneInv
    <3> QED BY <2>1, <3>1, <1>2, <1>n
  <2> QED BY <2>2, <2>3, <1>5, RecordStep
<1>6. ASSUME NEW m \in Managers, pc'[m] \in InHand
      PROVE  \A t \in Depends[task'[m]] : Done(t)'
  <2>1. CASE Kept(m)
    <3>1. task'[m] = task[m] /\ task[m] \in Tasks
          /\ \A t \in Depends[task[m]] : Done(t)
      BY <2>1 DEF Kept, InHand, DoneInv, DependenciesFirst, Done, ChoiceInv
    <3> QED BY <3>1, <1>0, <1>3
  <2>2. CASE Chosen(m)
    <3>1. \A t \in Depends[task'[m]] : t \in executed /\ t \in Tasks
      BY <2>2, <1>0 DEF Chosen, Eligible
    <3> QED BY <3>1, <1>3 DEF DoneInv
  <2> QED BY <1>6, <2>1, <2>2, HandStep
<1> QED BY <1>4, <1>5, <1>6 DEF DoneInv, DependenciesFirst, InHand, Done

(* At first no task is done or in hand.                                    *)
LEMMA QueueStart ==
  Init => TypeOK /\ ChoiceInv /\ DoneInv
<1> SUFFICES ASSUME Init PROVE TypeOK /\ ChoiceInv /\ DoneInv
  OBVIOUS
<1>1. TypeOK
  <2>1. Cardinality({}) = 0
    BY FS_EmptySet
  <2> QED BY <2>1, QueueAssumption DEF Init, TypeOK
<1>2. ChoiceInv /\ DoneInv
  BY DEF Init, ChoiceInv, DoneInv, DependenciesFirst, InHand, Updating
<1> QED BY <1>1, <1>2

(* The invariant that needs no lock.  It holds for any number of managers  *)
(* that run at once.                                                       *)
THEOREM QueueInvariance == Spec => [](TypeOK /\ ChoiceInv /\ DoneInv)
<1>1. TypeOK /\ ChoiceInv /\ DoneInv /\ [Next]_vars
      => (TypeOK /\ ChoiceInv /\ DoneInv)'
  BY TypeStep, DoneStep
<1> QED BY <1>1, QueueStart, PTL DEF Spec

(* Every variable has its type, whatever the managers and the user do.     *)
THEOREM TypeCorrectness == Spec => []TypeOK
BY QueueInvariance, PTL

(* A task runs after the tasks it depends on, with any number of managers  *)
(* that run at once, are killed, or see the history reset under them.      *)
THEOREM Dependencies == Spec => []DependenciesFirst
<1>1. DoneInv => DependenciesFirst
  BY DEF DoneInv
<1> QED BY <1>1, QueueInvariance, PTL

-----------------------------------------------------------------------------
(* A done task is not repeated, as long as the lock works.                 *)

(* OnceInv is kept by the steps taken while at most one manager runs.      *)
LEMMA OnceStep ==
  ASSUME TypeOK, ChoiceInv, OnceInv, MutualExclusion, [Next]_vars
  PROVE  OnceInv'
<1> USE DEF local, given
<1>0. /\ successes \in [Tasks -> Nat] /\ commands \in Nat /\ killed \in Nat
      /\ Repeating \subseteq Tasks
  BY QueueAssumption DEF TypeOK
<1>1. ASSUME UNCHANGED successes,
             \/ killed' = killed + 1 /\ commands' = commands
             \/ killed' = killed /\ commands' = commands + 1
      PROVE  OnceInv'
  <2>1. ASSUME NEW t \in Tasks \ Repeating
        PROVE  /\ successes'[t] \in Nat
               /\ successes'[t] <= killed' + commands'
               /\ successes'[t] <= 1 + killed' + commands'
    <3>1. successes[t] <= 1 + killed + commands /\ successes[t] \in Nat
      BY <1>0 DEF OnceInv
    <3> QED BY <3>1, <1>0, <1>1
  <2> QED BY <2>1 DEF OnceInv
<1>2. ASSUME UNCHANGED <<successes, executed, killed, commands>>,
             \A n \in Managers :
               /\ pc[n] = "record" => pc'[n] = "record" /\ task'[n] = task[n]
               /\ pc'[n] = "execute" => pc[n] = "execute" /\ task'[n] = task[n]
      PROVE  OnceInv'
  BY <1>2 DEF OnceInv
<1>3. ASSUME NEW m \in Managers, Quiet(m) PROVE OnceInv'
  <2>1. QuietEffect(m)
    BY <1>3, QuietParts
  <2>2. UNCHANGED <<successes, executed, killed, commands>>
    BY <2>1 DEF QuietEffect, files, history
  <2>3. ASSUME NEW n \in Managers
        PROVE  /\ pc[n] = "record" => pc'[n] = "record" /\ task'[n] = task[n]
               /\ pc'[n] = "execute" => pc[n] = "execute" /\ task'[n] = task[n]
    BY <2>1 DEF QuietEffect, TypeOK
  <2> QED BY <1>2, <2>2, <2>3
<1>4. ASSUME NEW m \in Managers, Select(m) PROVE OnceInv'
  <2>1. PICK t \in Tasks : Eligible(t) /\ task' = [task EXCEPT ![m] = t]
    BY <1>4 DEF Select
  <2>2. /\ pc[m] = "select" /\ pc' = [pc EXCEPT ![m] = "execute"]
        /\ UNCHANGED <<files, history>>
    BY <1>4 DEF Select
  <2>3. \A n \in Managers : pc[n] # "record"
    BY <2>2 DEF MutualExclusion, Running, Updating
  <2>4. t \notin Repeating => successes[t] <= killed + commands
    BY <2>1, <2>3 DEF OnceInv, Eligible
  <2> QED BY <2>1, <2>2, <2>3, <2>4 DEF OnceInv, TypeOK, files, history
<1>5. ASSUME NEW m \in Managers, Succeed(m) PROVE OnceInv'
  <2>1. /\ task[m] \in Tasks /\ pc[m] = "execute"
        /\ pc' = [pc EXCEPT ![m] = "record"]
        /\ successes' = [successes EXCEPT ![task[m]] = @ + 1]
        /\ UNCHANGED <<executed, task, killed, commands>>
    BY <1>5 DEF Succeed, ChoiceInv, InHand, files
  <2>2. \A n \in Managers : n # m => pc[n] \notin {"execute", "record"}
    BY <2>1 DEF MutualExclusion, Running, Updating
  <2>3. \A n \in Managers : pc'[n] = "record" <=> n = m
    BY <2>1, <2>2 DEF TypeOK
  <2>4. \A n \in Managers : pc'[n] # "execute"
    BY <2>1, <2>2 DEF TypeOK
  <2>5. ASSUME NEW t \in Tasks \ Repeating, t # task[m]
        PROVE  /\ successes'[t] = successes[t]
               /\ successes[t] <= killed + commands \/ t \in executed
    BY <2>1, <2>2, <2>5, <1>0 DEF OnceInv
  <2>6. ASSUME NEW t \in Tasks \ Repeating, t = task[m]
        PROVE  successes'[t] <= 1 + killed + commands
    BY <2>1, <2>6, <1>0 DEF OnceInv
  <2> QED BY <2>1, <2>3, <2>4, <2>5, <2>6, <1>0 DEF OnceInv
<1>6. ASSUME NEW m \in Managers, Record(m) PROVE OnceInv'
  <2>1. /\ pc[m] = "record" /\ pc' = [pc EXCEPT ![m] = "truncate"]
        /\ executed' = IF task[m] \in Repeating THEN executed ELSE executed \cup {task[m]}
        /\ UNCHANGED <<successes, task, killed, commands>>
    BY <1>6 DEF Record, history
  <2>2. \A n \in Managers : n # m => pc[n] # "record" /\ pc[n] # "execute"
    BY <2>1 DEF MutualExclusion, Running, Updating
  <2>3. \A n \in Managers : pc'[n] # "execute"
    BY <2>1, <2>2 DEF TypeOK
  <2> QED BY <2>1, <2>2, <2>3, <1>0 DEF OnceInv
<1>7. ASSUME NEW m \in Managers,
             Fail(m) \/ Truncate(m) \/ Rewrite(m) \/ Rename(m)
      PROVE  OnceInv'
  <2>1. UNCHANGED <<successes, executed, killed, commands>>
    BY <1>7 DEF Fail, Truncate, Rewrite, Rename, files, history
  <2>2. /\ pc[m] # "record" /\ UNCHANGED task
        /\ pc' \in {[pc EXCEPT ![m] = p] : p \in Updating \cup {"release"}}
    BY <1>7 DEF Fail, Truncate, Rewrite, Rename, Updating
  <2>3. ASSUME NEW n \in Managers
        PROVE  /\ pc[n] = "record" => pc'[n] = "record" /\ task'[n] = task[n]
               /\ pc'[n] = "execute" => pc[n] = "execute" /\ task'[n] = task[n]
    BY <2>2 DEF Updating, TypeOK
  <2> QED BY <1>2, <2>1, <2>3
<1>8. ASSUME NEW m \in Managers, Kill(m) PROVE OnceInv'
  BY <1>0, <1>1, <1>8 DEF Kill
<1>9. ASSUME NEW t \in Tasks, Complete(t) PROVE OnceInv'
  BY <1>0, <1>1, <1>9 DEF Complete
<1>10. ASSUME NEW logs, Reset(logs) PROVE OnceInv'
  BY <1>0, <1>1, <1>10 DEF Reset
<1>11. ASSUME \/ UserTruncate \/ UserRewrite \/ UserRename
              \/ (\E t \in Tasks : TimePasses(t)) \/ UNCHANGED vars
       PROVE  OnceInv'
  <2>1. UNCHANGED <<pc, task, successes, executed, killed, commands>>
    BY <1>11 DEF UserTruncate, UserRewrite, UserRename, TimePasses, vars,
                 files, history
  <2> QED BY <1>2, <2>1
<1> QED BY <1>3, <1>4, <1>5, <1>6, <1>7, <1>8, <1>9, <1>10, <1>11
           DEF Next, Manager, Run, Quiet, User

(* Two managers that never run tasks at once repeat no task that is done:  *)
(* what DoneOnce loses to several managers, it loses to the lock.          *)
THEOREM OnceIfLocked == Spec /\ []MutualExclusion => []DoneOnce
<1>1. Init => OnceInv
  BY DEF Init, OnceInv
<1>2. OnceInv => DoneOnce
  BY DEF OnceInv, DoneOnce
<1>3. TypeOK /\ ChoiceInv /\ DoneInv /\ MutualExclusion /\ OnceInv /\ [Next]_vars
      => OnceInv'
  BY OnceStep
<1> QED BY <1>1, <1>2, <1>3, QueueInvariance, PTL DEF Spec

(* With one manager, for any tasks, kills and commands.                    *)
THEOREM OnceAlone ==
  ASSUME \A m, n \in Managers : m = n
  PROVE  Spec => []DoneOnce
<1>1. MutualExclusion
  BY DEF MutualExclusion
<1> QED BY <1>1, OnceIfLocked, PTL

-----------------------------------------------------------------------------
(* Retries are bounded, as long as the lock works.                         *)

(* One more kill and one more rewriting, and what they are worth.          *)
LEMMA SpareParts ==
  ASSUME NEW k \in Nat, NEW r \in Nat, NEW w \in Nat
  PROVE  /\ Spare(k, r, w) \in Nat
         /\ Spare(k + 1, r, w) = Spare(k, r, w) + 1
         /\ Spare(k, r + 1, w) = Spare(k, r, w) + w
         /\ \A v \in Nat : w <= v => Spare(k, r, w) <= Spare(k, r, v)
<1>1. /\ r * w \in Nat /\ (r + 1) * w = r * w + w
  OBVIOUS
<1>2. ASSUME NEW v \in Nat, w <= v PROVE r * v \in Nat /\ r * w <= r * v
  <2>1. v - w \in Nat /\ r * (v - w) \in Nat
    BY <1>2
  <2>2. r * v = r * w + r * (v - w) /\ r * v \in Nat
    BY <1>2
  <2> QED BY <1>1, <2>1, <2>2
<1> DEFINE p == r * w
<1>3. p \in Nat /\ (r + 1) * w = p + w /\ Spare(k, r, w) = k + p
      /\ Spare(k + 1, r, w) = k + 1 + p
      /\ Spare(k, r + 1, w) = k + (r + 1) * w
  BY <1>1 DEF Spare
<1>4. ASSUME NEW v \in Nat, w <= v PROVE Spare(k, r, w) <= Spare(k, r, v)
  <2> DEFINE q == r * v
  <2>1. q \in Nat /\ p <= q /\ Spare(k, r, v) = k + q
    BY <1>2, <1>4 DEF Spare
  <2> HIDE DEF p, q
  <2> QED BY <1>3, <2>1
<1> HIDE DEF p
<1> QED BY <1>3, <1>4

(* A command is worth one failure at least, and all retries to a task it   *)
(* sets to 0.                                                              *)
LEMMA WeightParts ==
  ASSUME NEW t
  PROVE  /\ Weight(t) \in Nat /\ Weight(t) >= 1
         /\ t \in zeroed => Weight(t) = MaxRetries + 1
         /\ Weight(t) <= MaxRetries + 1
BY QueueAssumption DEF Weight

(* What each kind of step does to the failures that are spared.            *)
LEMMA SparedNat ==
  ASSUME TypeOK, WriterInv, NEW t \in Tasks
  PROVE  Spared(t) \in Nat /\ Rewrites \in Nat /\ killed \in Nat
<1>1. killed \in Nat /\ Rewrites \in Nat
  BY QueueAssumption DEF TypeOK, WriterInv, Rewrites
<1> QED BY <1>1, SpareParts, WeightParts DEF Spared

(* The other steps spare as many failures as before.                       *)
LEMMA SparedSame ==
  ASSUME UNCHANGED <<killed, commands, zeroed>>,
         user'.step \in Before <=> user.step \in Before, NEW t \in Tasks
  PROVE  Spared(t)' = Spared(t)
BY DEF Spared, Rewrites, Weight

(* A kill spares one more failure of each task.                            *)
LEMMA SparedKill ==
  ASSUME TypeOK, WriterInv, NEW m \in Managers, Kill(m), NEW t \in Tasks
  PROVE  Spared(t)' = Spared(t) + 1
<1>1. killed \in Nat /\ Rewrites \in Nat /\ Weight(t) \in Nat
  BY SparedNat, WeightParts
<1>2. /\ killed' = killed + 1 /\ Rewrites' = Rewrites
      /\ Weight(t)' = Weight(t)
  BY DEF Kill, given, Rewrites, Weight
<1> QED BY <1>1, <1>2, SpareParts DEF Spared

(* The awk of a command spares a command's worth of failures.              *)
LEMMA SparedRewrite ==
  ASSUME TypeOK, WriterInv, UserRewrite, NEW t \in Tasks
  PROVE  Spared(t)' = Spared(t) + Weight(t)
<1>1. killed \in Nat /\ Rewrites \in Nat /\ Weight(t) \in Nat
  BY SparedNat, WeightParts
<1>2. /\ killed' = killed /\ Weight(t)' = Weight(t)
      /\ user.step = "rewrite" /\ user'.step = "rename" /\ commands' = commands
  BY DEF UserRewrite, TypeOK, Weight
<1>3. Rewrites' = Rewrites + 1
  BY <1>2, QueueAssumption DEF TypeOK, Rewrites, Before
<1> QED BY <1>1, <1>2, <1>3, SpareParts DEF Spared

(* A command that begins does not take back what was spared.               *)
LEMMA SparedCommand ==
  ASSUME TypeOK, WriterInv, NEW t \in Tasks,
         (\E u \in Tasks : Complete(u)) \/ (\E logs : Reset(logs))
  PROVE  Spared(t)' >= Spared(t) /\ Spared(t)' \in Nat
<1>1. killed \in Nat /\ Rewrites \in Nat /\ Rewrites + 1 \in Nat
      /\ Weight(t) \in Nat
  BY SparedNat, WeightParts
<1>2. /\ killed' = killed /\ zeroed \subseteq zeroed'
      /\ user.step = "idle" /\ commands' = commands + 1
  BY DEF Complete, Reset, TypeOK
<1>3. Rewrites' \in {Rewrites, Rewrites + 1}
  BY <1>2, QueueAssumption DEF TypeOK, Rewrites, Before
<1>4. Weight(t)' \in Nat /\ Weight(t) <= Weight(t)'
  BY <1>2, QueueAssumption DEF Weight
<1> DEFINE v == Weight(t)'
<1>5. v \in Nat /\ Weight(t) <= v
  BY <1>4
<1>6. Spared(t)' \in {Spare(killed, Rewrites, v), Spare(killed, Rewrites + 1, v)}
  BY <1>2, <1>3 DEF Spared
<1> HIDE DEF v
<1>7. /\ Spare(killed, Rewrites, v) >= Spared(t)
      /\ Spare(killed, Rewrites, v) \in Nat
      /\ Spare(killed, Rewrites + 1, v) = Spare(killed, Rewrites, v) + v
      /\ Spared(t) \in Nat
  BY <1>1, <1>5, SpareParts DEF Spared
<1> QED BY <1>5, <1>6, <1>7

(* The numbers RetryInv compares are natural numbers.                      *)
LEMMA Numbers ==
  ASSUME TypeOK, WriterInv
  PROVE  /\ failures \in [Tasks -> Nat] /\ MaxRetries \in Nat
         /\ \A t \in Tasks : Spared(t) \in Nat /\ Owed(t) \in {0, 1}
         /\ \A f \in {csv} \cup tmp :
              DOMAIN f \subseteq Tasks /\ \A t \in DOMAIN f : f[t] \in Nat
<1>1. failures \in [Tasks -> Nat] /\ MaxRetries \in Nat
  BY QueueAssumption DEF TypeOK
<1>2. \A t \in Tasks : Spared(t) \in Nat /\ Owed(t) \in {0, 1}
  BY SparedNat DEF Owed
<1>3. ASSUME NEW f \in {csv} \cup tmp
      PROVE  DOMAIN f \subseteq Tasks /\ \A t \in DOMAIN f : f[t] \in Nat
  <2>1. f \in Files
    BY TypeParts DEF TableOK
  <2>2. CASE f \in [Tasks -> 0 .. MaxRetries]
    BY <2>2, <1>1
  <2>3. CASE f = Blank
    <3>1. DOMAIN f = {}
      BY <2>3 DEF Blank
    <3> QED BY <3>1
  <2> QED BY <2>1, <2>2, <2>3 DEF Files
<1> QED BY <1>1, <1>2, <1>3

(* A file that covers the failures of t goes on to do so while t does not  *)
(* fail, and what is spared does not shrink.                               *)
LEMMA CoversLater ==
  ASSUME NEW f, NEW t \in Tasks, t \in DOMAIN f => f[t] \in Nat,
         failures[t] \in Nat, failures'[t] \in Nat, failures'[t] <= failures[t],
         Spared(t) \in Nat, Spared(t)' \in Nat, Spared(t)' >= Spared(t)
  PROVE  Covers(f, t) => Covers(f, t)'
BY DEF Covers

(* The same of a file that almost covers them.                             *)
LEMMA AlmostLater ==
  ASSUME NEW f, NEW t \in Tasks, t \in DOMAIN f => f[t] \in Nat,
         failures[t] \in Nat, failures'[t] \in Nat, failures'[t] <= failures[t],
         Spared(t) \in Nat, Spared(t)' \in Nat, Owed(t) \in Nat, Owed(t)' \in Nat,
         Spared(t)' + Owed(t)' >= Spared(t) + Owed(t)
  PROVE  AlmostCovers(f, t) => AlmostCovers(f, t)'
BY DEF AlmostCovers

(* A step after which no less is spared, that changes no file and fails no *)
(* task.                                                                   *)
Lenient ==
  /\ UNCHANGED <<csv, tmp>>
  /\ \A t \in Tasks :
       /\ failures'[t] <= failures[t]
       /\ Spared(t)' \in Nat /\ Spared(t)' >= Spared(t)
       /\ Spared(t)' + Owed(t)' >= Spared(t) + Owed(t)

(* A lenient step keeps CountInv, and UpdateInv of a manager it leaves     *)
(* alone.                                                                  *)
LEMMA LenientStep ==
  ASSUME TypeOK, TypeOK', WriterInv, CountInv, Lenient
  PROVE  /\ CountInv'
         /\ \A m \in Managers :
              /\ UpdateInv(m)
              /\ pc[m] \in InHand => task[m] \in Tasks
              /\ UNCHANGED <<pc[m], task[m], retry[m], newRetry[m], out[m]>>
              => UpdateInv(m)'
<1>1. /\ failures \in [Tasks -> Nat] /\ MaxRetries \in Nat
      /\ \A t \in Tasks : Spared(t) \in Nat /\ Owed(t) \in {0, 1}
      /\ \A f \in {csv} \cup tmp :
           DOMAIN f \subseteq Tasks /\ \A t \in DOMAIN f : f[t] \in Nat
  BY Numbers
<1>2. /\ failures' \in [Tasks -> Nat]
      /\ \A t \in Tasks : Owed(t)' \in {0, 1}
  BY DEF TypeOK, Owed
<1>3. ASSUME NEW t \in Tasks
      PROVE  /\ failures[t] \in Nat /\ failures'[t] \in Nat
             /\ failures'[t] <= failures[t]
             /\ Spared(t) \in Nat /\ Spared(t)' \in Nat
             /\ Spared(t)' >= Spared(t)
             /\ Owed(t) \in Nat /\ Owed(t)' \in Nat
             /\ Spared(t)' + Owed(t)' >= Spared(t) + Owed(t)
  BY <1>1, <1>2 DEF Lenient
<1>4. ASSUME NEW t \in Tasks PROVE failures'[t] <= MaxRetries + Spared(t)'
  <2>1. failures[t] <= MaxRetries + Spared(t)
    BY DEF CountInv
  <2> QED BY <1>1, <1>3, <2>1
<1>5. ASSUME NEW f \in {csv} \cup tmp, NEW t \in Tasks
      PROVE  AlmostCovers(f, t)' /\ (Covers(f, t) => Covers(f, t)')
  <2>1. t \in DOMAIN f => f[t] \in Nat
    BY <1>1
  <2>2. AlmostCovers(f, t)
    BY DEF CountInv
  <2>3. AlmostCovers(f, t)'
    BY <2>1, <2>2, <1>3, AlmostLater
  <2>4. Covers(f, t) => Covers(f, t)'
    BY <2>1, <1>3, CoversLater
  <2> QED BY <2>3, <2>4
<1>6. csv' = csv /\ tmp' = tmp
  BY DEF Lenient
<1>7. CountInv'
  BY <1>4, <1>5, <1>6 DEF CountInv
<1>8. ASSUME NEW m \in Managers, UpdateInv(m), pc[m] \in InHand => task[m] \in Tasks,
             UNCHANGED <<pc[m], task[m], retry[m], newRetry[m], out[m]>>
      PROVE  UpdateInv(m)'
  <2>0. CASE pc[m] \notin InHand
    BY <2>0, <1>8 DEF UpdateInv, InHand, Updating, Before
  <2>1. CASE pc[m] \in InHand
    <3>0. PICK t \in Tasks : task[m] = t /\ task'[m] = t
      BY <1>8, <2>1
    <3>a. pc'[m] = pc[m] /\ retry'[m] = retry[m] /\ newRetry'[m] = newRetry[m]
          /\ out'[m] = out[m]
      BY <1>8
    <3>1. retry[m] \in Nat /\ newRetry[m] \in Nat
      BY <1>1 DEF TypeOK
    <3>b. /\ pc[m] = "execute" => failures[t] <= retry[m] + Spared(t)
          /\ pc[m] = "record" => failures[t] = 0
          /\ pc[m] \in Before => failures[t] <= newRetry[m] + Spared(t)
          /\ pc[m] \in {"rewrite", "rename"} => \A f \in tmp : Covers(f, t)
          /\ pc[m] = "rewrite" /\ out[m] # "tmp" => Covers(csv, t)
          /\ pc[m] = "rename" /\ tmp = {} => Covers(csv, t)
      BY <1>8, <3>0 DEF UpdateInv
    <3>2. pc[m] = "execute" => failures'[t] <= retry[m] + Spared(t)'
      BY <3>b, <3>1, <1>3
    <3>3. pc[m] = "record" => failures'[t] = 0
      BY <3>b, <1>3
    <3>4. pc[m] \in Before => failures'[t] <= newRetry[m] + Spared(t)'
      BY <3>b, <3>1, <1>3
    <3>5. /\ pc[m] \in {"rewrite", "rename"} => \A f \in tmp : Covers(f, t)'
          /\ pc[m] = "rewrite" /\ out[m] # "tmp" => Covers(csv, t)'
          /\ pc[m] = "rename" /\ tmp = {} => Covers(csv, t)'
      BY <3>b, <1>5, <1>6 DEF Covers
    <3> QED BY <3>0, <3>a, <3>2, <3>3, <3>4, <3>5, <1>6 DEF UpdateInv
  <2> QED BY <2>0, <2>1
<1> QED BY <1>7, <1>8

(* The steps of RetryInv that fail no task and write no file.              *)
LEMMA QuietRetry ==
  ASSUME TypeOK, TypeOK', ChoiceInv, RetryInv, NEW m \in Managers, Quiet(m)
  PROVE  RetryInv'
<1>0. QuietEffect(m)
  BY QuietParts
<1>1. /\ UNCHANGED <<csv, tmp, out, failures, killed, commands, zeroed, user>>
      /\ pc[m] \notin Updating /\ pc'[m] \notin InHand
      /\ \A n \in Managers :
           n # m => UNCHANGED <<pc[n], task[n], retry[n], newRetry[n], out[n]>>
  BY <1>0 DEF QuietEffect, files, table, history, given, TypeOK, InHand, Updating
<1>2. WriterInv'
  BY <1>1 DEF RetryInv, WriterInv, InHand, Updating
<1>3. ASSUME NEW t \in Tasks
      PROVE  /\ failures'[t] <= failures[t]
             /\ Spared(t)' = Spared(t) /\ Owed(t)' = Owed(t) /\ Spared(t) \in Nat
  <2>1. (\E n \in Managers : pc'[n] \in Updating /\ task'[n] = t)
        <=> (\E n \in Managers : pc[n] \in Updating /\ task[n] = t)
    BY <1>1 DEF InHand
  <2>2. Owed(t)' = Owed(t)
    BY <2>1 DEF Owed
  <2>3. Spared(t)' = Spared(t)
    BY <1>1, SparedSame
  <2>4. failures[t] \in Nat /\ Spared(t) \in Nat
    BY SparedNat DEF TypeOK, RetryInv
  <2> QED BY <2>2, <2>3, <2>4, <1>1
<1>4. Lenient
  <2>1. \A t \in Tasks : Owed(t) \in Nat
    BY DEF Owed
  <2> QED BY <1>1, <1>3, <2>1 DEF Lenient
<1>5. CountInv'
  BY <1>4, LenientStep DEF RetryInv
<1>6. ASSUME NEW n \in Managers PROVE UpdateInv(n)'
  <2>1. CASE n = m
    BY <2>1, <1>1 DEF UpdateInv, InHand, Updating, Before
  <2>2. CASE n # m
    BY <2>2, <1>1, <1>4, LenientStep DEF RetryInv, ChoiceInv
  <2> QED BY <2>1, <2>2
<1> QED BY <1>2, <1>5, <1>6 DEF RetryInv

(* A step of a manager that runs is one of no other that does.             *)
LEMMA OthersWait ==
  ASSUME MutualExclusion, NEW m \in Managers, Running(m)
  PROVE  /\ \A n \in Managers : n # m => pc[n] \notin InHand
         /\ pc[m] \notin Updating => \A t : Owed(t) = 0
         /\ \A t : task[m] # t => Owed(t) = 0
<1>1. \A n \in Managers : n # m => pc[n] \notin InHand
  BY DEF MutualExclusion, Running, InHand
<1> QED BY <1>1 DEF Owed, InHand

(* The step of manager m, when no other has a task in hand.                *)
LEMMA AloneStep ==
  ASSUME CountInv', WriterInv', NEW m \in Managers, UpdateInv(m)',
         \A n \in Managers : n # m => pc'[n] \notin InHand
  PROVE  RetryInv'
<1>1. ASSUME NEW n \in Managers, n # m PROVE UpdateInv(n)'
  BY <1>1 DEF UpdateInv, InHand, Updating, Before
<1> QED BY <1>1 DEF RetryInv

(* Choosing a task, its success and the record of it.                      *)
LEMMA HandRetry ==
  ASSUME TypeOK, TypeOK', ChoiceInv, RetryInv, MutualExclusion,
         NEW m \in Managers, Select(m) \/ Succeed(m) \/ Record(m)
  PROVE  RetryInv'
<1>0. /\ failures \in [Tasks -> Nat] /\ MaxRetries \in Nat
      /\ \A t \in Tasks : Spared(t) \in Nat /\ Owed(t) \in {0, 1}
      /\ \A f \in {csv} \cup tmp :
           DOMAIN f \subseteq Tasks /\ \A t \in DOMAIN f : f[t] \in Nat
  BY Numbers DEF RetryInv
<1>1. /\ UNCHANGED <<csv, tmp, out, killed, commands, zeroed, user>>
      /\ pc[m] \in {"select", "execute", "record"}
      /\ \E p \in {"execute", "record", "truncate"} : pc' = [pc EXCEPT ![m] = p]
      /\ \A n \in Managers : n # m => task'[n] = task[n]
  BY DEF Select, Succeed, Record, files, table, history, given, local, TypeOK
<1>2. Running(m) /\ pc[m] \notin Updating
  BY <1>1 DEF Running, Updating
<1>3. \A n \in Managers : n # m => pc'[n] \notin InHand
  BY <1>1, <1>2, OthersWait DEF TypeOK
<1>4. WriterInv'
  BY <1>1 DEF RetryInv, WriterInv, TypeOK
<1>5. \A t \in Tasks : failures'[t] <= failures[t]
  <2>1. CASE Select(m) \/ Record(m)
    BY <2>1, <1>0 DEF Select, Record, history
  <2>2. CASE Succeed(m)
    <3>1. failures' = [failures EXCEPT ![task[m]] = 0]
      BY <2>2 DEF Succeed
    <3> QED BY <3>1, <1>0
  <2> QED BY <2>1, <2>2
<1>6. Lenient
  <2>1. ASSUME NEW t \in Tasks
        PROVE  Spared(t)' = Spared(t) /\ Owed(t) = 0 /\ Owed(t)' \in {0, 1}
    BY <1>1, <1>2, SparedSame, OthersWait DEF Owed
  <2> QED BY <1>0, <1>1, <1>5, <2>1 DEF Lenient
<1>7. CountInv'
  BY <1>6, LenientStep DEF RetryInv
<1>8. UpdateInv(m)'
  <2>1. CASE Select(m)
    <3>1. PICK t \in Tasks : /\ Eligible(t)
                             /\ task' = [task EXCEPT ![m] = t]
                             /\ retry' = [retry EXCEPT ![m] = csv[t]]
      BY <2>1 DEF Select
    <3>2. task'[m] = t /\ retry'[m] = csv[t] /\ pc'[m] = "execute" /\ failures' = failures
      BY <2>1, <3>1 DEF Select, TypeOK, history
    <3>3. Owed(t) = 0 /\ Spared(t)' = Spared(t)
      BY <1>1, <1>2, SparedSame, OthersWait
    <3>4. AlmostCovers(csv, t)
      BY DEF RetryInv, CountInv
    <3>5. failures[t] <= csv[t] + Spared(t)
      BY <1>0, <3>1, <3>3, <3>4 DEF Eligible, AlmostCovers
    <3> QED BY <3>2, <3>3, <3>5 DEF UpdateInv, Before
  <2>2. CASE Succeed(m)
    <3>1. task[m] \in Tasks
      BY <2>2 DEF Succeed, ChoiceInv, InHand
    <3>2. pc'[m] = "record" /\ task'[m] = task[m] /\ failures'[task[m]] = 0
      BY <2>2, <3>1 DEF Succeed, TypeOK, local
    <3> QED BY <3>2 DEF UpdateInv, Before
  <2>3. CASE Record(m)
    <3>1. PICK t \in Tasks : task[m] = t /\ task'[m] = t
      BY <2>3 DEF Record, ChoiceInv, InHand
    <3>2. pc'[m] = "truncate" /\ newRetry'[m] = 0 /\ failures' = failures
      BY <2>3 DEF Record, TypeOK, history
    <3>3. failures[t] = 0
      BY <2>3, <3>1 DEF Record, RetryInv, UpdateInv
    <3>4. Spared(t)' \in Nat
      BY <1>0, <1>1, SparedSame
    <3> QED BY <3>1, <3>2, <3>3, <3>4 DEF UpdateInv, Before
  <2> QED BY <2>1, <2>2, <2>3
<1> QED BY <1>3, <1>4, <1>7, <1>8, AloneStep

(* A failure: the count is one more, and the manager owes it to the file.  *)
LEMMA FailRetry ==
  ASSUME TypeOK, TypeOK', ChoiceInv, RetryInv, MutualExclusion,
         NEW m \in Managers, Fail(m)
  PROVE  RetryInv'
<1>0. /\ failures \in [Tasks -> Nat] /\ MaxRetries \in Nat
      /\ \A t \in Tasks : Spared(t) \in Nat /\ Owed(t) \in {0, 1}
      /\ \A f \in {csv} \cup tmp :
           DOMAIN f \subseteq Tasks /\ \A t \in DOMAIN f : f[t] \in Nat
  BY Numbers DEF RetryInv
<1>1. PICK t \in Tasks : task[m] = t /\ task'[m] = t
  BY DEF Fail, ChoiceInv, InHand
<1>2. /\ UNCHANGED <<csv, tmp, out, killed, commands, zeroed, user, task>>
      /\ pc[m] = "execute" /\ pc' = [pc EXCEPT ![m] = "truncate"]
      /\ failures' = [failures EXCEPT ![t] = @ + 1]
      /\ newRetry'[m] = retry[m] + 1 /\ retry[m] \in Nat /\ retry[m] < MaxRetries
  BY <1>0, <1>1 DEF Fail, files, table, given, TypeOK, ChoiceInv
<1>3. Running(m) /\ pc[m] \notin Updating /\ pc'[m] = "truncate"
  BY <1>2 DEF Running, Updating, TypeOK
<1>4. \A n \in Managers : n # m => pc'[n] \notin InHand
  BY <1>2, <1>3, OthersWait DEF TypeOK
<1>5. WriterInv'
  BY <1>2 DEF RetryInv, WriterInv, TypeOK
<1>6. failures[t] <= retry[m] + Spared(t)
  BY <1>1, <1>2 DEF RetryInv, UpdateInv
<1>7. ASSUME NEW u \in Tasks
      PROVE  Spared(u)' = Spared(u) /\ Owed(u) = 0 /\ Owed(u)' \in {0, 1}
             /\ (u = t => Owed(u)' = 1)
  BY <1>1, <1>2, <1>3, SparedSame, OthersWait DEF Owed, Updating
<1>8. ASSUME NEW u \in Tasks PROVE failures'[u] <= MaxRetries + Spared(u)'
  <2>1. failures[u] <= MaxRetries + Spared(u)
    BY DEF RetryInv, CountInv
  <2>2. CASE u = t
    BY <2>2, <1>0, <1>2, <1>6, <1>7
  <2>3. CASE u # t
    BY <2>1, <2>3, <1>0, <1>2, <1>7
  <2> QED BY <2>2, <2>3
<1>9. ASSUME NEW f \in {csv} \cup tmp, NEW u \in Tasks PROVE AlmostCovers(f, u)'
  <2>1. ASSUME u \in DOMAIN f PROVE failures'[u] <= f[u] + Spared(u)' + Owed(u)'
    <3>1. AlmostCovers(f, u)
      BY DEF RetryInv, CountInv
    <3>2. failures[u] <= f[u] + Spared(u) /\ f[u] \in Nat
      BY <3>1, <2>1, <1>0, <1>7 DEF AlmostCovers
    <3>3. CASE u = t
      BY <3>2, <3>3, <1>0, <1>2, <1>7
    <3>4. CASE u # t
      BY <3>2, <3>4, <1>0, <1>2, <1>7
    <3> QED BY <3>3, <3>4
  <2> QED BY <2>1 DEF AlmostCovers
<1>10. CountInv'
  BY <1>2, <1>8, <1>9 DEF CountInv
<1>11. failures'[t] <= newRetry'[m] + Spared(t)'
  BY <1>0, <1>2, <1>6, <1>7
<1>12. UpdateInv(m)'
  BY <1>1, <1>3, <1>11 DEF UpdateInv, Before
<1> QED BY <1>4, <1>5, <1>10, <1>12, AloneStep

(* The three steps of a manager's update.                                  *)
LEMMA UpdateRetry ==
  ASSUME TypeOK, TypeOK', ChoiceInv, RetryInv, MutualExclusion,
         NEW m \in Managers, Truncate(m) \/ Rewrite(m) \/ Rename(m)
  PROVE  RetryInv'
<1>0. /\ failures \in [Tasks -> Nat] /\ MaxRetries \in Nat
      /\ \A t \in Tasks : Spared(t) \in Nat /\ Owed(t) \in {0, 1}
      /\ \A f \in {csv} \cup tmp :
           DOMAIN f \subseteq Tasks /\ \A t \in DOMAIN f : f[t] \in Nat
  BY Numbers DEF RetryInv
<1>1. PICK t \in Tasks : task[m] = t /\ task'[m] = t
  BY DEF Truncate, Rewrite, Rename, ChoiceInv, InHand, Updating, local
<1>2. /\ UNCHANGED <<failures, killed, commands, zeroed, user, task, newRetry>>
      /\ pc[m] \in Updating
      /\ \E p \in {"rewrite", "rename", "release"} : pc' = [pc EXCEPT ![m] = p]
  BY DEF Truncate, Rewrite, Rename, Updating, history, given, local
<1>3. Running(m) /\ pc[m] \in InHand
  BY <1>2 DEF Running, InHand
<1>4. \A n \in Managers : n # m => pc'[n] \notin InHand
  BY <1>2, <1>3, OthersWait DEF TypeOK
<1>5. \A u \in Tasks : Spared(u)' = Spared(u) /\ Owed(u)' \in {0, 1}
  BY <1>2, SparedSame DEF Owed
<1>6. \A u \in Tasks : u # t => Owed(u) = 0
  BY <1>1, <1>3, OthersWait
<1>7. m # TheUser
  BY NamesAssumption
<1>8. \A u \in Tasks : failures'[u] <= MaxRetries + Spared(u)'
  BY <1>2, <1>5 DEF RetryInv, CountInv
<1>9. ASSUME NEW f \in {csv} \cup tmp, NEW u \in Tasks, u # t
      PROVE  Covers(f, u)
  <2>1. AlmostCovers(f, u) /\ Owed(u) = 0
    BY <1>6, <1>9 DEF RetryInv, CountInv
  <2> QED BY <2>1, <1>0 DEF AlmostCovers, Covers
<1>11. CASE Truncate(m)
  <2>1. /\ pc[m] = "truncate" /\ pc'[m] = "rewrite" /\ csv' = csv
        /\ tmp' = {Blank} /\ out' = [out EXCEPT ![m] = "tmp"]
        /\ pc' = [pc EXCEPT ![m] = "rewrite"]
    BY <1>11 DEF Truncate, Redirect, TypeOK
  <2>2. DOMAIN Blank = {}
    BY DEF Blank
  <2>3. WriterInv'
    BY <1>2, <2>1 DEF RetryInv, WriterInv, TypeOK
  <2>4. ASSUME NEW u \in Tasks PROVE AlmostCovers(csv, u)'
    <3>1. CASE u = t
      <4>1. Owed(u)' = 1
        BY <1>1, <2>1, <3>1 DEF Owed, Updating
      <4>2. AlmostCovers(csv, u)
        BY DEF RetryInv, CountInv
      <4> QED BY <4>1, <4>2, <1>0, <1>2, <1>5, <2>1 DEF AlmostCovers
    <3>2. CASE u # t
      <4>1. Covers(csv, u)
        BY <3>2, <1>9
      <4> QED BY <4>1, <1>0, <1>2, <1>5, <2>1 DEF AlmostCovers, Covers
    <3> QED BY <3>1, <3>2
  <2>5. CountInv'
    BY <1>8, <2>1, <2>2, <2>4 DEF CountInv, AlmostCovers
  <2>6. failures'[t] <= newRetry'[m] + Spared(t)'
    BY <1>1, <1>2, <1>5, <2>1 DEF RetryInv, UpdateInv, Before
  <2>7. out'[m] = "tmp"
    BY <2>1 DEF TypeOK
  <2>8. UpdateInv(m)'
    BY <1>1, <2>1, <2>2, <2>6, <2>7 DEF UpdateInv, Covers
  <2> QED BY <1>4, <2>3, <2>5, <2>8, AloneStep
<1>12. CASE Rewrite(m)
  <2> DEFINE g == [u \in DOMAIN csv |-> IF u \in {t} THEN newRetry[m] ELSE csv[u]]
  <2>1. /\ pc[m] = "rewrite" /\ pc' = [pc EXCEPT ![m] = "rename"]
        /\ pc'[m] = "rename"
        /\ csv' = IF out[m] = "csv" THEN g ELSE csv
        /\ tmp' = IF out[m] = "tmp" THEN {g} ELSE tmp
        /\ out' = [out EXCEPT ![m] = "none"]
    BY <1>1, <1>12 DEF Rewrite, Awk, TypeOK
  <2>2. /\ DOMAIN g = DOMAIN csv /\ (t \in DOMAIN csv => g[t] = newRetry[m])
        /\ \A u \in DOMAIN csv : u # t => g[u] = csv[u]
    OBVIOUS
  <2>3. newRetry[m] \in Nat
    BY <1>0 DEF TypeOK
  <2>4. \A u \in DOMAIN g : g[u] \in Nat
    BY <2>2, <2>3, <1>0
  <2> HIDE DEF g
  <2>5. WriterInv'
    BY <1>2, <2>1 DEF RetryInv, WriterInv, TypeOK
  <2>6. /\ failures[t] <= newRetry[m] + Spared(t)
        /\ \A f \in tmp : Covers(f, t)
        /\ out[m] # "tmp" => Covers(csv, t)
    BY <1>1, <2>1 DEF RetryInv, UpdateInv, Before
  <2>7. ASSUME NEW u \in Tasks PROVE Covers(g, u)
    <3>1. CASE u = t
      BY <3>1, <2>2, <2>6 DEF Covers
    <3>2. CASE u # t
      <4>1. Covers(csv, u)
        BY <3>2, <1>9
      <4> QED BY <3>2, <4>1, <2>2 DEF Covers
    <3> QED BY <3>1, <3>2
  <2>8. Owed(t)' = 1
    BY <1>1, <2>1 DEF Owed, Updating
  <2>9. ASSUME NEW f \in {csv, g} \cup tmp, NEW u \in Tasks
        PROVE  AlmostCovers(f, u)'
    <3>1. DOMAIN f \subseteq Tasks /\ \A v \in DOMAIN f : f[v] \in Nat
      BY <1>0, <2>2, <2>4
    <3>2. CASE Covers(f, u)
      <4>1. u \in DOMAIN f => failures'[u] <= f[u] + Spared(u)'
        BY <3>2, <1>2, <1>5 DEF Covers
      <4> QED BY <4>1, <3>1, <1>0, <1>2, <1>5 DEF AlmostCovers
    <3>3. CASE ~Covers(f, u)
      <4>1. f \in {csv} \cup tmp /\ u = t
        BY <3>3, <1>9, <2>7
      <4>2. AlmostCovers(f, u) /\ Owed(u) \in {0, 1} /\ Owed(u)' = 1
        BY <4>1, <2>8, <1>0 DEF RetryInv, CountInv
      <4> QED BY <4>2, <3>1, <1>0, <1>2, <1>5 DEF AlmostCovers
    <3> QED BY <3>2, <3>3
  <2>10. {csv'} \cup tmp' \subseteq {csv, g} \cup tmp
    BY <2>1
  <2>11. CountInv'
    BY <1>8, <2>9, <2>10 DEF CountInv
  <2>12. /\ \A f \in tmp' : Covers(f, t)'
         /\ tmp' = {} => Covers(csv, t)'
    <3>1. out[m] # "none"
      BY <2>1 DEF RetryInv, WriterInv
    <3>2. /\ \A f \in tmp' : Covers(f, t)
          /\ tmp' = {} => Covers(csv', t)
      BY <3>1, <2>1, <2>6, <2>7
    <3> QED BY <3>2, <1>2, <1>5 DEF Covers
  <2>13. UpdateInv(m)'
    BY <1>1, <2>1, <2>12 DEF UpdateInv, Before
  <2> QED BY <1>4, <2>5, <2>11, <2>13, AloneStep
<1>13. CASE Rename(m)
  <2>1. /\ pc[m] = "rename" /\ pc' = [pc EXCEPT ![m] = "release"]
        /\ pc'[m] = "release" /\ Move
    BY <1>13 DEF Rename, TypeOK
  <2>2. /\ \A f \in tmp : Covers(f, t)
        /\ tmp = {} => Covers(csv, t)
    BY <1>1, <2>1 DEF RetryInv, UpdateInv
  <2>3. /\ csv' \in {csv} \cup tmp /\ tmp' = {}
        /\ tmp = {} => csv' = csv
        /\ tmp # {} => csv' \in tmp
    BY <2>1 DEF Move, table
  <2>4. \A n \in Managers : out'[n] = "none" <=> out[n] = "none"
    BY <2>1 DEF Move, table, TypeOK
  <2>5. WriterInv'
    BY <1>2, <2>1, <2>4 DEF RetryInv, WriterInv, TypeOK
  <2>6. ASSUME NEW u \in Tasks PROVE AlmostCovers(csv, u)'
    <3>1. Covers(csv', u)
      BY <1>9, <2>2, <2>3
    <3>2. DOMAIN csv' \subseteq Tasks /\ \A v \in DOMAIN csv' : csv'[v] \in Nat
      BY <1>0, <2>3
    <3>3. u \in DOMAIN csv' => failures'[u] <= csv'[u] + Spared(u)'
      BY <3>1, <1>2, <1>5 DEF Covers
    <3> QED BY <3>2, <3>3, <1>0, <1>2, <1>5 DEF AlmostCovers
  <2>7. CountInv'
    BY <1>8, <2>3, <2>6 DEF CountInv
  <2>8. UpdateInv(m)'
    BY <2>1 DEF UpdateInv, Before
  <2> QED BY <1>4, <2>5, <2>7, <2>8, AloneStep
<1> QED BY <1>11, <1>12, <1>13

(* A kill spares one more failure: what the manager owed.                  *)
LEMMA KillRetry ==
  ASSUME TypeOK, TypeOK', ChoiceInv, RetryInv, NEW m \in Managers, Kill(m)
  PROVE  RetryInv'
<1>0. /\ failures \in [Tasks -> Nat] /\ MaxRetries \in Nat
      /\ \A t \in Tasks : Spared(t) \in Nat /\ Owed(t) \in {0, 1}
  BY Numbers DEF RetryInv
<1>1. /\ UNCHANGED <<csv, tmp, failures, commands, zeroed, user>>
      /\ pc' = [pc EXCEPT ![m] = "idle"] /\ out' = [out EXCEPT ![m] = "none"]
      /\ \A n \in Managers : n # m => UNCHANGED <<task[n], retry[n], newRetry[n]>>
  BY DEF Kill, Exit, given, TypeOK
<1>2. m # TheUser /\ pc'[m] = "idle"
  BY <1>1, NamesAssumption DEF TypeOK
<1>3. WriterInv'
  BY <1>1 DEF RetryInv, WriterInv, TypeOK
<1>4. Lenient
  <2>1. \A t \in Tasks : Spared(t)' = Spared(t) + 1 /\ Owed(t)' \in {0, 1}
    BY SparedKill DEF RetryInv, Owed
  <2> QED BY <1>0, <1>1, <2>1 DEF Lenient
<1>5. CountInv'
  BY <1>4, LenientStep DEF RetryInv
<1>6. ASSUME NEW n \in Managers PROVE UpdateInv(n)'
  <2>1. CASE n = m
    BY <2>1, <1>2 DEF UpdateInv, Before
  <2>2. CASE n # m
    <3>1. UNCHANGED <<pc[n], task[n], retry[n], newRetry[n], out[n]>>
      BY <2>2, <1>1 DEF TypeOK
    <3> QED BY <3>1, <1>4, LenientStep DEF RetryInv, ChoiceInv
  <2> QED BY <2>1, <2>2
<1> QED BY <1>3, <1>5, <1>6 DEF RetryInv

(* A step of the user or of time that leaves the files as they are.        *)
LEMMA OutsideRetry ==
  ASSUME TypeOK, TypeOK', ChoiceInv, RetryInv, WriterInv',
         UNCHANGED <<csv, tmp, pc, local, failures>>,
         \A m \in Managers : UNCHANGED out[m],
         \A t \in Tasks : Spared(t)' \in Nat /\ Spared(t)' >= Spared(t)
  PROVE  RetryInv'
<1>0. /\ failures \in [Tasks -> Nat]
      /\ \A t \in Tasks : Spared(t) \in Nat /\ Owed(t) \in {0, 1}
  BY Numbers DEF RetryInv
<1>1. Lenient
  <2>1. \A t \in Tasks : Owed(t)' = Owed(t)
    BY DEF Owed, local
  <2> QED BY <1>0, <2>1 DEF Lenient
<1>2. CountInv'
  BY <1>1, LenientStep DEF RetryInv
<1>3. ASSUME NEW m \in Managers PROVE UpdateInv(m)'
  <2>1. UNCHANGED <<pc[m], task[m], retry[m], newRetry[m], out[m]>>
    BY DEF local
  <2> QED BY <2>1, <1>1, LenientStep DEF RetryInv, ChoiceInv
<1> QED BY <1>2, <1>3 DEF RetryInv

(* A command of the user begins, or resets the logs only.                  *)
LEMMA CommandRetry ==
  ASSUME TypeOK, TypeOK', ChoiceInv, RetryInv,
         (\E t \in Tasks : Complete(t)) \/ (\E logs : Reset(logs))
  PROVE  RetryInv'
<1>1. UNCHANGED <<csv, tmp, out, pc, local, failures>>
  BY DEF Complete, Reset, table
<1>2. WriterInv'
  <2>1. commands \in Nat /\ commands' = commands + 1 /\ zeroed \subseteq Tasks
    BY QueueAssumption DEF Complete, Reset, TypeOK
  <2>2. user'.tasks \subseteq zeroed'
    <3>1. user.tasks \subseteq zeroed
      BY DEF RetryInv, WriterInv
    <3>2. CASE \E t \in Tasks : Complete(t)
      BY <3>2 DEF Complete
    <3>3. CASE \E logs : Reset(logs)
      BY <3>1, <3>3 DEF Reset
    <3> QED BY <3>2, <3>3
  <2> QED BY <2>1, <2>2, <1>1 DEF RetryInv, WriterInv
<1>3. \A t \in Tasks : Spared(t)' \in Nat /\ Spared(t)' >= Spared(t)
  BY SparedCommand DEF RetryInv
<1> QED BY <1>1, <1>2, <1>3, OutsideRetry

(* The file the user's awk writes covers every task: those it sets to 0    *)
(* have all their retries spared, and one more is for the others.          *)
LEMMA UserRetry ==
  ASSUME TypeOK, TypeOK', ChoiceInv, RetryInv,
         UserTruncate \/ UserRewrite \/ UserRename
  PROVE  RetryInv'
<1>0. /\ failures \in [Tasks -> Nat] /\ MaxRetries \in Nat
      /\ \A t \in Tasks : Spared(t) \in Nat /\ Owed(t) \in {0, 1}
      /\ \A f \in {csv} \cup tmp :
           DOMAIN f \subseteq Tasks /\ \A t \in DOMAIN f : f[t] \in Nat
  BY Numbers DEF RetryInv
<1>1. UNCHANGED <<pc, task, retry, newRetry, failures, killed, commands, zeroed>>
  BY DEF UserTruncate, UserRewrite, UserRename, local
<1>2. TheUser \notin Managers
  BY NamesAssumption
<1>3. \A t : Owed(t)' = Owed(t)
  BY <1>1 DEF Owed
<1>4. ASSUME NEW m \in Managers, pc[m] \in InHand
      PROVE  \E t \in Tasks : task[m] = t /\ task'[m] = t
  BY <1>1, <1>4 DEF ChoiceInv
<1>5. CASE UserTruncate
  <2>1. /\ csv' = csv /\ tmp' = {Blank} /\ out' = [out EXCEPT ![TheUser] = "tmp"]
        /\ user.step = "truncate" /\ user'.step = "rewrite" /\ user'.tasks = user.tasks
    BY <1>5 DEF UserTruncate, Redirect, TypeOK
  <2>2. DOMAIN Blank = {}
    BY DEF Blank
  <2>3. \A m \in Managers : out'[m] = out[m]
    BY <1>2, <2>1 DEF TypeOK
  <2>4. WriterInv'
    BY <1>1, <2>1, <2>3 DEF RetryInv, WriterInv, Before
  <2>5. \A t \in Tasks : Spared(t)' = Spared(t)
    BY <1>1, <2>1, SparedSame DEF Before
  <2>6. CountInv'
    BY <1>1, <1>3, <2>1, <2>2, <2>5 DEF RetryInv, CountInv, AlmostCovers
  <2>7. ASSUME NEW m \in Managers PROVE UpdateInv(m)'
    <3>1. CASE pc[m] \in InHand
      <4>1. PICK t \in Tasks : task[m] = t /\ task'[m] = t
        BY <3>1, <1>4
      <4>2. UpdateInv(m)
        BY DEF RetryInv
      <4> QED BY <4>1, <4>2, <1>1, <2>1, <2>2, <2>3, <2>5 DEF UpdateInv, Covers
    <3>2. CASE pc[m] \notin InHand
      BY <3>2, <1>1 DEF UpdateInv, InHand, Updating, Before
    <3> QED BY <3>1, <3>2
  <2> QED BY <2>4, <2>6, <2>7 DEF RetryInv
<1>6. CASE UserRewrite
  <2> DEFINE g == [t \in DOMAIN csv |-> IF t \in user.tasks THEN 0 ELSE csv[t]]
  <2>1. /\ csv' \in {g, csv} /\ tmp' \in {{g}, tmp}
        /\ out' = [out EXCEPT ![TheUser] = "none"]
        /\ user'.step = "rename" /\ user'.tasks = user.tasks
    BY <1>6 DEF UserRewrite, Awk, TypeOK
  <2>2. \A t \in DOMAIN g : t \in DOMAIN csv /\ g[t] \in Nat
                            /\ (t \in user.tasks \/ g[t] = csv[t])
    BY <1>0
  <2> HIDE DEF g
  <2>3. \A m \in Managers : out'[m] = out[m]
    BY <1>2, <2>1 DEF TypeOK
  <2>4. WriterInv'
    BY <1>1, <2>1, <2>3 DEF RetryInv, WriterInv, Before
  <2>5. ASSUME NEW t \in Tasks
        PROVE  /\ Spared(t)' \in Nat /\ Spared(t)' >= Spared(t) + 1
               /\ t \in user.tasks => Spared(t)' = Spared(t) + MaxRetries + 1
    <3>1. Spared(t)' = Spared(t) + Weight(t)
      BY <1>6, SparedRewrite DEF RetryInv
    <3>2. /\ Weight(t) \in Nat /\ Weight(t) >= 1
          /\ t \in user.tasks => Weight(t) = MaxRetries + 1
      BY WeightParts DEF RetryInv, WriterInv
    <3> QED BY <3>1, <3>2, <1>0
  <2>6. ASSUME NEW f \in {csv, g} \cup tmp, NEW t \in Tasks, t \in DOMAIN f
        PROVE  failures[t] <= f[t] + Spared(t)' /\ f[t] \in Nat
    <3>1. ASSUME NEW h \in {csv} \cup tmp, t \in DOMAIN h
          PROVE  failures[t] <= h[t] + Spared(t)' /\ h[t] \in Nat
      <4>1. AlmostCovers(h, t)
        BY DEF RetryInv, CountInv
      <4> QED BY <4>1, <3>1, <1>0, <2>5 DEF AlmostCovers
    <3>2. CASE f = g /\ t \in user.tasks
      <4>1. failures[t] <= MaxRetries + Spared(t)
        BY DEF RetryInv, CountInv
      <4>2. f[t] \in Nat
        BY <3>2, <2>2, <2>6
      <4> QED BY <4>1, <4>2, <3>2, <1>0, <2>5
    <3>3. CASE f = g /\ t \notin user.tasks
      BY <3>1, <3>3, <2>2, <2>6
    <3> QED BY <3>1, <3>2, <3>3, <2>6
  <2>7. \A f \in {csv, g} \cup tmp, t \in Tasks : Covers(f, t)' /\ AlmostCovers(f, t)'
    BY <2>5, <2>6, <1>0, <1>1, <1>3 DEF Covers, AlmostCovers
  <2>8. ASSUME NEW t \in Tasks PROVE failures'[t] <= MaxRetries + Spared(t)'
    <3>1. failures[t] <= MaxRetries + Spared(t)
      BY DEF RetryInv, CountInv
    <3> QED BY <3>1, <1>0, <1>1, <2>5
  <2>9. {csv'} \cup tmp' \subseteq {csv, g} \cup tmp
    BY <2>1
  <2>10. CountInv'
    BY <2>7, <2>8, <2>9 DEF CountInv
  <2>11. ASSUME NEW m \in Managers PROVE UpdateInv(m)'
    <3>1. CASE pc[m] \in InHand
      <4>1. PICK t \in Tasks : task[m] = t /\ task'[m] = t
        BY <3>1, <1>4
      <4>2. UpdateInv(m)
        BY DEF RetryInv
      <4>3. \A f \in {csv'} \cup tmp' : Covers(f, t)'
        BY <2>7, <2>9
      <4>4. Covers(csv, t)'
        BY <4>3 DEF Covers
      <4>5. /\ pc[m] = "execute" => failures'[t] <= retry[m] + Spared(t)'
            /\ pc[m] = "record" => failures'[t] = 0
            /\ pc[m] \in Before => failures'[t] <= newRetry[m] + Spared(t)'
        <5>1. retry[m] \in Nat /\ newRetry[m] \in Nat
          BY <1>0 DEF TypeOK
        <5>2. /\ pc[m] = "execute" => failures[t] <= retry[m] + Spared(t)
              /\ pc[m] = "record" => failures[t] = 0
              /\ pc[m] \in Before => failures[t] <= newRetry[m] + Spared(t)
          BY <4>1, <4>2 DEF UpdateInv
        <5> QED BY <5>1, <5>2, <1>0, <1>1, <2>5
      <4> QED BY <4>1, <4>3, <4>4, <4>5, <1>1 DEF UpdateInv
    <3>2. CASE pc[m] \notin InHand
      BY <3>2, <1>1 DEF UpdateInv, InHand, Updating, Before
    <3> QED BY <3>1, <3>2
  <2> QED BY <2>4, <2>10, <2>11 DEF RetryInv
<1>7. CASE UserRename
  <2>1. /\ user.step = "rename" /\ user' = [step |-> "idle", tasks |-> {}] /\ Move
    BY <1>7 DEF UserRename
  <2>2. /\ csv' \in {csv} \cup tmp /\ tmp' = {}
        /\ tmp = {} => csv' = csv /\ out' = out
        /\ tmp # {} => csv' \in tmp
    BY <2>1 DEF Move, table
  <2>3. \A m \in Managers : out'[m] = "none" <=> out[m] = "none"
    BY <2>1 DEF Move, table, TypeOK
  <2>4. WriterInv'
    BY <1>1, <2>1, <2>3 DEF RetryInv, WriterInv, Before
  <2>5. \A t \in Tasks : Spared(t)' = Spared(t)
    BY <1>1, <2>1, SparedSame DEF Before
  <2>6. CountInv'
    BY <1>1, <1>3, <2>2, <2>5 DEF RetryInv, CountInv, AlmostCovers
  <2>7. ASSUME NEW m \in Managers PROVE UpdateInv(m)'
    <3>1. CASE pc[m] \in InHand
      <4>1. PICK t \in Tasks : task[m] = t /\ task'[m] = t
        BY <3>1, <1>4
      <4>2. UpdateInv(m)
        BY DEF RetryInv
      <4>3. /\ pc[m] = "execute" => failures'[t] <= retry'[m] + Spared(t)'
            /\ pc[m] = "record" => failures'[t] = 0
            /\ pc[m] \in Before => failures'[t] <= newRetry'[m] + Spared(t)'
        BY <4>1, <4>2, <1>1, <2>5 DEF UpdateInv
      <4>4. /\ pc[m] = "rewrite" /\ out'[m] # "tmp" => Covers(csv', t)
            /\ pc[m] = "rename" => Covers(csv', t)
        BY <4>1, <4>2, <2>2 DEF UpdateInv
      <4>5. Covers(csv', t) => Covers(csv, t)'
        BY <1>1, <2>5 DEF Covers
      <4> QED BY <4>1, <4>3, <4>4, <4>5, <1>1, <2>2 DEF UpdateInv
    <3>2. CASE pc[m] \notin InHand
      BY <3>2, <1>1 DEF UpdateInv, InHand, Updating, Before
    <3> QED BY <3>1, <3>2
  <2> QED BY <2>4, <2>6, <2>7 DEF RetryInv
<1> QED BY <1>5, <1>6, <1>7

(* RetryInv is kept by the steps taken while at most one manager runs.     *)
LEMMA RetryStep ==
  ASSUME TypeOK, ChoiceInv, RetryInv, MutualExclusion, [Next]_vars
  PROVE  RetryInv'
<1>1. TypeOK'
  BY TypeStep
<1>2. CASE (\E t \in Tasks : TimePasses(t)) \/ UNCHANGED vars
  <2>1. UNCHANGED <<csv, tmp, out, pc, local, failures, killed, commands, zeroed, user>>
    BY <1>2 DEF TimePasses, vars, files, table, history, given
  <2>2. WriterInv'
    BY <2>1 DEF RetryInv, WriterInv
  <2>3. \A t \in Tasks : Spared(t)' = Spared(t) /\ Spared(t) \in Nat
    BY <2>1, SparedSame, SparedNat DEF RetryInv
  <2> QED BY <1>1, <2>1, <2>2, <2>3, OutsideRetry
<1> QED BY <1>1, <1>2, QuietRetry, HandRetry, FailRetry, UpdateRetry, KillRetry,
           CommandRetry, UserRetry
           DEF Next, Manager, Run, Quiet, User

(* At first no task has failed.                                            *)
LEMMA RetryStart == Init => RetryInv
<1> SUFFICES ASSUME Init PROVE RetryInv
  OBVIOUS
<1>1. WriterInv
  BY DEF Init, WriterInv, Before
<1>2. \A t \in Tasks : Spared(t) \in Nat /\ Owed(t) = 0 /\ failures[t] = 0
  BY <1>1, QueueStart, SparedNat DEF Init, Owed, Updating
<1>3. CountInv
  BY <1>2, QueueAssumption DEF Init, CountInv, AlmostCovers
<1>4. \A m \in Managers : UpdateInv(m)
  BY DEF Init, UpdateInv, Before
<1> QED BY <1>1, <1>3, <1>4 DEF RetryInv

(* The same of the retries: the bound holds as long as no two managers run *)
(* tasks at once.                                                          *)
THEOREM RetriesIfLocked == Spec /\ []MutualExclusion => []RetriesBounded
<1>1. TypeOK /\ RetryInv => RetriesBounded
  <2> SUFFICES ASSUME TypeOK, RetryInv, NEW t \in Tasks
               PROVE  failures[t] <= MaxRetries + killed + commands * Weight(t)
    BY DEF RetriesBounded, Weight
  <2>1. failures[t] <= MaxRetries + Spared(t)
    BY DEF RetryInv, CountInv
  <2>2. /\ killed \in Nat /\ commands \in Nat /\ Rewrites \in Nat
        /\ Rewrites = commands \/ Rewrites + 1 = commands
    BY QueueAssumption, SparedNat DEF TypeOK, RetryInv, Rewrites
  <2>3. Weight(t) \in Nat /\ MaxRetries \in Nat /\ failures[t] \in Nat
    BY WeightParts, QueueAssumption DEF TypeOK
  <2> DEFINE w == Weight(t)  p == Rewrites * w  q == commands * w
  <2>4. p \in Nat /\ q \in Nat /\ p <= q
    <3>1. w \in Nat
      BY <2>3
    <3> HIDE DEF w
    <3>2. (Rewrites + 1) * w = Rewrites * w + w
      BY <3>1, <2>2
    <3>3. Rewrites * w \in Nat
      BY <3>1, <2>2
    <3> QED BY <3>1, <3>2, <3>3, <2>2
  <2>5. Spared(t) = killed + p
    BY DEF Spared, Spare
  <2> HIDE DEF p, q, w
  <2>6. failures[t] <= MaxRetries + killed + q
    BY <2>1, <2>2, <2>3, <2>4, <2>5
  <2> QED BY <2>6 DEF q, w
<1>2. TypeOK /\ ChoiceInv /\ DoneInv /\ MutualExclusion /\ RetryInv /\ [Next]_vars
      => RetryInv'
  BY RetryStep
<1> QED BY <1>1, <1>2, RetryStart, QueueInvariance, PTL DEF Spec

(* With one manager, for any tasks, kills and commands, however the steps  *)
(* of the user's update and of the manager's are interleaved.              *)
THEOREM RetriesAlone ==
  ASSUME \A m, n \in Managers : m = n
  PROVE  Spec => []RetriesBounded
<1>1. MutualExclusion
  BY DEF MutualExclusion
<1> QED BY <1>1, RetriesIfLocked, PTL
=============================================================================
