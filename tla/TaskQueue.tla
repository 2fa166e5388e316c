------------------------------- MODULE TaskQueue -------------------------------
(***************************************************************************)
(* docs/claude_queue/queue_manager_v2.sh: managers started by cron and by  *)
(* hand take the next task from a CSV file, run it and record the outcome. *)
(* A lock file is meant to keep two of them from running at once.  A user  *)
(* may mark a task as complete and reset the history at any time: these    *)
(* commands do not look at the lock.                                       *)
(*                                                                         *)
(* The executor that runs the task is external: it succeeds, fails or      *)
(* reports that a quota is exceeded.  A manager may be killed at any step. *)
(* Time passes for a task when its scheduled_time or its repeat_interval   *)
(* has come.                                                               *)
(*                                                                         *)
(* The definitions no action refers to (EligibleOneMore, ...) are faulty   *)
(* variants of the definition that follows them.                           *)
(***************************************************************************)
EXTENDS Integers, FiniteSets

CONSTANTS
  Managers,    \* processes that run "queue_manager_v2.sh run"
  Tasks,       \* the ids of the tasks, single digits
  Priority,    \* [Tasks -> {"high", "medium", "low"}]
  Depends,     \* [Tasks -> SUBSET Tasks]
  Repeating,   \* the tasks with repeat = yes
  MaxRetries,  \* max_retries of every task
  MaxKills,    \* bound: managers killed
  MaxCommands, \* bound: commands complete and reset
  MaxRuns      \* bound: a repeating task is due no more after as many runs

ASSUME QueueAssumption ==
  /\ Tasks \subseteq 1 .. 9
  /\ Priority \in [Tasks -> {"high", "medium", "low"}]
  /\ Depends \in [Tasks -> SUBSET Tasks]
  /\ Repeating \subseteq Tasks
  /\ {MaxRetries, MaxKills, MaxCommands, MaxRuns} \subseteq Nat

VARIABLES
  pc,         \* where each manager is
  lock,       \* content of queue.lock: a process, empty, dead, or no file
  csv,        \* prompts.csv: the retry_count of each task in it
  tmp,        \* prompts.csv.tmp, if there is one
  out,        \* what name the file each awk is writing has by now
  executed,   \* executed.log
  early,      \* the tasks whose time has not come
  task,       \* the task each manager has chosen
  retry,      \* the local variable retry_count of each manager
  newRetry,   \* the count it is about to write
  user,       \* where the user's command is, and the tasks it sets to 0
  successes,  \* history: successful runs of each task
  failures,   \* history: failed runs of each task since its last success
  marked,     \* history: the tasks marked as complete by the user
  zeroed,     \* history: the tasks whose count the user set to 0
  commands,   \* history: commands of the user
  killed      \* history: managers killed

table   == <<csv, tmp, out>>
files   == <<table, executed>>
local   == <<task, retry, newRetry>>
given   == <<user, marked, zeroed, commands>>
history == <<given, successes, failures, killed>>
vars    == <<pc, lock, files, early, local, history>>

NoFile == "no file"
Empty == "empty"
Dead == "dead"
NoTask == 0
Blank == <<>>  \* a file without lines
TheUser == "user"

(* A process id is none of the words that stand for something else.        *)
ASSUME NamesAssumption ==
  Managers \cap {NoFile, Empty, Dead, TheUser} = {}
-----------------------------------------------------------------------------
(* A process that ends takes its local variables with it.                  *)
Exit(m) ==
  /\ task' = [task EXCEPT ![m] = NoTask]
  /\ retry' = [retry EXCEPT ![m] = 0]
  /\ newRetry' = [newRetry EXCEPT ![m] = 0]

(* check_lock, acquire_lock, release_lock                                  *)

CheckLockOnly(m) ==
  /\ pc[m] = "start"
  /\ pc' = [pc EXCEPT ![m] = IF lock = NoFile THEN "acquire" ELSE "idle"]
  /\ UNCHANGED <<lock, files, early, local, history>>

CheckLock(m) ==
  /\ pc[m] = "start"
  /\ pc' = [pc EXCEPT ![m] = IF lock = NoFile THEN "acquire"
                             ELSE IF lock \in {Empty, Dead} THEN "stale"
                             ELSE "idle"]
  /\ UNCHANGED <<lock, files, early, local, history>>

(* The lock is removed, whatever it holds by now.                          *)
RemoveStale(m) ==
  /\ pc[m] = "stale"
  /\ lock' = NoFile
  /\ pc' = [pc EXCEPT ![m] = "acquire"]
  /\ UNCHANGED <<files, early, local, history>>

(* echo $$ > queue.lock creates or truncates the file, then writes it.     *)
CreateLock(m) ==
  /\ pc[m] = "acquire"
  /\ lock' = Empty
  /\ pc' = [pc EXCEPT ![m] = "write"]
  /\ UNCHANGED <<files, early, local, history>>

WriteLock(m) ==
  /\ pc[m] = "write"
  /\ lock' = m
  /\ pc' = [pc EXCEPT ![m] = "select"]
  /\ UNCHANGED <<files, early, local, history>>

ReleaseLock(m) ==
  /\ pc[m] = "release"
  /\ lock' = NoFile
  /\ pc' = [pc EXCEPT ![m] = "idle"]
  /\ Exit(m)
  /\ UNCHANGED <<files, early, history>>
-----------------------------------------------------------------------------
(* get_next_task                                                           *)

EligibleOneMore(t) ==
  /\ t \in DOMAIN csv /\ csv[t] <= MaxRetries
  /\ t \notin early
  /\ t \in Repeating \/ t \notin executed
  /\ Depends[t] \subseteq executed

EligibleAtOnce(t) ==
  /\ t \in DOMAIN csv /\ csv[t] < MaxRetries
  /\ t \notin early
  /\ t \in Repeating \/ t \notin executed

Eligible(t) ==
  /\ t \in DOMAIN csv /\ csv[t] < MaxRetries
  /\ t \notin early
  /\ t \in Repeating \/ t \notin executed
  /\ Depends[t] \subseteq executed

(* sort -r on lines that begin with priority|id: "medium" comes before     *)
(* "low", "low" before "high", and greater ids first.                      *)
Place(t) == CASE Priority[t] = "medium" -> 20 + t
              [] Priority[t] = "low"    -> 10 + t
              [] Priority[t] = "high"   -> t

Select(m) ==
  /\ pc[m] = "select"
  /\ \E t \in Tasks :
       /\ Eligible(t)
       /\ \A u \in Tasks : Eligible(u) => Place(u) <= Place(t)
       /\ task' = [task EXCEPT ![m] = t]
       /\ retry' = [retry EXCEPT ![m] = csv[t]]
  /\ pc' = [pc EXCEPT ![m] = "execute"]
  /\ UNCHANGED <<lock, files, early, newRetry, history>>

SelectNothing(m) ==
  /\ pc[m] = "select"
  /\ \A t \in Tasks : ~Eligible(t)
  /\ pc' = [pc EXCEPT ![m] = "release"]
  /\ UNCHANGED <<lock, files, early, local, history>>
-----------------------------------------------------------------------------
(* execute_task                                                            *)

(* The task ran: a manager killed now leaves no trace of it.               *)
Succeed(m) ==
  /\ pc[m] = "execute"
  /\ successes' = [successes EXCEPT ![task[m]] = @ + 1]
  /\ failures' = [failures EXCEPT ![task[m]] = 0]
  /\ pc' = [pc EXCEPT ![m] = "record"]
  /\ UNCHANGED <<lock, files, early, local, given, killed>>

RecordRepeat(m) ==
  /\ pc[m] = "record"
  /\ early' = early \cup {task[m]}
  /\ newRetry' = [newRetry EXCEPT ![m] = 0]
  /\ pc' = [pc EXCEPT ![m] = "truncate"]
  /\ UNCHANGED <<lock, files, task, retry, history>>

(* A line in executed.log, or in repeat_tasks.log with the time of the run.*)
Record(m) ==
  /\ pc[m] = "record"
  /\ IF task[m] \in Repeating
     THEN early' = early \cup {task[m]} /\ UNCHANGED executed
     ELSE executed' = executed \cup {task[m]} /\ UNCHANGED early
  /\ newRetry' = [newRetry EXCEPT ![m] = 0]
  /\ pc' = [pc EXCEPT ![m] = "truncate"]
  /\ UNCHANGED <<lock, table, task, retry, history>>

QuotaExceeded(m) ==
  /\ pc[m] = "execute"
  /\ pc' = [pc EXCEPT ![m] = "release"]
  /\ UNCHANGED <<lock, files, early, local, history>>

Fail(m) ==
  /\ pc[m] = "execute"
  /\ newRetry' = [newRetry EXCEPT ![m] = retry[m] + 1]
  /\ failures' = [failures EXCEPT ![task[m]] = @ + 1]
  /\ pc' = [pc EXCEPT ![m] = "truncate"]
  /\ UNCHANGED <<lock, files, early, task, retry, given, successes, killed>>

(* update_retry_count: the shell creates or truncates prompts.csv.tmp, awk *)
(* reads prompts.csv and writes the file it was given, and mv renames      *)
(* whatever has the name prompts.csv.tmp by then.                          *)
Redirect(writer) ==
  /\ tmp' = {Blank}
  /\ out' = [out EXCEPT ![writer] = "tmp"]
  /\ UNCHANGED csv

Awk(writer, tasks, count) ==
  LET rewritten == [t \in DOMAIN csv |-> IF t \in tasks THEN count ELSE csv[t]]
  IN  /\ csv' = IF out[writer] = "csv" THEN rewritten ELSE csv
      /\ tmp' = IF out[writer] = "tmp" THEN {rewritten} ELSE tmp
      /\ out' = [out EXCEPT ![writer] = "none"]

Move ==
  IF tmp = {} THEN UNCHANGED table
  ELSE /\ csv' \in tmp
       /\ tmp' = {}
       /\ out' = [w \in DOMAIN out |-> CASE out[w] = "tmp" -> "csv"
                                          [] out[w] = "csv" -> "gone"
                                          [] OTHER -> out[w]]

Truncate(m) ==
  /\ pc[m] = "truncate"
  /\ Redirect(m)
  /\ pc' = [pc EXCEPT ![m] = "rewrite"]
  /\ UNCHANGED <<lock, executed, early, local, history>>

Rewrite(m) ==
  /\ pc[m] = "rewrite"
  /\ Awk(m, {task[m]}, newRetry[m])
  /\ pc' = [pc EXCEPT ![m] = "rename"]
  /\ UNCHANGED <<lock, executed, early, local, history>>

Rename(m) ==
  /\ pc[m] = "rename"
  /\ Move
  /\ pc' = [pc EXCEPT ![m] = "release"]
  /\ UNCHANGED <<lock, executed, early, local, history>>
-----------------------------------------------------------------------------
(* cron or the user starts a manager that is not running.                  *)
StartManager(m) ==
  /\ pc[m] = "idle"
  /\ pc' = [pc EXCEPT ![m] = "start"]
  /\ UNCHANGED <<lock, files, early, local, history>>

(* The machine goes down, or the manager is killed: no trap runs.          *)
Kill(m) ==
  /\ pc[m] # "idle"
  /\ killed < MaxKills
  /\ killed' = killed + 1
  /\ lock' = IF lock = m THEN Dead ELSE lock
  /\ pc' = [pc EXCEPT ![m] = "idle"]
  /\ out' = [out EXCEPT ![m] = "none"]
  /\ Exit(m)
  /\ UNCHANGED <<csv, tmp, executed, early, given, successes, failures>>

(* The command complete: a line in one of the logs, whatever the managers  *)
(* are doing, then update_retry_count.                                     *)
Complete(t) ==
  /\ user.step = "idle"
  /\ commands < MaxCommands
  /\ t \in DOMAIN csv
  /\ IF t \in Repeating
     THEN early' = early \cup {t} /\ UNCHANGED executed
     ELSE executed' = executed \cup {t} /\ UNCHANGED early
  /\ user' = [step |-> "truncate", tasks |-> {t}]
  /\ marked' = marked \cup {t} /\ zeroed' = zeroed \cup {t}
  /\ commands' = commands + 1
  /\ UNCHANGED <<pc, lock, table, local, successes, failures, killed>>

(* The command reset, for the logs the user chooses.  It removes the lock  *)
(* file too, unless only the history of repeating tasks is reset; for all  *)
(* the history it sets every retry_count to 0.                             *)
Reset(logs) ==
  /\ user.step = "idle"
  /\ commands < MaxCommands
  /\ executed' = IF logs = "repeating" THEN executed ELSE {}
  /\ early' = IF logs = "normal" THEN early ELSE early \ Repeating
  /\ lock' = IF logs = "repeating" THEN lock ELSE NoFile
  /\ IF logs = "all"
     THEN user' = [step |-> "truncate", tasks |-> Tasks] /\ zeroed' = Tasks
     ELSE UNCHANGED <<user, zeroed>>
  /\ commands' = commands + 1
  /\ UNCHANGED <<pc, table, local, marked, successes, failures, killed>>

(* The same three steps, through the temporary file of the managers.       *)
UserTruncate ==
  /\ user.step = "truncate"
  /\ Redirect(TheUser)
  /\ user' = [user EXCEPT !.step = "rewrite"]
  /\ UNCHANGED <<pc, lock, executed, early, local, marked, zeroed, commands,
                 successes, failures, killed>>

UserRewrite ==
  /\ user.step = "rewrite"
  /\ Awk(TheUser, user.tasks, 0)
  /\ user' = [user EXCEPT !.step = "rename"]
  /\ UNCHANGED <<pc, lock, executed, early, local, marked, zeroed, commands,
                 successes, failures, killed>>

UserRename ==
  /\ user.step = "rename"
  /\ Move
  /\ user' = [step |-> "idle", tasks |-> {}]
  /\ UNCHANGED <<pc, lock, executed, early, local, marked, zeroed, commands,
                 successes, failures, killed>>

User ==
  \/ \E t \in Tasks : Complete(t)
  \/ \E logs \in {"normal", "repeating", "all"} : Reset(logs)
  \/ UserTruncate \/ UserRewrite \/ UserRename

TimePasses(t) ==
  /\ t \in early
  /\ t \in Repeating => successes[t] < MaxRuns
  /\ early' = early \ {t}
  /\ UNCHANGED <<pc, lock, files, local, history>>

Init ==
  /\ pc = [m \in Managers |-> "idle"]
  /\ lock = NoFile
  /\ csv = [t \in Tasks |-> 0]
  /\ tmp = {} /\ out = [w \in Managers \cup {TheUser} |-> "none"]
  /\ executed = {}
  /\ early \in SUBSET (Tasks \ Repeating)
  /\ task = [m \in Managers |-> NoTask]
  /\ retry = [m \in Managers |-> 0]
  /\ newRetry = [m \in Managers |-> 0]
  /\ successes = [t \in Tasks |-> 0]
  /\ failures = [t \in Tasks |-> 0]
  /\ user = [step |-> "idle", tasks |-> {}]
  /\ marked = {} /\ zeroed = {} /\ commands = 0 /\ killed = 0

Run(m) ==
  \/ CheckLock(m) \/ RemoveStale(m) \/ CreateLock(m) \/ WriteLock(m)
  \/ Select(m) \/ SelectNothing(m)
  \/ Succeed(m) \/ Record(m) \/ QuotaExceeded(m) \/ Fail(m)
  \/ Truncate(m) \/ Rewrite(m) \/ Rename(m) \/ ReleaseLock(m)

Manager(m) == Run(m) \/ StartManager(m) \/ Kill(m)

Next ==
  (\E m \in Managers : Manager(m)) \/ User \/ (\E t \in Tasks : TimePasses(t))

Spec == Init /\ [][Next]_vars

(* cron starts managers again and again, a started manager goes on, time   *)
(* passes, and no quota or failure lasts forever: a task that is run again *)
(* and again succeeds in the end.                                          *)
FairSpec ==
  /\ Spec
  /\ \A m \in Managers :
       /\ WF_vars(StartManager(m) \/ Run(m))
       /\ SF_vars(Succeed(m) \/ Fail(m))
  /\ WF_vars(UserTruncate \/ UserRewrite \/ UserRename)
  /\ WF_vars(\E t \in Tasks : TimePasses(t))
-----------------------------------------------------------------------------
Updating == {"truncate", "rewrite", "rename"}
Running(m) == pc[m] \in {"select", "execute", "record"} \cup Updating

(* Every variable has its type.                                            *)
TypeOK ==
  /\ pc \in [Managers -> {"idle", "start", "stale", "acquire", "write",
                          "select", "execute", "record", "release"}
                         \cup Updating]
  /\ lock \in Managers \cup {NoFile, Empty, Dead}
  /\ {csv} \cup tmp \subseteq [Tasks -> 0 .. MaxRetries] \cup {Blank}
  /\ Cardinality(tmp) <= 1
  /\ out \in [Managers \cup {TheUser} -> {"none", "tmp", "csv", "gone"}]
  /\ executed \subseteq Tasks \ Repeating
  /\ early \subseteq Tasks
  /\ task \in [Managers -> Tasks \cup {NoTask}]
  /\ retry \in [Managers -> 0 .. MaxRetries]
  /\ newRetry \in [Managers -> 0 .. MaxRetries]
  /\ successes \in [Tasks -> Nat] /\ failures \in [Tasks -> Nat]
  /\ user \in [step : {"idle"} \cup Updating, tasks : SUBSET Tasks]
  /\ marked \subseteq zeroed /\ zeroed \subseteq Tasks
  /\ commands \in 0 .. MaxCommands
  /\ killed \in 0 .. MaxKills

(* A task runs only after the tasks it depends on have succeeded, or were  *)
(* marked as complete.                                                     *)
DependenciesFirst ==
  \A m \in Managers : pc[m] \in {"execute", "record"} \cup Updating =>
    \A t \in Depends[task[m]] : successes[t] > 0 \/ t \in marked

(* With one manager, a task that has succeeded is never run again, except  *)
(* once for each manager that was killed before it recorded the success,   *)
(* and once for each command of the user.                                  *)
DoneOnce ==
  \A t \in Tasks \ Repeating : successes[t] <= 1 + killed + commands

(* With one manager, a task fails at most max_retries times in a row, plus *)
(* once for each manager that was killed before it wrote the count down,   *)
(* and once for each command, which rewrites the same file and may lose    *)
(* one update of the manager.  A task whose count the user sets to 0 has   *)
(* its retries again.                                                      *)
RetriesBounded ==
  \A t \in Tasks :
    failures[t] <= MaxRetries + killed
                   + commands * (IF t \in zeroed THEN MaxRetries + 1 ELSE 1)

(* The task has succeeded, has used up its retries, is marked as complete  *)
(* or depends on a task that used them up.                                 *)
Settled(t) ==
  \/ successes[t] > 0 \/ t \in marked
  \/ \E u \in {t} \cup Depends[t] : csv[u] = MaxRetries

(* A killed manager, its lock and its half-done update never stop the      *)
(* queue: once no repeating task is due, every task is settled and remains *)
(* so, unless the user's command has emptied the file of the tasks.        *)
TasksFinish == <>[](csv = Blank \/ \A t \in Tasks : Settled(t))

(* The lock file keeps two managers from running tasks at once.            *)
MutualExclusion ==
  \A m, n \in Managers : Running(m) /\ Running(n) => m = n

(* No update of a retry count loses a task.  The code does not have this   *)
(* property: a mv of the user may rename the file the manager's shell has  *)
(* just created; awk then reads the file it is to write, and prompts.csv   *)
(* is left empty.                                                          *)
TasksKept == DOMAIN csv = Tasks

(* A task of high priority that could run is chosen before the others.     *)
HighFirst ==
  [][\A m \in Managers :
       pc[m] = "select" /\ pc'[m] = "execute" /\ Priority[task'[m]] # "high" =>
         \A t \in Tasks : Priority[t] = "high" => ~Eligible(t)]_vars

(* A task that depends on a repeating task runs once that one succeeded.   *)
DependentsRun ==
  \A t \in Tasks :
    (\A u \in Depends[t] : successes[u] > 0) ~>
      (successes[t] > 0 \/ csv = Blank \/ csv[t] = MaxRetries)
=============================================================================
