---------------------------- MODULE ScheduledRun ----------------------------
(***************************************************************************)
(* The daily collection on the operator's computer: the Task Scheduler     *)
(* starts scheduled-run.ps1 -Scheduled every hour, the operator may start  *)
(* it by hand at any time, and the power may be cut at any time.  A run    *)
(* checks the success marker, takes the mutex, brings Docker and           *)
(* PostgreSQL up, runs the Worker commands, backs the database up and      *)
(* writes the marker.  A refresh that dies leaves its session running and  *)
(* blocks the next ones for the running timeout (CatalogRefresh.tla).      *)
(*                                                                         *)
(* The clock counts hours.  Only the Worker commands last; the other steps *)
(* are far shorter than an hour, in any order between two runs.  An exit   *)
(* code is 0 or a failure.                                                 *)
(***************************************************************************)
EXTENDS Integers

CONSTANTS
  Task,        \* the run of the scheduled task: one at a time, with -Scheduled
  Manual,      \* runs the operator may start beside it
  NoRun,       \* the mutex is free
  DayHours,    \* hours of a day
  StartHour,   \* the task repeats every hour of a day from this one on,
  EndHour,     \* StartTime, up to this one, RetryHours later on the same day
  RefreshDays, \* the days of CatalogRefreshDay
  Timeout,     \* CatalogRefreshRunningTimeoutMinutes, in hours
  MaxCommand,  \* bound on the hours of a Worker command
  MaxNow,      \* bound on the clock
  MaxFaults,   \* bound on power cuts, time limits and failing steps
  MaxByHand    \* bound on manual runs

ASSUME ScheduleAssumption ==
  /\ Task \notin Manual /\ NoRun \notin Manual \cup {Task}
  /\ DayHours \in Nat \ {0} /\ EndHour \in 0..DayHours - 1 /\ StartHour \in 0..EndHour
  /\ RefreshDays \subseteq Nat
  /\ {Timeout, MaxCommand, MaxNow, MaxFaults, MaxByHand} \subseteq Nat

VARIABLES
  now,        \* hours since a midnight
  power,      \* the computer is on
  trigger,    \* the task is due and the Task Scheduler has not acted on it
  marker,     \* day in state\last-scheduled-success.txt, NoDay if there is none
  mutex,      \* holder of Global\PriceCrawlerScheduledRun
  pc,         \* the step each run is about to take, "idle" between runs
  today,      \* $today of each run
  todo,       \* the Worker commands still to run
  succeeded,  \* $workerSucceeded
  failed,     \* $exitCode is not 0
  lasted,     \* hours the current command has taken
  session,    \* start of the product_catalog_refresh session left running, NoSession if none is
  collected,  \* days of which a scheduled run did all its commands
  finished,   \* those of them whose run lived to write the marker
  trouble,    \* hour of the last fault, power-up or lost race for the mutex
  faults,     \* power cuts, time limits and failing steps so far
  byHand      \* manual runs so far

clockVars  == <<now, power, trigger>>
runVars    == <<pc, today, todo, succeeded, failed, lasted>>
ghostVars  == <<collected, finished, trouble, faults, byHand>>
vars == <<clockVars, marker, mutex, runVars, session, ghostVars>>

Runs      == Manual \cup {Task}
NoDay     == -1
NoSession == -1
Calm      == -(Timeout + 2 * MaxCommand)   \* no trouble yet

Day(hour)  == hour \div DayHours
Due(hour)  == hour % DayHours \in StartHour..EndHour
Commanding == {"refreshing", "collecting"}
Inside     == {"prepare", "refresh", "collect", "backup", "mark", "release"} \cup Commanding
Busy(r)    == pc[r] # "idle"

Goto(r, step) == pc' = [pc EXCEPT ![r] = step]

Disturbed == trouble' = now /\ faults < MaxFaults /\ faults' = faults + 1
Undisturbed == UNCHANGED <<trouble, faults>>

(* A step of the run fails. *)
Fail(r) == failed' = [failed EXCEPT ![r] = TRUE] /\ Disturbed

Init ==
  /\ now = 0 /\ power = TRUE /\ trigger = Due(0)
  /\ marker = NoDay
  /\ mutex = NoRun
  /\ pc = [r \in Runs |-> "idle"]
  /\ today = [r \in Runs |-> 0]
  /\ todo = [r \in Runs |-> {}]
  /\ succeeded = [r \in Runs |-> FALSE]
  /\ failed = [r \in Runs |-> FALSE]
  /\ lasted = [r \in Runs |-> 0]
  /\ session = NoSession
  /\ collected = {} /\ finished = {} /\ trouble = Calm /\ faults = 0 /\ byHand = 0

-----------------------------------------------------------------------------
(* The Task Scheduler (register-scheduled-task.ps1) and the operator.       *)

Begin(r, commands) ==
  /\ today'     = [today EXCEPT ![r] = Day(now)]
  /\ todo'      = [todo EXCEPT ![r] = commands]
  /\ succeeded' = [succeeded EXCEPT ![r] = FALSE]
  /\ failed'    = [failed EXCEPT ![r] = FALSE]
  /\ Goto(r, "lock")

AutoMode(day) == IF day \in RefreshDays THEN {"refresh", "collect"} ELSE {"collect"}

(* A run that finds today's date in the marker exits 0 at once. *)
StartTask ==
  /\ power /\ trigger /\ ~Busy(Task)
  /\ trigger' = FALSE
  /\ IF marker = Day(now) THEN UNCHANGED runVars
                          ELSE Begin(Task, AutoMode(Day(now))) /\ UNCHANGED lasted
  /\ UNCHANGED <<now, power, marker, mutex, session, ghostVars>>

(* MultipleInstances IgnoreNew. *)
IgnoreNew ==
  /\ trigger /\ Busy(Task)
  /\ trigger' = FALSE
  /\ UNCHANGED <<now, power, marker, mutex, runVars, session, ghostVars>>

(* The operator's -Mode: auto, collect-prices or catalog-refresh. *)
StartByHand(r) ==
  /\ power /\ r \in Manual /\ ~Busy(r) /\ byHand < MaxByHand
  /\ byHand' = byHand + 1
  /\ \E commands \in {AutoMode(Day(now)), {"collect"}, {"refresh"}} : Begin(r, commands)
  /\ UNCHANGED <<clockVars, marker, mutex, lasted, session, collected, finished, trouble, faults>>
-----------------------------------------------------------------------------
(* scheduled-run.ps1                                                        *)

Enter(r) == mutex' = r /\ Goto(r, "prepare") /\ UNCHANGED trouble
LockFrame == UNCHANGED <<clockVars, marker, today, todo, succeeded, failed, lasted, session, collected, finished, faults, byHand>>

(* WaitOne(0), which takes an abandoned mutex as well; a run that does not    *)
(* get it exits 40.                                                          *)
Lock(r) ==
  /\ pc[r] = "lock"
  /\ \/ mutex = NoRun /\ Enter(r)
     \/ mutex # NoRun /\ Goto(r, "idle") /\ trouble' = now /\ UNCHANGED mutex
  /\ LockFrame

NextCommand(r, left) == Goto(r, IF "refresh" \in left THEN "refresh"
                                ELSE IF "collect" \in left THEN "collect" ELSE "backup")

(* Docker, PostgreSQL and the published Worker; without a database there is   *)
(* no backup.                                                                *)
Prepare(r) ==
  /\ pc[r] = "prepare"
  /\ \/ /\ Fail(r) /\ UNCHANGED succeeded
        /\ \E step \in {"mark", "backup"} : Goto(r, step)
     \/ /\ succeeded' = [succeeded EXCEPT ![r] = TRUE]
        /\ NextCommand(r, todo[r])
        /\ Undisturbed /\ UNCHANGED failed
  /\ UNCHANGED <<clockVars, marker, mutex, today, todo, lasted, session, collected, finished, byHand>>

CommandOver(r, command) ==
  /\ todo' = [todo EXCEPT ![r] = @ \ {command}]
  /\ lasted' = [lasted EXCEPT ![r] = 0]
  /\ NextCommand(r, todo[r] \ {command})

CommandFailed(r, command) ==
  /\ succeeded' = [succeeded EXCEPT ![r] = FALSE]
  /\ failed' = [failed EXCEPT ![r] = TRUE]
  /\ CommandOver(r, command)

CommandDone(r, command) == CommandOver(r, command) /\ UNCHANGED <<succeeded, failed>>

(* Faulty variant: sessions left running are never given up. *)
BugNeverStale == session = NoSession

(* product_catalog_refresh_start refuses beside a session that is not stale. *)
MayRefresh == session = NoSession \/ session + Timeout < now

StartRefresh(r) ==
  /\ pc[r] = "refresh"
  /\ IF MayRefresh
       THEN session' = now /\ Goto(r, "refreshing") /\ UNCHANGED <<todo, succeeded, failed, lasted>>
       ELSE CommandFailed(r, "refresh") /\ UNCHANGED session
  /\ UNCHANGED <<clockVars, marker, mutex, today, ghostVars>>

(* Worker catalog-refresh ends; an exception may leave its session running. *)
EndRefresh(r) ==
  /\ pc[r] = "refreshing"
  /\ \/ CommandDone(r, "refresh") /\ session' = NoSession /\ Undisturbed
     \/ CommandFailed(r, "refresh") /\ session' \in {session, NoSession} /\ Disturbed
  /\ UNCHANGED <<clockVars, marker, mutex, today, collected, finished, byHand>>

StartCollect(r) ==
  /\ pc[r] = "collect"
  /\ Goto(r, "collecting")
  /\ UNCHANGED <<clockVars, marker, mutex, today, todo, succeeded, failed, lasted, session, ghostVars>>

(* Faulty variant: a manual run counts as well. *)
BugManualRunsCount(r) == succeeded[r]

(* $Scheduled -and $workerSucceeded *)
Earned(r) == r = Task /\ succeeded[r]

EndCollect(r) ==
  /\ pc[r] = "collecting"
  /\ \/ /\ CommandDone(r, "collect") /\ Undisturbed
        /\ collected' = IF Earned(r) THEN collected \cup {today[r]} ELSE collected
     \/ CommandFailed(r, "collect") /\ Disturbed /\ UNCHANGED collected
  /\ UNCHANGED <<clockVars, marker, mutex, today, session, finished, byHand>>

Backup(r) ==
  /\ pc[r] = "backup"
  /\ Fail(r) \/ (Undisturbed /\ UNCHANGED failed)
  /\ Goto(r, "mark")
  /\ UNCHANGED <<clockVars, marker, mutex, today, todo, succeeded, lasted, session, collected, finished, byHand>>

Write(r, mark, day) ==
  /\ pc[r] = "mark"
  /\ marker' = IF mark THEN day ELSE marker
  /\ finished' = IF Earned(r) THEN finished \cup {today[r]} ELSE finished
  /\ Goto(r, "release")
  /\ UNCHANGED <<clockVars, mutex, today, todo, succeeded, failed, lasted, session, collected, trouble, faults, byHand>>

(* Faulty variants: the marker takes the day on which the run ends; or it is  *)
(* not written when the backup failed.                                        *)
BugMarksEndDay(r)    == Write(r, Earned(r), Day(now))
BugMarksCleanRuns(r) == Write(r, Earned(r) /\ ~failed[r], today[r])

(* A failed backup does not keep the marker from being written. *)
Mark(r) == Write(r, Earned(r), today[r])

(* The finally block.  What the run remembers is gone with its process. *)
Forget(R) ==
  /\ pc'        = [r \in Runs |-> IF r \in R THEN "idle" ELSE pc[r]]
  /\ today'     = [r \in Runs |-> IF r \in R THEN 0 ELSE today[r]]
  /\ todo'      = [r \in Runs |-> IF r \in R THEN {} ELSE todo[r]]
  /\ succeeded' = [r \in Runs |-> ~(r \in R) /\ succeeded[r]]
  /\ failed'    = [r \in Runs |-> ~(r \in R) /\ failed[r]]
  /\ lasted'    = [r \in Runs |-> IF r \in R THEN 0 ELSE lasted[r]]
  /\ mutex'     = IF mutex \in R THEN NoRun ELSE mutex

Release(r) ==
  /\ pc[r] = "release"
  /\ Forget({r})
  /\ UNCHANGED <<clockVars, marker, session, ghostVars>>

(* An exception between two steps: the script's catch and finally. *)
Throw(r) ==
  /\ pc[r] \in {"prepare", "refresh", "collect", "backup", "mark"}
  /\ Fail(r)
  /\ Goto(r, "release")
  /\ UNCHANGED <<clockVars, marker, mutex, today, todo, succeeded, lasted, session, collected, finished, byHand>>
-----------------------------------------------------------------------------
(* The computer.                                                            *)

PowerCut ==
  /\ power /\ power' = FALSE
  /\ Forget(Runs)
  /\ Disturbed
  /\ UNCHANGED <<now, trigger, marker, session, collected, finished, byHand>>

(* The execution time limit of the task ends its processes. *)
Stop ==
  /\ Busy(Task)
  /\ Forget({Task})
  /\ Disturbed
  /\ UNCHANGED <<clockVars, marker, session, collected, finished, byHand>>

PowerOn ==
  /\ ~power /\ power' = TRUE
  /\ trouble' = now
  /\ UNCHANGED <<now, trigger, marker, mutex, runVars, session, collected, finished, faults, byHand>>

(* An hour passes once the Task Scheduler has acted and only Worker commands  *)
(* are under way, none of them longer than MaxCommand.  A start that finds    *)
(* the computer off is made up for (StartWhenAvailable).                      *)
Tick ==
  /\ now < MaxNow
  /\ power => ~trigger
  /\ \A r \in Runs : Busy(r) => pc[r] \in Commanding /\ lasted[r] < MaxCommand
  /\ now' = now + 1
  /\ trigger' = (trigger \/ Due(now + 1))
  /\ lasted' = [r \in Runs |-> IF Busy(r) THEN lasted[r] + 1 ELSE lasted[r]]
  /\ UNCHANGED <<power, marker, mutex, pc, today, todo, succeeded, failed, session, ghostVars>>

Terminated ==
  now = MaxNow /\ ~trigger /\ power /\ (\A r \in Runs : ~Busy(r)) /\ UNCHANGED vars

ScriptStep(r) ==
  \/ Lock(r) \/ Prepare(r) \/ StartRefresh(r) \/ EndRefresh(r) \/ StartCollect(r) \/ EndCollect(r)
  \/ Backup(r) \/ Mark(r) \/ Release(r) \/ Throw(r)

Next ==
  \/ \E r \in Runs : StartByHand(r) \/ ScriptStep(r)
  \/ StartTask \/ IgnoreNew \/ Stop \/ PowerCut \/ PowerOn \/ Tick \/ Terminated

Spec == Init /\ [][Next]_vars

-----------------------------------------------------------------------------
(* Properties.                                                              *)

(* Types. *)
ScheduleTypeOK ==
  /\ now \in 0..MaxNow /\ {power, trigger} \subseteq BOOLEAN
  /\ marker \in {NoDay} \cup 0..Day(MaxNow)
  /\ mutex \in Runs \cup {NoRun}
  /\ pc \in [Runs -> {"idle", "lock"} \cup Inside]
  /\ today \in [Runs -> 0..Day(MaxNow)]
  /\ todo \in [Runs -> SUBSET {"refresh", "collect"}]
  /\ succeeded \in [Runs -> BOOLEAN] /\ failed \in [Runs -> BOOLEAN]
  /\ lasted \in [Runs -> 0..MaxCommand]
  /\ session \in {NoSession} \cup 0..MaxNow
  /\ collected \subseteq 0..Day(MaxNow) /\ finished \subseteq collected
  /\ trouble \in Calm..MaxNow /\ faults \in 0..MaxFaults /\ byHand \in 0..MaxByHand

(* One run at a time works on the database, whoever started it and whatever   *)
(* cut the last one short (scheduled-run.ps1, the mutex).                     *)
OneAtATime == \A r, s \in Runs : pc[r] \in Inside /\ pc[s] \in Inside => r = s

(* The marker names a day only if a scheduled run of that day did all its     *)
(* commands: a collection is never skipped for one that did not happen, even  *)
(* when runs fail, pass midnight or are cut off.                              *)
MarkerIsEarned == marker = NoDay \/ marker \in collected

(* At most one successful scheduled collection a day (collector.md): neither  *)
(* a failed backup nor a run that passes midnight makes the task repeat it;   *)
(* only a cut between the commands and the marker may.                        *)
OncePerDay == pc[Task] \in Commanding => today[Task] \notin finished

(* A scheduled run that exits 0 did its day's collection. *)
ZeroMeansCollected ==
  pc[Task] = "release" /\ ~failed[Task] => today[Task] \in collected

(* The inductive invariant behind the safety properties.  Whoever is past the *)
(* mutex holds it.  The scheduled run has its collection ahead of it until it *)
(* is past the commands; from then on its success is a collected day, and as  *)
(* long as its exit code is 0 it succeeded.  Days of finished runs do not     *)
(* exceed the marker, which is behind the day of a run under way.             *)
Ahead == {"lock", "prepare", "refresh", "collect"} \cup Commanding

MutexIsHeld == \A r \in Runs : pc[r] \in Inside <=> mutex = r

SuccessIsCollected ==
  /\ pc[Task] \in Ahead => "collect" \in todo[Task]
  /\ pc[Task] \in {"collect", "collecting"} => "refresh" \notin todo[Task]
  /\ pc[Task] \in {"lock", "prepare"} => ~succeeded[Task]
  /\ pc[Task] \in {"refresh", "collect", "backup", "mark"} \cup Commanding /\ ~failed[Task] => succeeded[Task]
  /\ pc[Task] \in {"backup", "mark"} /\ succeeded[Task] => today[Task] \in collected

DaysAreInOrder ==
  /\ \A d \in finished : d <= marker
  /\ marker <= Day(now)
  /\ \A r \in Runs : today[r] <= Day(now)
  /\ pc[Task] \in Ahead \cup {"backup", "mark"} => marker < today[Task]

ScheduleIInv ==
  /\ ScheduleTypeOK
  /\ MutexIsHeld /\ SuccessIsCollected /\ DaysAreInOrder
  /\ MarkerIsEarned /\ ZeroMeansCollected

(* Hours since the task was last due, or would have been, on now's day: in    *)
(* the evening, after the last repetition, nothing is tried again.            *)
SinceLastTry == IF now % DayHours <= EndHour THEN 0 ELSE (now % DayHours) - EndHour

(* The repetitions of the day left room for the commands, and for a session   *)
(* left running to become stale.                                              *)
CalmDay ==
  /\ now - SinceLastTry > trouble + Timeout + 2 * MaxCommand
  /\ (now % DayHours) - SinceLastTry >= StartHour + 2 * MaxCommand

(* When power cuts and failures are over, the hourly repetitions get the      *)
(* day's collection done, although a refresh that was cut off makes the next  *)
(* ones fail until its session is older than the running timeout: if that     *)
(* and the hours of the commands themselves end before the repetitions do,    *)
(* the day has its marker.                                                    *)
RecoveredTheSameDay ==
  power /\ ~trigger /\ (\A r \in Runs : ~Busy(r)) /\ CalmDay => marker = Day(now)

(* Why it recovers.  A session left running is no younger than the last       *)
(* trouble.  The scheduled run under way began no more than its Spent hours   *)
(* ago, on the day it takes for today; if the last trouble is further back    *)
(* than that and the running timeout, nothing of it fails and it leaves its   *)
(* day in the marker.  The rest is that the task is not passed over.          *)
Spent ==
  CASE pc[Task] = "refreshing"                    -> lasted[Task]
    [] pc[Task] = "collect"                       -> MaxCommand
    [] pc[Task] = "collecting"                    -> MaxCommand + lasted[Task]
    [] pc[Task] \in {"backup", "mark", "release"} -> 2 * MaxCommand
    [] OTHER                                      -> 0

CalmSinceStart == trouble + Timeout < now - Spent

TroubleIsPast ==
  /\ trouble <= now
  /\ session <= now
  /\ session # NoSession /\ (\A r \in Runs : pc[r] # "refreshing") => session <= trouble

TodayIsItsStart ==
  /\ Busy(Task) => today[Task] >= Day(now - Spent)
  /\ \A r \in Runs : pc[r] \notin Commanding => lasted[r] = 0

CalmRunsSucceed ==
  Busy(Task) /\ CalmSinceStart =>
    /\ ~failed[Task]
    /\ pc[Task] = "release" => marker = today[Task]

TaskIsNotPassedOver == power /\ ~trigger /\ ~Busy(Task) /\ CalmDay => marker = Day(now)

RecoveryIInv ==
  ScheduleIInv /\ TroubleIsPast /\ TodayIsItsStart /\ CalmRunsSucceed /\ TaskIsNotPassedOver
=============================================================================
