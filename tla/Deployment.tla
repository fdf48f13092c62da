----------------------------- MODULE Deployment -----------------------------
(***************************************************************************)
(* Runs of deploy-production.ps1 on one machine: the lock file, the phases *)
(* from the backup to the worker's start, and what each leaves when it     *)
(* throws or the script is killed.  The validation of the package and of   *)
(* the Stage report reads only, and is not modelled.                       *)
(*                                                                          *)
(* A run of the script starts at most one web and one worker; a process is  *)
(* its kind and the run that started it, Old for those of an earlier one.   *)
(***************************************************************************)
EXTENDS Naturals

CONSTANTS
  Runs,        \* runs of the script
  Old,         \* what was deployed before them
  None,        \* no file, no process
  Torn,        \* a lock file without its content
  Version,     \* TargetSchemaVersion of each run's package, and its release
  OldVersion,  \* the schema before them
  Replacing,   \* the runs with -ReplaceExistingRelease
  MaxFaults    \* bound: phases that throw, calls that fail silently, kills, and webs that exit

ASSUME DeploymentAssumption ==
  /\ Version \in [Runs -> Nat] /\ OldVersion \in Nat
  /\ Replacing \subseteq Runs /\ MaxFaults \in Nat
  /\ {Old, None, Torn} \cap Runs = {} /\ Old # None /\ Torn # None /\ Old # Torn

VARIABLES
  phase,      \* the phase each run is about to do
  lock,       \* deploy.lock: the run whose PID it has
  judged,     \* the run that is over and whose lock each is about to remove
  owned,      \* the runs with LockOwned
  actual,     \* the schema each run read last
  procs,      \* the processes that run
  pidFile,    \* web.pid and worker.pid: who started the process they name
  listening,  \* who started the process that listens on WebUrl
  schema,     \* schema_version of the database
  releases,   \* releases/<version>
  currentNew, \* current.new and current: whose they are
  current,
  state,      \* deployment-state.json: whose it is
  faults,
  overtaken,  \* a lock was removed whose run was never judged
  last,       \* the run that took the lock last
  lost,       \* processes whose PID record was never written
  known,      \* processes that WebProcess or WorkerProcess of their script is set to
  spared      \* known processes that the catch block did not stop

files == <<pidFile, releases, currentNew, current, state>>
lockVars == <<lock, judged, owned, overtaken, last>>
history == <<lost, known, spared>>
services == <<procs, listening, history>>
database == <<schema, actual>>
vars == <<phase, lockVars, files, services, database, faults>>

Kinds == {"web", "worker"}
Starters == Runs \cup {Old}
BeforeLock == {"preflight", "lock", "remove", "create"}
Stopping == {"backup", "stop_worker", "stop_web", "port_free"}
Changing == {"migrate", "apply", "grants", "extract", "configure", "switch_out", "switch_in", "web_start"}
Starting == {"web_record", "web_log", "port_check", "health", "worker_start", "worker_record", "worker_log",
             "stabilize", "verify", "announce"}
Ending   == {"report", "catch_log", "catch_worker", "catch_web", "report_failure"}
Over     == {"succeeded", "failed", "killed"}
AtWork   == Stopping \cup Changing \cup Starting \cup Ending

Alive(d) == phase[d] \notin Over
Goto(d, next) == phase' = [phase EXCEPT ![d] = next]
Throw(d) == Goto(d, "catch_log")
Fault == faults < MaxFaults /\ faults' = faults + 1

Init ==
  /\ phase = [d \in Runs |-> "preflight"]
  /\ lock = None /\ judged = [d \in Runs |-> None] /\ owned = {}
  /\ actual = [d \in Runs |-> 0]
  /\ procs = Kinds \X {Old} /\ pidFile = [k \in Kinds |-> Old] /\ listening = Old
  /\ schema = OldVersion /\ releases = {OldVersion}
  /\ currentNew = None /\ current = Old /\ state = Old
  /\ faults = 0 /\ overtaken = FALSE /\ last = None
  /\ lost = {} /\ known = {} /\ spared = {}

-----------------------------------------------------------------------------
(* The processes.                                                           *)

Stop(p) ==
  /\ procs' = procs \ {p}
  /\ listening' = IF p = <<"web", listening>> THEN None ELSE listening

(* A web that finds the port taken exits. *)
WebListens(x) ==
  /\ <<"web", x>> \in procs /\ listening # x
  /\ IF listening = None THEN listening' = x /\ UNCHANGED procs
                         ELSE Stop(<<"web", x>>)
  /\ UNCHANGED <<phase, lockVars, files, history, database, faults>>

(* The worker does its command and exits; a web exits when it fails. *)
Exits(p) ==
  /\ p \in procs
  /\ IF p[1] = "worker" THEN UNCHANGED faults ELSE Fault
  /\ Stop(p)
  /\ UNCHANGED <<phase, lockVars, files, history, database>>

-----------------------------------------------------------------------------
(* Preflight and Acquire-DeploymentLock.                                    *)

Preflight(d) ==
  /\ phase[d] = "preflight"
  /\ IF schema > Version[d] THEN Throw(d) ELSE Goto(d, "lock")
  /\ UNCHANGED <<lockVars, files, services, database, faults>>

CheckLock(d) ==
  /\ phase[d] = "lock"
  /\ judged' = [judged EXCEPT ![d] = IF lock \in Runs /\ ~Alive(lock) THEN lock ELSE None]
  /\ \/ lock = None /\ Goto(d, "create")
     \/ lock = Torn /\ Throw(d)
     \/ lock \in Runs /\ IF Alive(lock) THEN Throw(d) ELSE Goto(d, "remove")
  /\ UNCHANGED <<lock, owned, overtaken, last, files, services, database, faults>>

(* Remove-Item does not look into the file, and throws when there is none. *)
RemoveStale(d) ==
  /\ phase[d] = "remove"
  /\ IF lock = None THEN Throw(d) ELSE Goto(d, "create")
  /\ lock' = None
  /\ overtaken' = (overtaken \/ lock \notin {None, judged[d]})
  /\ judged' = [judged EXCEPT ![d] = None]
  /\ UNCHANGED <<owned, last, files, services, database, faults>>

(* Faulty variant: FileMode.Create takes over a file that is there. *)
BugCreateLock(d) ==
  /\ phase[d] = "create"
  /\ lock' = d /\ owned' = owned \cup {d} /\ last' = d
  /\ Goto(d, "backup") /\ UNCHANGED faults
  /\ UNCHANGED <<judged, overtaken, files, services, database>>

(* FileMode.CreateNew; the PID is written into the new file after. *)
CreateLock(d) ==
  /\ phase[d] = "create"
  /\ IF lock # None
       THEN Throw(d) /\ UNCHANGED <<lock, owned, last, faults>>
       ELSE \/ /\ lock' = d /\ owned' = owned \cup {d} /\ last' = d
               /\ Goto(d, "backup") /\ UNCHANGED faults
            \/ /\ Fault
               /\ lock' = Torn /\ Throw(d) /\ UNCHANGED <<owned, last>>
  /\ UNCHANGED <<judged, overtaken, files, services, database>>

-----------------------------------------------------------------------------
(* The phases up to the switch.                                             *)

(* New-LogicalDump; the services still write. *)
DatabaseBackup(d) ==
  /\ phase[d] = "backup"
  /\ Goto(d, "stop_worker")
  /\ UNCHANGED <<lockVars, files, services, database, faults>>

(* Faulty variant: the record is removed and the process left. *)
BugStopRecorded(d, k, next) ==
  /\ pidFile' = [pidFile EXCEPT ![k] = None]
  /\ UNCHANGED <<procs, listening, faults>>
  /\ Goto(d, next)

(* Stop-RecordedProductionProcess: a record of a process that is gone is     *)
(* removed as well; the removal after a stop may fail silently.              *)
StopRecorded(d, k, next) ==
  /\ Stop(<<k, pidFile[k]>>)
  /\ \/ pidFile' = [pidFile EXCEPT ![k] = None] /\ UNCHANGED faults
     \/ <<k, pidFile[k]>> \in procs /\ Fault /\ UNCHANGED pidFile
  /\ Goto(d, next)

StopService(d) ==
  /\ \/ phase[d] = "stop_worker" /\ StopRecorded(d, "worker", "stop_web")
     \/ phase[d] = "stop_web" /\ StopRecorded(d, "web", "port_free")
  /\ UNCHANGED <<lockVars, releases, currentNew, current, state, history, database>>

WaitPortReleased(d) ==
  /\ phase[d] = "port_free"
  /\ IF listening = None THEN Goto(d, "migrate") ELSE Throw(d)
  /\ UNCHANGED <<lockVars, files, services, database, faults>>

(* The schema may have changed since the preflight. *)
ReadSchema(d) ==
  /\ phase[d] = "migrate"
  /\ actual' = [actual EXCEPT ![d] = schema]
  /\ IF schema > Version[d] THEN Throw(d) ELSE Goto(d, "apply")
  /\ UNCHANGED <<lockVars, files, services, schema, faults>>

(* One migration, which refuses any schema but the one before it. *)
Migration(d) ==
  /\ phase[d] = "apply"
  /\ IF actual[d] = Version[d]
       THEN Goto(d, "grants") /\ UNCHANGED database
       ELSE IF schema # actual[d]
         THEN Throw(d) /\ UNCHANGED database
         ELSE /\ schema' = schema + 1 /\ actual' = [actual EXCEPT ![d] = schema + 1]
              /\ UNCHANGED phase
  /\ UNCHANGED <<lockVars, files, services, faults>>

RuntimeGrants(d) ==
  /\ phase[d] = "grants"
  /\ Goto(d, "extract")
  /\ UNCHANGED <<lockVars, files, services, database, faults>>

ReleaseExtraction(d) ==
  /\ phase[d] = "extract"
  /\ IF Version[d] \in releases /\ d \notin Replacing
       THEN Throw(d) /\ UNCHANGED releases
       ELSE Goto(d, "configure") /\ releases' = releases \cup {Version[d]}
  /\ UNCHANGED <<lockVars, pidFile, currentNew, current, state, services, database, faults>>

(* Faulty variant: a current.new that is there is taken. *)
BugConfiguration(d) ==
  /\ phase[d] = "configure"
  /\ currentNew' = (IF currentNew = None THEN d ELSE currentNew) /\ Goto(d, "switch_out")
  /\ UNCHANGED <<lockVars, pidFile, releases, current, state, services, database, faults>>

(* A current.new that an earlier run left is removed first. *)
Configuration(d) ==
  /\ phase[d] = "configure"
  /\ currentNew' = d /\ Goto(d, "switch_out")
  /\ UNCHANGED <<lockVars, pidFile, releases, current, state, services, database, faults>>

(* current is moved aside, then current.new becomes current.  When that      *)
(* throws, the catch block does not restore it: in "if (Test-Path            *)
(* -LiteralPath $previousCurrent -and ...)", -and is an argument of          *)
(* Test-Path, which throws.                                                  *)
SwitchOut(d) ==
  /\ phase[d] = "switch_out"
  /\ current' = None /\ Goto(d, "switch_in")
  /\ UNCHANGED <<lockVars, pidFile, releases, currentNew, state, services, database, faults>>

SwitchIn(d) ==
  /\ phase[d] = "switch_in"
  /\ IF currentNew = None THEN Throw(d) /\ UNCHANGED <<currentNew, current>>
       ELSE current' = currentNew /\ currentNew' = None /\ Goto(d, "web_start")
  /\ UNCHANGED <<lockVars, pidFile, releases, state, services, database, faults>>

-----------------------------------------------------------------------------
(* Start-ProductionComponent, and the checks.                               *)

StartComponent(d) ==
  /\ phase[d] \in {"web_start", "worker_start"}
  /\ IF current = None
       THEN Throw(d) /\ UNCHANGED procs
       ELSE /\ procs' = procs \cup {<<IF phase[d] = "web_start" THEN "web" ELSE "worker", d>>}
            /\ Goto(d, IF phase[d] = "web_start" THEN "web_record" ELSE "worker_record")
  /\ UNCHANGED <<lockVars, files, listening, history, database, faults>>

(* The PID record is written after Start-Process. *)
RecordComponent(d) ==
  /\ phase[d] \in {"web_record", "worker_record"}
  /\ LET k == IF phase[d] = "web_record" THEN "web" ELSE "worker" IN
       pidFile' = [pidFile EXCEPT ![k] = d]
  /\ Goto(d, IF phase[d] = "web_record" THEN "web_log" ELSE "worker_log")
  /\ UNCHANGED <<lockVars, releases, currentNew, current, state, services, database, faults>>

(* It is logged, and only then does the process get into WebProcess or       *)
(* WorkerProcess, where the catch block looks for it.                        *)
ReturnComponent(d) ==
  /\ phase[d] \in {"web_log", "worker_log"}
  /\ known' = known \cup {<<IF phase[d] = "web_log" THEN "web" ELSE "worker", d>>}
  /\ Goto(d, IF phase[d] = "web_log" THEN "port_check" ELSE "stabilize")
  /\ UNCHANGED <<lockVars, files, procs, listening, lost, spared, database, faults>>

(* Wait-WebPort: it may time out while nothing listens. *)
WaitWebPort(d) ==
  /\ phase[d] = "port_check"
  /\ \/ /\ <<"web", d>> \in procs /\ listening = d
        /\ Goto(d, "health")
     \/ /\ <<"web", d>> \notin procs \/ listening # d
        /\ Throw(d)
  /\ UNCHANGED <<lockVars, files, services, database, faults>>

(* Wait-WebHealth asks whoever listens. *)
WaitWebHealth(d) ==
  /\ phase[d] = "health"
  /\ IF listening # None THEN Goto(d, "worker_start") ELSE Throw(d)
  /\ UNCHANGED <<lockVars, files, services, database, faults>>

Stabilize(d) ==
  /\ phase[d] = "stabilize"
  /\ IF <<"worker", d>> \in procs THEN Goto(d, "verify") ELSE Throw(d)
  /\ UNCHANGED <<lockVars, files, services, database, faults>>

PostDeployVerification(d) ==
  /\ phase[d] = "verify"
  /\ IF Kinds \X {d} \subseteq procs /\ schema = Version[d]
       THEN state' = d /\ Goto(d, "announce")
       ELSE Throw(d) /\ UNCHANGED state
  /\ UNCHANGED <<lockVars, pidFile, releases, currentNew, current, services, database, faults>>

(* The result is Success before the last message is logged. *)
Announce(d) ==
  /\ phase[d] = "announce"
  /\ Goto(d, "report")
  /\ UNCHANGED <<lockVars, files, services, database, faults>>

-----------------------------------------------------------------------------
(* catch and finally.                                                       *)

(* The catch block logs the failure first.  When the log cannot be written   *)
(* that throws, and what the block would stop runs on.                       *)
LogFailure(d) ==
  /\ phase[d] = "catch_log"
  /\ \/ Goto(d, "catch_worker") /\ UNCHANGED <<spared, faults>>
     \/ /\ Goto(d, "report_failure") /\ Fault
        /\ spared' = spared \cup (known \cap (Kinds \X {d}))
  /\ UNCHANGED <<lockVars, files, procs, listening, lost, known, database>>

(* Stop-Process fails silently. *)
StopKnown(p) ==
  \/ (IF p \in known THEN Stop(p) ELSE UNCHANGED <<procs, listening>>) /\ UNCHANGED <<spared, faults>>
  \/ p \in known \cap procs /\ Fault /\ spared' = spared \cup {p} /\ UNCHANGED <<procs, listening>>

(* Faulty variant: only the worker is stopped. *)
BugStopStarted(d) ==
  /\ \/ phase[d] = "catch_worker" /\ Goto(d, "catch_web") /\ StopKnown(<<"worker", d>>)
     \/ /\ phase[d] = "catch_web" /\ Goto(d, "report_failure")
        /\ UNCHANGED <<procs, listening, spared, faults>>
  /\ UNCHANGED <<lockVars, files, lost, known, database>>

StopStarted(d) ==
  /\ \/ phase[d] = "catch_worker" /\ Goto(d, "catch_web") /\ StopKnown(<<"worker", d>>)
     \/ phase[d] = "catch_web" /\ Goto(d, "report_failure") /\ StopKnown(<<"web", d>>)
  /\ UNCHANGED <<lockVars, files, lost, known, database>>

(* The report, and then the lock, whosever it is; its removal may fail       *)
(* silently.                                                                 *)
ReleaseLock(d) ==
  /\ phase[d] \in {"report", "report_failure"}
  /\ \/ lock' = (IF d \in owned THEN None ELSE lock) /\ UNCHANGED faults
     \/ d \in owned /\ lock # None /\ Fault /\ UNCHANGED lock
  /\ owned' = owned \ {d}
  /\ Goto(d, IF phase[d] = "report" THEN "succeeded" ELSE "failed")
  /\ UNCHANGED <<judged, overtaken, last, files, services, database>>

Unrecorded(d) ==
  CASE phase[d] = "web_record" -> {<<"web", d>>}
    [] phase[d] = "worker_record" -> {<<"worker", d>>}
    [] OTHER -> {}

(* Any phase may throw (the log it writes at its start and end as well), or  *)
(* the script be killed.                                                     *)
PhaseThrows(d) ==
  /\ phase[d] \in (BeforeLock \cup Stopping \cup Changing \cup Starting)
  /\ Fault
  /\ Throw(d) /\ lost' = lost \cup Unrecorded(d)
  /\ UNCHANGED <<lockVars, files, procs, listening, known, spared, database>>

(* A script that is killed takes its variables along. *)
Killed(d) ==
  /\ Alive(d)
  /\ Fault
  /\ Goto(d, "killed") /\ lost' = lost \cup Unrecorded(d)
  /\ judged' = [judged EXCEPT ![d] = None] /\ actual' = [actual EXCEPT ![d] = 0]
  /\ owned' = owned \ {d} /\ known' = known \ (Kinds \X {d})
  /\ UNCHANGED <<lock, overtaken, last, files, procs, listening, spared, schema>>

RunStep(d) ==
  \/ Preflight(d) \/ CheckLock(d) \/ RemoveStale(d) \/ CreateLock(d) \/ DatabaseBackup(d)
  \/ StopService(d) \/ WaitPortReleased(d) \/ ReadSchema(d) \/ Migration(d) \/ RuntimeGrants(d)
  \/ ReleaseExtraction(d) \/ Configuration(d) \/ SwitchOut(d) \/ SwitchIn(d)
  \/ StartComponent(d) \/ RecordComponent(d) \/ ReturnComponent(d) \/ WaitWebPort(d) \/ WaitWebHealth(d)
  \/ Stabilize(d) \/ PostDeployVerification(d) \/ Announce(d) \/ LogFailure(d) \/ StopStarted(d)
  \/ ReleaseLock(d)
  \/ PhaseThrows(d) \/ Killed(d)

ServiceStep == (\E x \in Starters : WebListens(x)) \/ (\E p \in procs : Exits(p))

Done == (\A d \in Runs : ~Alive(d)) /\ UNCHANGED vars

Next == (\E d \in Runs : RunStep(d)) \/ ServiceStep \/ Done

Spec == Init /\ [][Next]_vars

-----------------------------------------------------------------------------
(* Properties.                                                              *)

DeploymentTypeOK ==
  /\ phase \in [Runs -> BeforeLock \cup AtWork \cup Over]
  /\ lock \in Runs \cup {None, Torn} /\ judged \in [Runs -> Runs \cup {None}] /\ owned \subseteq Runs
  /\ actual \in [Runs -> Nat] /\ \A d \in Runs : phase[d] = "apply" => actual[d] <= Version[d]
  /\ procs \subseteq Kinds \X Starters /\ lost \cup known \cup spared \subseteq Kinds \X Runs
  /\ pidFile \in [Kinds -> Starters \cup {None}]
  /\ listening = None \/ <<"web", listening>> \in procs
  /\ schema \in Nat /\ releases \subseteq Nat
  /\ currentNew \in Runs \cup {None} /\ current \in Starters \cup {None} /\ state \in Starters
  /\ faults \in 0..MaxFaults /\ overtaken \in BOOLEAN /\ last \in Runs \cup {None}

(* Acquire-DeploymentLock and the finally block: the lock is that of the one *)
(* run at work, unless two runs judged one stale lock and the later removed  *)
(* the earlier one's.                                                        *)
LockTellsWhoWorks ==
  ~overtaken => \A d \in Runs : phase[d] \in Stopping \cup Changing \cup Starting => lock = d

(* Why: a run owns the lock from its creation on, a lock that is removed is   *)
(* of a run that is over, and a run that works owns what it judged free.     *)
OwnersHoldTheLock ==
  /\ \A d \in Runs : phase[d] \in Stopping \cup Changing \cup Starting \cup {"report"} => d \in owned
  /\ ~overtaken => \A d \in owned : Alive(d) => lock = d
StaleIsOver ==
  \A d \in Runs : phase[d] = "remove" => judged[d] \in Runs /\ ~Alive(judged[d])

(* A process that is not lost has the PID record of its kind, or waits for   *)
(* it; no record is written early; and the record of a kind that the run at  *)
(* work has stopped names no process that runs.                              *)
RecordPhase == [k \in Kinds |-> IF k = "web" THEN "web_record" ELSE "worker_record"]
ProcessesAreRecorded ==
  ~overtaken => \A k \in Kinds, x \in Starters :
    <<k, x>> \in procs \ lost => pidFile[k] = x \/ (x \in Runs /\ phase[x] = RecordPhase[k])

NoWebRecord    == {"port_free", "web_record"} \cup Changing
NoWorkerRecord == {"stop_web"} \cup NoWebRecord
                    \cup {"web_log", "port_check", "health", "worker_start", "worker_record"}
NoRecord == [k \in Kinds |-> IF k = "web" THEN NoWebRecord ELSE NoWorkerRecord]

NoEarlyRecord ==
  \A k \in Kinds : pidFile[k] \in Runs => phase[pidFile[k]] \notin BeforeLock \cup Stopping \cup NoRecord[k]
RecordsAreRemoved ==
  ~overtaken => \A d \in Runs, k \in Kinds : phase[d] \in NoRecord[k] => <<k, pidFile[k]>> \notin procs

(* What the catch block of a run knows and has passed does not run, unless   *)
(* its stop failed.                                                          *)
Passed == [k \in Kinds |-> IF k = "web" THEN {"report_failure", "failed"}
                                        ELSE {"catch_web", "report_failure", "failed"}]
CaughtAreStopped ==
  \A d \in Runs, k \in Kinds : phase[d] \in Passed[k] /\ <<k, d>> \in procs \cap known => <<k, d>> \in spared

(* What the run that took the lock last has completed stands.                *)
Stored         == {"announce", "report", "succeeded"}
WorkerRecorded == {"worker_log", "stabilize", "verify"} \cup Stored
WebRecorded    == {"web_log", "port_check", "health", "worker_start", "worker_record"} \cup WorkerRecorded
Switched       == {"web_start", "web_record"} \cup WebRecorded
Switching      == {"switch_out", "switch_in"}
Extracted      == {"configure"} \cup Switching \cup Switched
Migrated       == {"grants", "extract"} \cup Extracted

LastHolds == lock \in Runs => last = lock
CompletedStands ==
  ~overtaken /\ last \in Runs =>
    /\ phase[last] = "apply" => schema = actual[last]
    /\ phase[last] \in Migrated => schema = Version[last]
    /\ phase[last] \in Extracted => Version[last] \in releases
    /\ phase[last] \in Switching => currentNew = last
    /\ phase[last] \in Switched => current = last
    /\ phase[last] \in WebRecorded => pidFile["web"] = last
    /\ phase[last] \in WorkerRecorded => pidFile["worker"] = last
    /\ phase[last] \in Stored => state = last

DeploymentIInv ==
  /\ DeploymentTypeOK /\ OwnersHoldTheLock /\ StaleIsOver /\ LockTellsWhoWorks
  /\ ProcessesAreRecorded /\ NoEarlyRecord /\ RecordsAreRemoved /\ CaughtAreStopped
  /\ LastHolds /\ CompletedStands

(* StopWorker, StopWeb, Wait-PortReleased: from the migration to the start   *)
(* of the new web no service runs, however the runs before this one ended;   *)
(* only a process that no PID record names can be missed.                    *)
MigratesAlone ==
  ~overtaken => \A d \in Runs : phase[d] \in Changing => procs \subseteq lost

(* docs/production-deployment.md:58 says that the newly started processes of *)
(* a run that fails are stopped.  The code does less.  Its catch block knows *)
(* a process only after the message that follows the PID record, stops       *)
(* nothing when the log cannot be written, and does not see a stop that      *)
(* fails.  What holds of a process that a failed run leaves: if it was       *)
(* known, the log or its stop has failed; and, as long as no lock was        *)
(* overtaken, the PID record of its kind names it, so that the next run      *)
(* stops it, unless that record could not be written.                        *)
FailureIsContained ==
  \A d \in Runs, k \in Kinds : phase[d] = "failed" /\ <<k, d>> \in procs =>
    /\ <<k, d>> \in known => <<k, d>> \in spared
    /\ overtaken \/ <<k, d>> \in lost \/ pidFile[k] = d

(* A run that succeeds has left its own release in current, its schema, its  *)
(* PID records and its state file, whatever the runs before it left behind.  *)
SuccessIsWhole ==
  ~overtaken /\ last \in Runs =>
    (phase[last] = "succeeded" =>
      /\ current = last /\ state = last /\ pidFile = [k \in Kinds |-> last]
      /\ schema = Version[last] /\ Version[last] \in releases)

=============================================================================
