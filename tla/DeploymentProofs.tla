------------------------- MODULE DeploymentProofs -------------------------
(***************************************************************************)
(* Proofs about Deployment for any runs of the script, any versions and    *)
(* any number of faults.  DeploymentIInv is inductive, and the three       *)
(* properties of the run follow from it.                                   *)
(***************************************************************************)
EXTENDS Deployment, TLAPS

(* The phases in which a run has the lock. *)
Holding == Stopping \cup Changing \cup Starting \cup {"report"}

LockPart      == OwnersHoldTheLock /\ StaleIsOver /\ LockTellsWhoWorks /\ LastHolds
ProcessPart   == ProcessesAreRecorded /\ NoEarlyRecord /\ RecordsAreRemoved
LEMMA Parts == DeploymentIInv <=> DeploymentTypeOK /\ LockPart /\ ProcessPart /\ CaughtAreStopped /\
     CompletedStands
BY DEF DeploymentIInv, LockPart, ProcessPart

LEMMA Phases ==
  /\ \A x \in Holding : x \notin Over /\ x \notin BeforeLock
  /\ \A x \in NoWebRecord \cup NoWorkerRecord : x \in Stopping \cup Changing \cup Starting
  /\ \A x \in {"web_record", "worker_record"} : x \in Starting
  /\ \A x \in Migrated : x \in Holding \cup {"succeeded"}
  /\ Extracted \subseteq Migrated /\ Switching \subseteq Extracted /\ Switched \subseteq Extracted
  /\ WebRecorded \subseteq Switched /\ WorkerRecorded \subseteq WebRecorded /\ Stored \subseteq WorkerRecorded
BY DEF Holding, Over, BeforeLock, Stopping, Changing, Starting, NoWebRecord, NoWorkerRecord, Migrated,
       Extracted, Switching, Switched, WebRecorded, WorkerRecorded, Stored

(* While no lock was overtaken, the run that has it is the last, and alone. *)
LEMMA Alone ==
  ASSUME LockPart, ~overtaken, NEW d \in Runs, phase[d] \in Holding
  PROVE  lock = d /\ last = d /\ \A e \in Runs : phase[e] \in Holding => e = d
<1>1. \A e \in Runs : phase[e] \in Holding => Alive(e) /\ e \in owned
  BY Phases DEF LockPart, OwnersHoldTheLock, Holding, Alive
<1>2. \A e \in Runs : phase[e] \in Holding => lock = e
  BY <1>1 DEF LockPart, OwnersHoldTheLock
<1> QED
  BY <1>2 DEF LockPart, LastHolds

-----------------------------------------------------------------------------
(* Types.                                                                   *)

LEMMA VersionType == ASSUME DeploymentAssumption, NEW d \in Runs PROVE Version[d] \in Nat
BY DEF DeploymentAssumption

LEMMA StopKeepsTypes ==
  ASSUME DeploymentTypeOK, NEW p, Stop(p)
  PROVE  /\ procs' \subseteq procs
         /\ listening' = None \/ <<"web", listening'>> \in procs'
BY DEF DeploymentTypeOK, Stop

LEMMA TypeSteps ==
  ASSUME DeploymentAssumption, DeploymentTypeOK, NEW d \in Runs, RunStep(d)
  PROVE  DeploymentTypeOK'
<1> USE DEF DeploymentTypeOK, Starters, Kinds, DeploymentAssumption, lockVars, files, services, history, database
<1> DEFINE Phase == BeforeLock \cup AtWork \cup Over
<1>1. ASSUME NEW n \in Phase, Goto(d, n), n # "apply", UNCHANGED actual
      PROVE  /\ phase' \in [Runs -> Phase]
             /\ \A e \in Runs : phase'[e] = "apply" => actual'[e] <= Version[e]
  BY <1>1 DEF Goto
<1>2. CASE Preflight(d)
  BY <1>2, <1>1 DEF Preflight, Goto, Throw, BeforeLock, AtWork, Stopping, Changing, Starting, Ending, Over
<1>3. CASE CheckLock(d)
  BY <1>3, <1>1 DEF CheckLock, Goto, Throw, BeforeLock, AtWork, Stopping, Changing, Starting, Ending, Over
<1>4. CASE RemoveStale(d)
  BY <1>4, <1>1 DEF RemoveStale, Goto, Throw, BeforeLock, AtWork, Stopping, Changing, Starting, Ending, Over
<1>5. CASE CreateLock(d)
  BY <1>5, <1>1 DEF CreateLock, Fault, Goto, Throw, BeforeLock, AtWork, Stopping, Changing, Starting, Ending, Over
<1>6. CASE DatabaseBackup(d)
  BY <1>6, <1>1 DEF DatabaseBackup, Goto, Throw, BeforeLock, AtWork, Stopping, Changing, Starting, Ending, Over
<1>7. CASE StopService(d)
  <2>1. PICK k \in Kinds, n \in Phase : StopRecorded(d, k, n) /\ n # "apply"
    BY <1>7 DEF StopService, BeforeLock, AtWork, Stopping, Over
  <2>2. /\ Goto(d, n) /\ Stop(<<k, pidFile[k]>>)
        /\ pidFile' = pidFile \/ pidFile' = [pidFile EXCEPT ![k] = None]
        /\ faults' \in 0..MaxFaults
    BY <2>1 DEF StopRecorded, Fault
  <2>3. procs' \subseteq procs /\ (listening' = None \/ <<"web", listening'>> \in procs')
    BY <2>2, StopKeepsTypes
  <2>4. UNCHANGED <<lockVars, releases, currentNew, current, state, history, database>>
    BY <1>7 DEF StopService
  <2> QED
    BY <1>1, <2>1, <2>2, <2>3, <2>4
<1>8. CASE WaitPortReleased(d)
  BY <1>8, <1>1 DEF WaitPortReleased, Goto, Throw, BeforeLock, AtWork, Stopping, Changing, Starting, Ending,
     Over
<1>9. CASE ReadSchema(d)
  BY <1>9 DEF ReadSchema, Goto, Throw, BeforeLock, AtWork, Stopping, Changing, Starting, Ending, Over
<1>10. CASE Migration(d)
  BY <1>10 DEF Migration, Goto, Throw, BeforeLock, AtWork, Stopping, Changing, Starting, Ending, Over
<1>11. CASE RuntimeGrants(d)
  BY <1>11, <1>1 DEF RuntimeGrants, Goto, Throw, BeforeLock, AtWork, Stopping, Changing, Starting, Ending, Over
<1>12. CASE ReleaseExtraction(d)
  <2>1. releases' \subseteq Nat
    <3>1. releases' \subseteq releases \cup {Version[d]}
      BY <1>12 DEF ReleaseExtraction
    <3>2. Version[d] \in Nat
      BY VersionType
    <3> QED
      BY <3>1, <3>2
  <2>2. PICK n \in {"configure", "catch_log"} : Goto(d, n)
    BY <1>12 DEF ReleaseExtraction, Throw
  <2>3. UNCHANGED <<lockVars, pidFile, currentNew, current, state, services, database, faults>>
    BY <1>12 DEF ReleaseExtraction
  <2> QED
    BY <1>1, <2>1, <2>2, <2>3 DEF BeforeLock, AtWork, Changing, Ending
<1>13. CASE Configuration(d)
  BY <1>13, <1>1 DEF Configuration, Goto, Throw, BeforeLock, AtWork, Stopping, Changing, Starting, Ending, Over
<1>14. CASE SwitchOut(d)
  BY <1>14, <1>1 DEF SwitchOut, Goto, Throw, BeforeLock, AtWork, Stopping, Changing, Starting, Ending, Over
<1>15. CASE SwitchIn(d)
  BY <1>15, <1>1 DEF SwitchIn, Goto, Throw, BeforeLock, AtWork, Stopping, Changing, Starting, Ending, Over
<1>16. CASE StartComponent(d)
  BY <1>16, <1>1 DEF StartComponent, Goto, Throw, BeforeLock, AtWork, Stopping, Changing, Starting, Ending, Over
<1>17. CASE RecordComponent(d)
  BY <1>17, <1>1 DEF RecordComponent, Goto, Throw, BeforeLock, AtWork, Stopping, Changing, Starting, Ending,
     Over
<1>18. CASE WaitWebPort(d)
  BY <1>18, <1>1 DEF WaitWebPort, Goto, Throw, BeforeLock, AtWork, Stopping, Changing, Starting, Ending, Over
<1>19. CASE WaitWebHealth(d)
  BY <1>19, <1>1 DEF WaitWebHealth, Goto, Throw, BeforeLock, AtWork, Stopping, Changing, Starting, Ending, Over
<1>20. CASE Stabilize(d)
  BY <1>20, <1>1 DEF Stabilize, Goto, Throw, BeforeLock, AtWork, Stopping, Changing, Starting, Ending, Over
<1>21. CASE PostDeployVerification(d)
  BY <1>21, <1>1 DEF PostDeployVerification, Goto, Throw, BeforeLock, AtWork, Stopping, Changing, Starting,
     Ending, Over
<1>22. CASE StopStarted(d)
  <2>1. PICK n \in Phase : Goto(d, n) /\ n # "apply"
    BY <1>22 DEF StopStarted, AtWork, Ending
  <2>2. procs' \subseteq procs /\ (listening' = None \/ <<"web", listening'>> \in procs')
    BY <1>22, StopKeepsTypes DEF StopStarted, StopKnown
  <2>3. UNCHANGED <<lockVars, files, lost, known, database>>
    BY <1>22 DEF StopStarted
  <2>4. spared' \subseteq Kinds \X Runs /\ faults' \in 0..MaxFaults
    BY <1>22 DEF StopStarted, StopKnown, Fault
  <2> QED
    BY <1>1, <2>1, <2>2, <2>3, <2>4
<1>23. CASE ReleaseLock(d)
  BY <1>23, <1>1 DEF ReleaseLock, Fault, Goto, Throw, BeforeLock, AtWork, Stopping, Changing, Starting, Ending, Over
<1>24. CASE PhaseThrows(d)
  BY <1>24, <1>1 DEF PhaseThrows, Fault, Goto, Throw, Unrecorded, BeforeLock, AtWork, Stopping, Changing, Starting,
     Ending, Over
<1>25. CASE Killed(d)
  BY <1>25, <1>1 DEF Killed, Fault, Goto, Throw, Unrecorded, BeforeLock, AtWork, Stopping, Changing, Starting,
     Ending, Over
<1>26. CASE ReturnComponent(d)
  BY <1>26, <1>1 DEF ReturnComponent, Goto, Throw, BeforeLock, AtWork, Stopping, Changing, Starting, Ending, Over
<1>27. CASE Announce(d)
  BY <1>27, <1>1 DEF Announce, Goto, Throw, BeforeLock, AtWork, Stopping, Changing, Starting, Ending, Over
<1>28. CASE LogFailure(d)
  BY <1>28, <1>1 DEF LogFailure, Fault, Goto, Throw, BeforeLock, AtWork, Stopping, Changing, Starting, Ending, Over
<1> QED
  BY <1>2, <1>3, <1>4, <1>5, <1>6, <1>7, <1>8, <1>9, <1>10, <1>11, <1>12, <1>13, <1>14, <1>15, <1>16, <1>17,
     <1>18, <1>19, <1>20, <1>21, <1>22, <1>23, <1>24, <1>25, <1>26, <1>27, <1>28 DEF RunStep

-----------------------------------------------------------------------------
(* The lock.                                                                *)

LEMMA OwnersStay ==
  ASSUME DeploymentTypeOK, LockPart, UNCHANGED <<lock, overtaken>>, owned' \subseteq owned,
         \A e \in Runs : Alive(e)' => Alive(e),
         \A e \in Runs : phase'[e] \in Holding => phase[e] \in Holding /\ (e \in owned => e \in owned')
  PROVE  OwnersHoldTheLock'
<1>1. \A e \in Runs : phase'[e] \in Holding => e \in owned'
  BY DEF LockPart, OwnersHoldTheLock, Holding
<1>2. ~overtaken' => \A e \in owned' : Alive(e)' => lock' = e
  BY DEF LockPart, OwnersHoldTheLock, DeploymentTypeOK
<1> QED
  BY <1>1, <1>2 DEF OwnersHoldTheLock, Holding

(* A step of a run that leaves the lock alone and does not begin to hold it. *)
LEMMA LockLeftAlone ==
  ASSUME DeploymentTypeOK, LockPart, NEW d \in Runs, NEW n, Goto(d, n), Alive(d),
         UNCHANGED <<lock, overtaken, last>>,
         owned' \subseteq owned, \A e \in Runs : e # d => judged'[e] = judged[e] /\ (e \in owned => e \in owned'),
         n \in Holding => phase[d] \in Holding /\ owned' = owned,
         n # "remove"
  PROVE  LockPart'
<1>1. phase' = [phase EXCEPT ![d] = n] /\ phase \in [Runs -> BeforeLock \cup AtWork \cup Over]
  BY DEF Goto, DeploymentTypeOK
<1>2. \A e \in Runs : (~Alive(e) => ~Alive(e)') /\ (Alive(e)' => Alive(e))
  BY <1>1 DEF Alive
<1>3. \A e \in Runs : phase'[e] \in Holding => phase[e] \in Holding /\ (e \in owned => e \in owned')
  BY <1>1
<1>4. OwnersHoldTheLock'
  BY <1>2, <1>3, OwnersStay
<1>5. StaleIsOver'
  BY <1>1, <1>2 DEF LockPart, StaleIsOver, DeploymentTypeOK
<1>6. LockTellsWhoWorks'
  BY <1>3, Alone DEF Holding, LockTellsWhoWorks
<1>7. LastHolds'
  BY DEF LockPart, LastHolds
<1> QED
  BY <1>4, <1>5, <1>6, <1>7 DEF LockPart

LEMMA LockSteps ==
  ASSUME DeploymentAssumption, DeploymentTypeOK, LockPart, NEW d \in Runs, RunStep(d)
  PROVE  LockPart'
<1> USE DEF DeploymentAssumption
<1>1. phase \in [Runs -> BeforeLock \cup AtWork \cup Over] /\ judged \in [Runs -> Runs \cup {None}]
  BY DEF DeploymentTypeOK
<1>2. CASE Preflight(d)
  BY <1>2, LockLeftAlone DEF Preflight, Throw, Alive, Holding, BeforeLock, Stopping, Changing, Starting,
     Ending, Over, lockVars
<1>3. CASE CheckLock(d)
  <2>1. PICK n \in {"create", "catch_log", "remove"} :
          /\ Goto(d, n)
          /\ judged' = [judged EXCEPT ![d] = IF lock \in Runs /\ ~Alive(lock) THEN lock ELSE None]
          /\ n = "remove" => lock \in Runs /\ ~Alive(lock)
    BY <1>3 DEF CheckLock, Throw
  <2>2. phase[d] = "lock" /\ UNCHANGED <<lock, owned, overtaken, last>>
    BY <1>3 DEF CheckLock
  <2>3. /\ \A e \in Runs : e # d => phase'[e] = phase[e] /\ judged'[e] = judged[e]
        /\ phase'[d] = n /\ (n = "remove" => judged'[d] = lock) /\ Alive(d)
    BY <1>1, <2>1, <2>2 DEF Goto, Alive, Over
  <2>4. \A e \in Runs : (Alive(e) <=> Alive(e)') /\ (phase'[e] \in Holding => phase[e] \in Holding)
    BY <2>1, <2>3 DEF Alive, Over, Holding, Stopping, Changing, Starting
  <2>5. OwnersHoldTheLock'
    BY <2>2, <2>4, OwnersStay
  <2>6. StaleIsOver'
    BY <2>1, <2>3, <2>4 DEF LockPart, StaleIsOver
  <2>7. LockTellsWhoWorks'
    BY <2>2, <2>4, Alone DEF Holding, LockTellsWhoWorks
  <2> QED
    BY <2>2, <2>5, <2>6, <2>7 DEF LockPart, LastHolds
<1>4. CASE RemoveStale(d)
  <2>1. /\ phase[d] = "remove" /\ lock' = None /\ UNCHANGED <<owned, last>>
        /\ \A e \in Runs : e # d => judged'[e] = judged[e]
        /\ overtaken' = (overtaken \/ lock \notin {None, judged[d]})
    BY <1>1, <1>4 DEF RemoveStale
  <2>2. PICK n \in {"create", "catch_log"} : Goto(d, n)
    BY <1>4 DEF RemoveStale, Throw
  <2>3. judged[d] \in Runs /\ ~Alive(judged[d])
    BY <2>1 DEF LockPart, StaleIsOver
  <2>4. /\ \A e \in Runs : e # d => phase'[e] = phase[e]
        /\ phase'[d] = n /\ Alive(d)
    BY <1>1, <2>1, <2>2 DEF Goto, Alive, Over
  <2>5. \A e \in Runs : (Alive(e) <=> Alive(e)') /\ (phase'[e] \in Holding => phase[e] \in Holding)
    BY <2>2, <2>4 DEF Alive, Over, Holding, Stopping, Changing, Starting
  <2>6. ~overtaken' => \A e \in owned : ~Alive(e)
    BY <2>1, <2>3 DEF LockPart, OwnersHoldTheLock, DeploymentTypeOK
  <2>7. \A e \in Runs : phase'[e] \in Holding => e \in owned /\ Alive(e)
    BY <2>5, Phases DEF LockPart, OwnersHoldTheLock, Holding, Alive
  <2>8. OwnersHoldTheLock'
    BY <2>1, <2>5, <2>6, <2>7 DEF OwnersHoldTheLock, Holding, DeploymentTypeOK
  <2>9. StaleIsOver'
    BY <2>1, <2>2, <2>4, <2>5 DEF LockPart, StaleIsOver
  <2>10. LockTellsWhoWorks'
    BY <2>1, <2>6, <2>7 DEF LockTellsWhoWorks, Holding
  <2> QED
    BY <2>1, <2>8, <2>9, <2>10 DEF LockPart, LastHolds
<1>5. CASE CreateLock(d)
  <2>1. phase[d] = "create" /\ Alive(d) /\ UNCHANGED <<judged, overtaken>>
    BY <1>5 DEF CreateLock, Alive, Over
  <2>2. CASE lock # None
    BY <1>5, <2>1, <2>2, LockLeftAlone DEF CreateLock, Throw, lockVars, Holding, Stopping, Changing, Starting
  <2>3. CASE lock = None
    <3>1. ~overtaken => \A e \in owned : ~Alive(e)
      BY <2>3 DEF LockPart, OwnersHoldTheLock, DeploymentTypeOK
    <3>2. PICK n \in {"backup", "catch_log"} :
            /\ Goto(d, n)
            /\ n = "backup" => lock' = d /\ owned' = owned \cup {d} /\ last' = d
            /\ n = "catch_log" => lock' = Torn /\ UNCHANGED <<owned, last>>
      BY <1>5, <2>3 DEF CreateLock, Throw
    <3>3. /\ \A e \in Runs : e # d => phase'[e] = phase[e]
          /\ phase'[d] = n
      BY <1>1, <3>2 DEF Goto
    <3>4. \A e \in Runs : (Alive(e) <=> Alive(e)') /\ (e # d /\ phase'[e] \in Holding => phase[e] \in Holding)
      BY <2>1, <3>2, <3>3 DEF Alive, Over
    <3>5. \A e \in Runs : phase[e] \in Holding => e \in owned /\ Alive(e)
      BY Phases DEF LockPart, OwnersHoldTheLock, Holding, Alive
    <3>6. phase'[d] \in Holding => n = "backup"
      BY <3>2, <3>3 DEF Holding, Stopping, Changing, Starting
    <3>7. OwnersHoldTheLock'
      BY <2>1, <3>1, <3>2, <3>4, <3>5, <3>6 DEF OwnersHoldTheLock, Holding, DeploymentTypeOK
    <3>8. StaleIsOver'
      BY <2>1, <3>2, <3>3, <3>4 DEF LockPart, StaleIsOver
    <3>9. LockTellsWhoWorks'
      BY <2>1, <3>1, <3>2, <3>3, <3>4, <3>5, <3>6 DEF LockTellsWhoWorks, Holding
    <3> QED
      BY <3>2, <3>7, <3>8, <3>9 DEF LockPart, LastHolds
  <2> QED
    BY <2>2, <2>3
<1>6. CASE DatabaseBackup(d)
  BY <1>6, LockLeftAlone DEF DatabaseBackup, Throw, Alive, Holding, BeforeLock, Stopping, Changing, Starting,
     Ending, Over, lockVars
<1>7. CASE StopService(d)
  BY <1>7, LockLeftAlone DEF StopService, StopRecorded, Throw, Alive, Holding, BeforeLock, Stopping, Changing,
     Starting, Ending, Over, lockVars
<1>8. CASE WaitPortReleased(d)
  BY <1>8, LockLeftAlone DEF WaitPortReleased, Throw, Alive, Holding, BeforeLock, Stopping, Changing,
     Starting, Ending, Over, lockVars
<1>9. CASE ReadSchema(d)
  BY <1>9, LockLeftAlone DEF ReadSchema, Throw, Alive, Holding, BeforeLock, Stopping, Changing, Starting,
     Ending, Over, lockVars
<1>10. CASE Migration(d)
  <2>1. CASE UNCHANGED phase
    BY <1>10, <2>1 DEF Migration, LockPart, OwnersHoldTheLock, StaleIsOver, LockTellsWhoWorks, LastHolds,
     lockVars, Alive
  <2>2. CASE Goto(d, "grants") \/ Throw(d)
    BY <1>10, <2>2, LockLeftAlone DEF Migration, Throw, Alive, Holding, Stopping, Changing, Starting, Over, lockVars
  <2> QED
    BY <1>10, <2>1, <2>2 DEF Migration
<1>11. CASE RuntimeGrants(d)
  BY <1>11, LockLeftAlone DEF RuntimeGrants, Throw, Alive, Holding, BeforeLock, Stopping, Changing, Starting,
     Ending, Over, lockVars
<1>12. CASE ReleaseExtraction(d)
  BY <1>12, LockLeftAlone DEF ReleaseExtraction, Throw, Alive, Holding, BeforeLock, Stopping, Changing,
     Starting, Ending, Over, lockVars
<1>13. CASE Configuration(d)
  BY <1>13, LockLeftAlone DEF Configuration, Throw, Alive, Holding, BeforeLock, Stopping, Changing, Starting,
     Ending, Over, lockVars
<1>14. CASE SwitchOut(d)
  BY <1>14, LockLeftAlone DEF SwitchOut, Throw, Alive, Holding, BeforeLock, Stopping, Changing, Starting,
     Ending, Over, lockVars
<1>15. CASE SwitchIn(d)
  BY <1>15, LockLeftAlone DEF SwitchIn, Throw, Alive, Holding, BeforeLock, Stopping, Changing, Starting,
     Ending, Over, lockVars
<1>16. CASE StartComponent(d)
  BY <1>16, LockLeftAlone DEF StartComponent, Throw, Alive, Holding, BeforeLock, Stopping, Changing, Starting,
     Ending, Over, lockVars
<1>17. CASE RecordComponent(d)
  BY <1>17, LockLeftAlone DEF RecordComponent, Throw, Alive, Holding, BeforeLock, Stopping, Changing,
     Starting, Ending, Over, lockVars
<1>18. CASE WaitWebPort(d)
  BY <1>18, LockLeftAlone DEF WaitWebPort, Throw, Alive, Holding, BeforeLock, Stopping, Changing, Starting,
     Ending, Over, lockVars
<1>19. CASE WaitWebHealth(d)
  BY <1>19, LockLeftAlone DEF WaitWebHealth, Throw, Alive, Holding, BeforeLock, Stopping, Changing, Starting,
     Ending, Over, lockVars
<1>20. CASE Stabilize(d)
  BY <1>20, LockLeftAlone DEF Stabilize, Throw, Alive, Holding, BeforeLock, Stopping, Changing, Starting,
     Ending, Over, lockVars
<1>21. CASE PostDeployVerification(d)
  BY <1>21, LockLeftAlone DEF PostDeployVerification, Throw, Alive, Holding, BeforeLock, Stopping, Changing,
     Starting, Ending, Over, lockVars
<1>22. CASE StopStarted(d)
  BY <1>22, LockLeftAlone DEF StopStarted, Throw, Alive, Holding, BeforeLock, Stopping, Changing, Starting,
     Ending, Over, lockVars
<1>23. CASE ReleaseLock(d)
  <2>1. /\ phase[d] \in {"report", "report_failure"} /\ owned' = owned \ {d}
        /\ lock' = lock \/ (lock' = None /\ d \in owned)
        /\ UNCHANGED <<judged, overtaken, last>>
    BY <1>23 DEF ReleaseLock
  <2>2. PICK n \in {"succeeded", "failed"} : Goto(d, n)
    BY <1>23 DEF ReleaseLock
  <2>3. /\ \A e \in Runs : e # d => phase'[e] = phase[e]
        /\ phase'[d] = n /\ Alive(d) /\ ~Alive(d)'
    BY <1>1, <2>1, <2>2 DEF Goto, Alive, Over
  <2>4. /\ \A e \in Runs : (~Alive(e) => ~Alive(e)') /\ (Alive(e)' => e # d /\ Alive(e))
        /\ \A e \in Runs : phase'[e] \in Holding => e # d /\ phase[e] \in Holding
    BY <2>2, <2>3 DEF Alive, Over, Holding, Stopping, Changing, Starting
  <2>5. ~overtaken => \A e \in owned : e # d /\ Alive(e) => d \notin owned
    BY <2>3 DEF LockPart, OwnersHoldTheLock
  <2>6. \A e \in Runs : phase[e] \in Holding => e \in owned /\ Alive(e)
    BY Phases DEF LockPart, OwnersHoldTheLock, Holding, Alive
  <2>7. lock' \in Runs => lock' = lock
    BY <2>1, DeploymentAssumption
  <2>8. OwnersHoldTheLock'
    BY <2>1, <2>4, <2>5, <2>6 DEF LockPart, OwnersHoldTheLock, Holding, DeploymentTypeOK
  <2>9. StaleIsOver'
    BY <2>1, <2>2, <2>3, <2>4 DEF LockPart, StaleIsOver
  <2>10. LockTellsWhoWorks'
    BY <2>1, <2>4, <2>5, <2>6, Alone DEF Holding, LockTellsWhoWorks
  <2>11. LastHolds'
    BY <2>1, <2>7 DEF LockPart, LastHolds
  <2> QED
    BY <2>8, <2>9, <2>10, <2>11 DEF LockPart
<1>24. CASE PhaseThrows(d)
  BY <1>24, LockLeftAlone DEF PhaseThrows, Throw, Alive, Holding, BeforeLock, Stopping, Changing, Starting,
     Ending, Over, lockVars
<1>25. CASE Killed(d)
  BY <1>1, <1>25, LockLeftAlone DEF Killed, Holding, Stopping, Changing, Starting
<1>26. CASE ReturnComponent(d)
  BY <1>26, LockLeftAlone DEF ReturnComponent, Throw, Alive, Holding, BeforeLock, Stopping, Changing, Starting,
     Ending, Over, lockVars
<1>27. CASE Announce(d)
  BY <1>27, LockLeftAlone DEF Announce, Throw, Alive, Holding, BeforeLock, Stopping, Changing, Starting,
     Ending, Over, lockVars
<1>28. CASE LogFailure(d)
  BY <1>28, LockLeftAlone DEF LogFailure, Throw, Alive, Holding, BeforeLock, Stopping, Changing, Starting,
     Ending, Over, lockVars
<1> QED
  BY <1>2, <1>3, <1>4, <1>5, <1>6, <1>7, <1>8, <1>9, <1>10, <1>11, <1>12, <1>13, <1>14, <1>15, <1>16, <1>17,
     <1>18, <1>19, <1>20, <1>21, <1>22, <1>23, <1>24, <1>25, <1>26, <1>27, <1>28 DEF RunStep

-----------------------------------------------------------------------------
(* The processes and their records.                                         *)

LEMMA StopOnlyStops ==
  ASSUME NEW p, Stop(p) PROVE procs' \subseteq procs /\ p \notin procs'
BY DEF Stop

(* A step of a run that starts nothing and writes no record, and leaves no   *)
(* process between its start and its record.                                 *)
LEMMA RecordsLeftAlone ==
  ASSUME DeploymentTypeOK, LockPart, ProcessPart, NEW d \in Runs, NEW n, Goto(d, n),
         procs' \subseteq procs, lost \subseteq lost', UNCHANGED <<pidFile, overtaken>>,
         n \in NoWebRecord => phase[d] \in NoWebRecord,
         n \in NoWorkerRecord => phase[d] \in NoWorkerRecord,
         n \in BeforeLock \cup Stopping => phase[d] \in BeforeLock \cup Stopping,
         phase[d] = "web_record" => <<"web", d>> \in lost',
         phase[d] = "worker_record" => <<"worker", d>> \in lost'
  PROVE  ProcessPart'
<1>1. /\ \A e \in Runs : e # d => phase'[e] = phase[e]
      /\ phase'[d] = n
  BY DEF Goto, DeploymentTypeOK
<1>2. ProcessesAreRecorded'
  <2> SUFFICES ASSUME ~overtaken, NEW k \in Kinds, NEW x \in Starters, <<k, x>> \in procs \ lost, <<k, x>>
     \notin lost'
               PROVE  pidFile[k] = x \/ (x \in Runs /\ phase'[x] = RecordPhase[k])
    BY DEF ProcessesAreRecorded
  <2>1. pidFile[k] = x \/ (x \in Runs /\ phase[x] = RecordPhase[k])
    BY DEF ProcessPart, ProcessesAreRecorded
  <2>2. x = d => phase[x] # RecordPhase[k]
    BY DEF RecordPhase, Kinds
  <2> QED
    BY <1>1, <2>1, <2>2
<1>3. \A e \in Runs, k \in Kinds :
        /\ phase'[e] \in NoRecord[k] => phase[e] \in NoRecord[k]
        /\ phase'[e] \in BeforeLock \cup Stopping => phase[e] \in BeforeLock \cup Stopping
  BY <1>1 DEF NoRecord, Kinds
<1>4. NoEarlyRecord'
  BY <1>3 DEF ProcessPart, NoEarlyRecord
<1>5. RecordsAreRemoved'
  BY <1>3 DEF ProcessPart, RecordsAreRemoved
<1> QED
  BY <1>2, <1>4, <1>5 DEF ProcessPart

LEMMA StopMovesOn ==
  ASSUME DeploymentAssumption, DeploymentTypeOK, ProcessPart, NEW d \in Runs, NEW k \in Kinds, NEW n,
         StopRecorded(d, k, n),
         UNCHANGED <<lost, overtaken>>,
         phase[d] \in {"stop_worker", "stop_web"},
         \/ phase[d] = "stop_worker" /\ k = "worker" /\ n = "stop_web"
         \/ phase[d] = "stop_web" /\ k = "web" /\ n = "port_free"
  PROVE  ProcessPart'
<1>1. /\ procs' = procs \ {<<k, pidFile[k]>>} /\ pidFile \in [Kinds -> Starters \cup {None}]
      /\ pidFile' = pidFile \/ pidFile' = [pidFile EXCEPT ![k] = None]
  BY DEF StopRecorded, Stop, DeploymentTypeOK
<1>2. /\ \A e \in Runs : e # d => phase'[e] = phase[e]
      /\ phase'[d] = n
  BY DEF StopRecorded, Goto, DeploymentTypeOK
<1>3. /\ \A j \in Kinds : j # k => pidFile'[j] = pidFile[j]
      /\ pidFile'[k] \in {pidFile[k], None}
  BY <1>1
<1>4. \A x \in Runs, j \in Kinds : phase[x] = RecordPhase[j] => x # d /\ phase'[x] = RecordPhase[j]
  BY <1>2 DEF RecordPhase, Kinds
<1>5. ProcessesAreRecorded'
  BY <1>1, <1>3, <1>4 DEF ProcessPart, ProcessesAreRecorded
<1>6. None \notin Starters /\ None \notin Runs /\ procs \subseteq Kinds \X Starters
  BY DEF DeploymentAssumption, Starters, DeploymentTypeOK
<1>7. \A j \in Kinds : pidFile'[j] \in Runs => pidFile'[j] = pidFile[j] /\ pidFile[j] # d
  BY <1>3, <1>6 DEF ProcessPart, NoEarlyRecord, Stopping
<1>8. NoEarlyRecord'
  BY <1>2, <1>7 DEF ProcessPart, NoEarlyRecord
<1>9. RecordsAreRemoved'
  <2> SUFFICES ASSUME ~overtaken, NEW e \in Runs, NEW j \in Kinds, phase'[e] \in NoRecord[j]
               PROVE  <<j, pidFile'[j]>> \notin procs'
    BY DEF RecordsAreRemoved
  <2>1. <<k, pidFile'[k]>> \notin procs'
    BY <1>1, <1>3, <1>6
  <2>2. CASE j # k
    <3>1. phase[e] \in NoRecord[j]
      BY <1>2, <2>2 DEF NoRecord, NoWebRecord, NoWorkerRecord, Changing, Kinds
    <3> QED
      BY <1>1, <1>3, <2>2, <3>1 DEF ProcessPart, RecordsAreRemoved
  <2> QED
    BY <2>1, <2>2
<1> QED
  BY <1>5, <1>8, <1>9 DEF ProcessPart

LEMMA ProcessSteps ==
  ASSUME DeploymentAssumption, DeploymentTypeOK, LockPart, ProcessPart, NEW d \in Runs, RunStep(d)
  PROVE  ProcessPart'
<1> USE DEF DeploymentAssumption
<1>1. /\ phase \in [Runs -> BeforeLock \cup AtWork \cup Over] /\ pidFile \in [Kinds -> Starters \cup {None}]
      /\ procs \subseteq Kinds \X Starters
  BY DEF DeploymentTypeOK
<1>2. CASE Preflight(d)
  BY <1>2, RecordsLeftAlone DEF Preflight, Throw, lockVars, services, history, files, NoWebRecord, NoWorkerRecord,
     Changing, BeforeLock, Stopping
<1>3. CASE CheckLock(d)
  BY <1>3, RecordsLeftAlone DEF CheckLock, Throw, lockVars, services, history, files, NoWebRecord, NoWorkerRecord,
     Changing, BeforeLock, Stopping
<1>4. CASE RemoveStale(d)
  <2>1. (~overtaken' => ~overtaken) /\ UNCHANGED <<procs, lost, pidFile>>
    BY <1>4 DEF RemoveStale, services, history, files
  <2>2. PICK n \in {"create", "catch_log"} : Goto(d, n) /\ phase[d] = "remove"
    BY <1>4 DEF RemoveStale, Throw
  <2>3. /\ \A e \in Runs : e # d => phase'[e] = phase[e]
        /\ phase'[d] = n
    BY <1>1, <2>2 DEF Goto
  <2>4. ProcessesAreRecorded'
    BY <2>1, <2>2, <2>3 DEF ProcessPart, ProcessesAreRecorded, RecordPhase, Kinds
  <2>5. \A e \in Runs, k \in Kinds : phase'[e] \in NoRecord[k] => phase[e] \in NoRecord[k]
    BY <2>2, <2>3 DEF NoRecord, NoWebRecord, NoWorkerRecord, Changing, Kinds
  <2>6. RecordsAreRemoved'
    BY <2>1, <2>5 DEF ProcessPart, RecordsAreRemoved
  <2>7. NoEarlyRecord'
    BY <2>1, <2>2, <2>3, <2>5 DEF ProcessPart, NoEarlyRecord, BeforeLock, Stopping
  <2> QED
    BY <2>4, <2>6, <2>7 DEF ProcessPart
<1>5. CASE CreateLock(d)
  BY <1>5, RecordsLeftAlone DEF CreateLock, Throw, lockVars, services, history, files, NoWebRecord, NoWorkerRecord,
     Changing, BeforeLock, Stopping
<1>6. CASE DatabaseBackup(d)
  BY <1>6, RecordsLeftAlone DEF DatabaseBackup, Throw, lockVars, services, history, files, NoWebRecord, NoWorkerRecord,
     Changing, BeforeLock, Stopping
<1>7. CASE StopService(d)
  <2>1. UNCHANGED <<lost, overtaken>>
    BY <1>7 DEF StopService, history, lockVars
  <2>2. CASE phase[d] = "stop_worker" /\ StopRecorded(d, "worker", "stop_web")
    BY <2>1, <2>2, StopMovesOn DEF Kinds
  <2>3. CASE phase[d] = "stop_web" /\ StopRecorded(d, "web", "port_free")
    BY <2>1, <2>3, StopMovesOn DEF Kinds
  <2> QED
    BY <1>7, <2>2, <2>3 DEF StopService
<1>8. CASE WaitPortReleased(d)
  BY <1>8, RecordsLeftAlone DEF WaitPortReleased, Throw, lockVars, services, history, files, NoWebRecord,
     NoWorkerRecord, Changing, BeforeLock, Stopping
<1>9. CASE ReadSchema(d)
  BY <1>9, RecordsLeftAlone DEF ReadSchema, Throw, lockVars, services, history, files, NoWebRecord, NoWorkerRecord,
     Changing, BeforeLock, Stopping
<1>10. CASE Migration(d)
  <2>1. UNCHANGED <<procs, lost, pidFile, overtaken>>
    BY <1>10 DEF Migration, services, history, files, lockVars
  <2>2. CASE UNCHANGED phase
    BY <2>1, <2>2 DEF ProcessPart, ProcessesAreRecorded, NoEarlyRecord, RecordsAreRemoved
  <2>3. CASE Goto(d, "grants") \/ Throw(d)
    BY <1>10, <2>1, <2>3, RecordsLeftAlone DEF Migration, Throw, NoWebRecord, NoWorkerRecord, Changing, BeforeLock, Stopping
  <2> QED
    BY <1>10, <2>2, <2>3 DEF Migration
<1>11. CASE RuntimeGrants(d)
  BY <1>11, RecordsLeftAlone DEF RuntimeGrants, Throw, lockVars, services, history, files, NoWebRecord, NoWorkerRecord,
     Changing, BeforeLock, Stopping
<1>12. CASE ReleaseExtraction(d)
  BY <1>12, RecordsLeftAlone DEF ReleaseExtraction, Throw, lockVars, services, history, files, NoWebRecord,
     NoWorkerRecord, Changing, BeforeLock, Stopping
<1>13. CASE Configuration(d)
  BY <1>13, RecordsLeftAlone DEF Configuration, Throw, lockVars, services, history, files, NoWebRecord, NoWorkerRecord,
     Changing, BeforeLock, Stopping
<1>14. CASE SwitchOut(d)
  BY <1>14, RecordsLeftAlone DEF SwitchOut, Throw, lockVars, services, history, files, NoWebRecord, NoWorkerRecord,
     Changing, BeforeLock, Stopping
<1>15. CASE SwitchIn(d)
  BY <1>15, RecordsLeftAlone DEF SwitchIn, Throw, lockVars, services, history, files, NoWebRecord, NoWorkerRecord,
     Changing, BeforeLock, Stopping
<1>16. CASE StartComponent(d)
  <2>1. CASE current = None
    BY <1>16, <2>1, RecordsLeftAlone DEF StartComponent, Throw, lockVars, history, files, NoWebRecord, NoWorkerRecord,
     Changing, BeforeLock, Stopping
  <2>2. CASE current # None
    <3>1. PICK k \in Kinds : /\ procs' = procs \cup {<<k, d>>} /\ Goto(d, RecordPhase[k])
                             /\ phase[d] = IF k = "web" THEN "web_start" ELSE "worker_start"
      BY <1>16, <2>2 DEF StartComponent, RecordPhase, Kinds
    <3>2. UNCHANGED <<pidFile, lost, overtaken>>
      BY <1>16 DEF StartComponent, files, history, lockVars
    <3>3. /\ \A e \in Runs : e # d => phase'[e] = phase[e]
          /\ phase'[d] = RecordPhase[k]
      BY <1>1, <3>1 DEF Goto
    <3>4. ProcessesAreRecorded'
      BY <3>1, <3>2, <3>3 DEF ProcessPart, ProcessesAreRecorded, RecordPhase, Kinds
    <3>5. \A e \in Runs, j \in Kinds :
            /\ phase'[e] \in NoRecord[j] => phase[e] \in NoRecord[j]
            /\ phase'[e] \in BeforeLock \cup Stopping => phase[e] \in BeforeLock \cup Stopping
      BY <3>1, <3>3 DEF RecordPhase, NoRecord, Kinds, NoWebRecord, NoWorkerRecord, Changing, BeforeLock, Stopping
    <3>6. NoEarlyRecord'
      BY <3>2, <3>5 DEF ProcessPart, NoEarlyRecord
    <3>7. phase[d] \in NoRecord[k]
      BY <3>1 DEF NoRecord, Kinds, NoWebRecord, NoWorkerRecord, Changing
    <3>8. pidFile[k] # d
      BY <3>7 DEF ProcessPart, NoEarlyRecord
    <3>9. RecordsAreRemoved'
      BY <3>1, <3>2, <3>5, <3>8 DEF ProcessPart, RecordsAreRemoved
    <3> QED
      BY <3>4, <3>6, <3>9 DEF ProcessPart
  <2> QED
    BY <2>1, <2>2
<1>17. CASE RecordComponent(d)
  <2>1. PICK k \in Kinds, n \in {"web_log", "worker_log"} :
          /\ phase[d] = RecordPhase[k] /\ Goto(d, n) /\ pidFile' = [pidFile EXCEPT ![k] = d]
          /\ n = IF k = "web" THEN "web_log" ELSE "worker_log"
    BY <1>17 DEF RecordComponent, RecordPhase, Kinds
  <2>2. UNCHANGED <<procs, lost, overtaken>>
    BY <1>17 DEF RecordComponent, services, history, lockVars
  <2>3. /\ \A e \in Runs : e # d => phase'[e] = phase[e]
        /\ phase'[d] = n
    BY <1>1, <2>1 DEF Goto
  <2>4. phase[d] \in Holding /\ phase[d] \in NoWorkerRecord /\ (k = "web" => phase[d] \in NoWebRecord)
    BY <2>1 DEF RecordPhase, Kinds, Holding, Starting, NoWebRecord, NoWorkerRecord
  <2>4a. phase[d] \in NoRecord[k]
    BY <2>4 DEF NoRecord, Kinds
  <2>5. ~overtaken => \A e \in Runs : phase[e] \in Holding => e = d
    BY <2>4, Alone
  <2>6. ~overtaken => <<k, pidFile[k]>> \notin procs
    BY <2>4a DEF ProcessPart, RecordsAreRemoved
  <2>7. None \notin Starters /\ \A j \in Kinds : RecordPhase[j] \in Holding
    BY DEF Starters, RecordPhase, Kinds, Holding, Starting
  <2>8. ProcessesAreRecorded'
    <3> SUFFICES ASSUME ~overtaken, NEW j \in Kinds, NEW x \in Starters, <<j, x>> \in procs \ lost
                 PROVE  pidFile'[j] = x \/ (x \in Runs /\ phase'[x] = RecordPhase[j])
      BY <2>2 DEF ProcessesAreRecorded
    <3>1. pidFile[j] = x \/ (x \in Runs /\ phase[x] = RecordPhase[j])
      BY DEF ProcessPart, ProcessesAreRecorded
    <3>2. CASE j = k
      <4>1. x \in Runs /\ phase[x] = RecordPhase[j]
        BY <2>6, <3>1, <3>2
      <4>2. x = d
        BY <2>5, <2>7, <4>1
      <4> QED
        BY <1>1, <2>1, <3>2, <4>2
    <3>3. CASE j # k
      <4>1. x \in Runs => phase[x] # RecordPhase[j]
        BY <2>1, <2>5, <2>7, <3>3 DEF RecordPhase, Kinds
      <4> QED
        BY <1>1, <2>1, <3>1, <3>3, <4>1
    <3> QED
      BY <3>2, <3>3
  <2>9. \A j \in Kinds : n \in NoRecord[j] => j # k /\ phase[d] \in NoRecord[j]
    BY <2>1, <2>4 DEF NoRecord, NoWebRecord, NoWorkerRecord, Changing, Kinds
  <2>10. NoEarlyRecord'
    <3> SUFFICES ASSUME NEW j \in Kinds, pidFile'[j] \in Runs
                 PROVE  phase'[pidFile'[j]] \notin BeforeLock \cup Stopping \cup NoRecord[j]
      BY DEF NoEarlyRecord
    <3>1. n \notin BeforeLock \cup Stopping
      BY <2>1 DEF BeforeLock, Stopping
    <3>2. CASE j = k
      BY <1>1, <2>1, <2>3, <2>9, <3>1, <3>2
    <3>3. CASE j # k
      BY <1>1, <2>1, <2>3, <2>9, <3>1, <3>3 DEF ProcessPart, NoEarlyRecord
    <3> QED
      BY <3>2, <3>3
  <2>11. RecordsAreRemoved'
    <3> SUFFICES ASSUME ~overtaken, NEW e \in Runs, NEW j \in Kinds, phase'[e] \in NoRecord[j]
                 PROVE  <<j, pidFile'[j]>> \notin procs
      BY <2>2 DEF RecordsAreRemoved
    <3>1. CASE e = d
      BY <1>1, <2>1, <2>3, <2>9, <3>1 DEF ProcessPart, RecordsAreRemoved
    <3>2. CASE e # d
      <4>1. phase[e] \in NoWebRecord \cup NoWorkerRecord
        BY <2>3, <3>2 DEF NoRecord, Kinds
      <4> QED
        BY <2>5, <3>2, <4>1, Phases DEF Holding
    <3> QED
      BY <3>1, <3>2
  <2> QED
    BY <2>8, <2>10, <2>11 DEF ProcessPart
<1>18. CASE WaitWebPort(d)
  BY <1>18, RecordsLeftAlone DEF WaitWebPort, Throw, lockVars, services, history, files, NoWebRecord, NoWorkerRecord,
     Changing, BeforeLock, Stopping
<1>19. CASE WaitWebHealth(d)
  BY <1>19, RecordsLeftAlone DEF WaitWebHealth, Throw, lockVars, services, history, files, NoWebRecord, NoWorkerRecord,
     Changing, BeforeLock, Stopping
<1>20. CASE Stabilize(d)
  BY <1>20, RecordsLeftAlone DEF Stabilize, Throw, lockVars, services, history, files, NoWebRecord, NoWorkerRecord,
     Changing, BeforeLock, Stopping
<1>21. CASE PostDeployVerification(d)
  BY <1>21, RecordsLeftAlone DEF PostDeployVerification, Throw, lockVars, services, history, files, NoWebRecord,
     NoWorkerRecord, Changing, BeforeLock, Stopping
<1>22. CASE StopStarted(d)
  <2>1. procs' \subseteq procs /\ UNCHANGED <<lost, pidFile, overtaken>>
    BY <1>22, StopOnlyStops DEF StopStarted, StopKnown, files, lockVars
  <2> QED
    BY <1>22, <2>1, RecordsLeftAlone DEF StopStarted, NoWebRecord, NoWorkerRecord, Changing, BeforeLock, Stopping
<1>23. CASE ReleaseLock(d)
  BY <1>23, RecordsLeftAlone DEF ReleaseLock, Throw, lockVars, services, history, files, NoWebRecord, NoWorkerRecord,
     Changing, BeforeLock, Stopping
<1>24. CASE PhaseThrows(d)
  BY <1>24, RecordsLeftAlone DEF PhaseThrows, Throw, Unrecorded, lockVars, files, NoWebRecord, NoWorkerRecord,
     Changing, BeforeLock, Stopping
<1>25. CASE Killed(d)
  BY <1>25, RecordsLeftAlone DEF Killed, Throw, Unrecorded, lockVars, files, NoWebRecord, NoWorkerRecord,
     Changing, BeforeLock, Stopping
<1>26. CASE ReturnComponent(d)
  BY <1>26, RecordsLeftAlone DEF ReturnComponent, Throw, lockVars, services, history, files, NoWebRecord,
     NoWorkerRecord, Changing, BeforeLock, Stopping
<1>27. CASE Announce(d)
  BY <1>27, RecordsLeftAlone DEF Announce, Throw, lockVars, services, history, files, NoWebRecord,
     NoWorkerRecord, Changing, BeforeLock, Stopping
<1>28. CASE LogFailure(d)
  BY <1>28, RecordsLeftAlone DEF LogFailure, Throw, lockVars, services, history, files, NoWebRecord,
     NoWorkerRecord, Changing, BeforeLock, Stopping
<1> QED
  BY <1>2, <1>3, <1>4, <1>5, <1>6, <1>7, <1>8, <1>9, <1>10, <1>11, <1>12, <1>13, <1>14, <1>15, <1>16, <1>17,
     <1>18, <1>19, <1>20, <1>21, <1>22, <1>23, <1>24, <1>25, <1>26, <1>27, <1>28 DEF RunStep

-----------------------------------------------------------------------------
(* The catch block.                                                         *)

LEMMA CaughtLeftAlone ==
  ASSUME DeploymentTypeOK, CaughtAreStopped, NEW d \in Runs, NEW n, Goto(d, n),
         procs' \subseteq procs, spared \subseteq spared',
         \A k \in Kinds, e \in Runs : <<k, e>> \in known' => <<k, e>> \in known \/ e = d,
         \A k \in Kinds : n \notin Passed[k]
  PROVE  CaughtAreStopped'
BY DEF Goto, DeploymentTypeOK, CaughtAreStopped

LEMMA CaughtSteps ==
  ASSUME DeploymentTypeOK, CaughtAreStopped, NEW d \in Runs, RunStep(d)
  PROVE  CaughtAreStopped'
<1>1. phase \in [Runs -> BeforeLock \cup AtWork \cup Over]
  BY DEF DeploymentTypeOK
<1>2. CASE Preflight(d)
  BY <1>2, CaughtLeftAlone DEF Preflight, Throw, services, history, Passed, Kinds
<1>3. CASE CheckLock(d)
  BY <1>3, CaughtLeftAlone DEF CheckLock, Throw, services, history, Passed, Kinds
<1>4. CASE RemoveStale(d)
  BY <1>4, CaughtLeftAlone DEF RemoveStale, Throw, services, history, Passed, Kinds
<1>5. CASE CreateLock(d)
  BY <1>5, CaughtLeftAlone DEF CreateLock, Throw, services, history, Passed, Kinds
<1>6. CASE DatabaseBackup(d)
  BY <1>6, CaughtLeftAlone DEF DatabaseBackup, Throw, services, history, Passed, Kinds
<1>7. CASE StopService(d)
  <2>1. procs' \subseteq procs /\ UNCHANGED <<known, spared>>
    BY <1>7, StopOnlyStops DEF StopService, StopRecorded, history
  <2> QED
    BY <1>7, <2>1, CaughtLeftAlone DEF StopService, StopRecorded, Passed, Kinds
<1>8. CASE WaitPortReleased(d)
  BY <1>8, CaughtLeftAlone DEF WaitPortReleased, Throw, services, history, Passed, Kinds
<1>9. CASE ReadSchema(d)
  BY <1>9, CaughtLeftAlone DEF ReadSchema, Throw, services, history, Passed, Kinds
<1>10. CASE Migration(d)
  <2>1. UNCHANGED <<procs, known, spared>>
    BY <1>10 DEF Migration, services, history
  <2>2. CASE UNCHANGED phase
    BY <2>1, <2>2 DEF CaughtAreStopped
  <2>3. CASE Goto(d, "grants") \/ Throw(d)
    BY <2>1, <2>3, CaughtLeftAlone DEF Throw, Passed, Kinds
  <2> QED
    BY <1>10, <2>2, <2>3 DEF Migration
<1>11. CASE RuntimeGrants(d)
  BY <1>11, CaughtLeftAlone DEF RuntimeGrants, Throw, services, history, Passed, Kinds
<1>12. CASE ReleaseExtraction(d)
  BY <1>12, CaughtLeftAlone DEF ReleaseExtraction, Throw, services, history, Passed, Kinds
<1>13. CASE Configuration(d)
  BY <1>13, CaughtLeftAlone DEF Configuration, Throw, services, history, Passed, Kinds
<1>14. CASE SwitchOut(d)
  BY <1>14, CaughtLeftAlone DEF SwitchOut, Throw, services, history, Passed, Kinds
<1>15. CASE SwitchIn(d)
  BY <1>15, CaughtLeftAlone DEF SwitchIn, Throw, services, history, Passed, Kinds
<1>16. CASE StartComponent(d)
  <2>1. CASE current = None
    BY <1>16, <2>1, CaughtLeftAlone DEF StartComponent, Throw, history, Passed, Kinds
  <2>2. CASE current # None
    <3>1. PICK k \in Kinds, n \in {"web_record", "worker_record"} : procs' = procs \cup {<<k, d>>} /\ Goto(d, n)
      BY <1>16, <2>2 DEF StartComponent, Kinds
    <3>2. UNCHANGED <<known, spared>>
      BY <1>16 DEF StartComponent, history
    <3> QED
      BY <1>1, <3>1, <3>2 DEF Goto, CaughtAreStopped, Passed, Kinds
  <2> QED
    BY <2>1, <2>2
<1>17. CASE RecordComponent(d)
  BY <1>17, CaughtLeftAlone DEF RecordComponent, services, history, Passed, Kinds
<1>18. CASE WaitWebPort(d)
  BY <1>18, CaughtLeftAlone DEF WaitWebPort, Throw, services, history, Passed, Kinds
<1>19. CASE WaitWebHealth(d)
  BY <1>19, CaughtLeftAlone DEF WaitWebHealth, Throw, services, history, Passed, Kinds
<1>20. CASE Stabilize(d)
  BY <1>20, CaughtLeftAlone DEF Stabilize, Throw, services, history, Passed, Kinds
<1>21. CASE PostDeployVerification(d)
  BY <1>21, CaughtLeftAlone DEF PostDeployVerification, Throw, services, history, Passed, Kinds
<1>22. CASE StopStarted(d)
  <2>1. known' = known /\ spared \subseteq spared' /\ procs' \subseteq procs
    BY <1>22, StopOnlyStops DEF StopStarted, StopKnown
  <2>2. CASE phase[d] = "catch_worker" /\ Goto(d, "catch_web") /\ StopKnown(<<"worker", d>>)
    BY <1>1, <2>1, <2>2, StopOnlyStops DEF StopKnown, Goto, CaughtAreStopped, Passed, Kinds
  <2>3. CASE phase[d] = "catch_web" /\ Goto(d, "report_failure") /\ StopKnown(<<"web", d>>)
    BY <1>1, <2>1, <2>3, StopOnlyStops DEF StopKnown, Goto, CaughtAreStopped, Passed, Kinds
  <2> QED
    BY <1>22, <2>2, <2>3 DEF StopStarted
<1>23. CASE ReleaseLock(d)
  BY <1>23, <1>1 DEF ReleaseLock, Goto, services, history, CaughtAreStopped, Passed, Kinds
<1>24. CASE PhaseThrows(d)
  BY <1>24, CaughtLeftAlone DEF PhaseThrows, Throw, services, history, Passed, Kinds
<1>25. CASE Killed(d)
  BY <1>25, CaughtLeftAlone DEF Killed, Throw, services, history, Passed, Kinds
<1>26. CASE ReturnComponent(d)
  BY <1>26, CaughtLeftAlone DEF ReturnComponent, Passed, Kinds
<1>27. CASE Announce(d)
  BY <1>27, CaughtLeftAlone DEF Announce, services, history, Passed, Kinds
<1>28. CASE LogFailure(d)
  <2>1. UNCHANGED <<procs, known>> /\ spared \subseteq spared'
    BY <1>28 DEF LogFailure
  <2>2. CASE Goto(d, "catch_worker")
    BY <2>1, <2>2, CaughtLeftAlone DEF Passed, Kinds
  <2>3. CASE Goto(d, "report_failure") /\ spared' = spared \cup (known \cap (Kinds \X {d}))
    BY <1>1, <2>1, <2>3 DEF Goto, CaughtAreStopped, Passed, Kinds
  <2> QED
    BY <1>28, <2>2, <2>3 DEF LogFailure
<1> QED
  BY <1>2, <1>3, <1>4, <1>5, <1>6, <1>7, <1>8, <1>9, <1>10, <1>11, <1>12, <1>13, <1>14, <1>15, <1>16, <1>17,
     <1>18, <1>19, <1>20, <1>21, <1>22, <1>23, <1>24, <1>25, <1>26, <1>27, <1>28 DEF RunStep

-----------------------------------------------------------------------------
(* What is completed.                                                       *)

LEMMA CompletedLeftAlone ==
  ASSUME DeploymentTypeOK, CompletedStands, NEW d \in Runs, NEW n, Goto(d, n),
         UNCHANGED <<last, files, schema>>, ~overtaken' => ~overtaken, n # "apply",
         \A e \in Runs : e # d => actual'[e] = actual[e],
         \A S \in {Migrated, Extracted, Switching, Switched, WebRecorded, WorkerRecorded, Stored} :
           n \in S => phase[d] \in S
  PROVE  CompletedStands'
<1>1. /\ \A e \in Runs : e # d => phase'[e] = phase[e]
      /\ phase'[d] = n
  BY DEF Goto, DeploymentTypeOK
<1>2. \A S \in {Migrated, Extracted, Switching, Switched, WebRecorded, WorkerRecorded, Stored} :
        \A e \in Runs : phase'[e] \in S => phase[e] \in S
  BY <1>1
<1>3. UNCHANGED <<last, schema, pidFile, releases, currentNew, current, state>>
  BY DEF files
<1>4. \A e \in Runs : phase'[e] = "apply" => phase[e] = "apply" /\ actual'[e] = actual[e]
  BY <1>1
<1> QED
  BY <1>2, <1>3, <1>4 DEF CompletedStands

LEMMA CompletedSteps ==
  ASSUME DeploymentAssumption, DeploymentTypeOK, LockPart, CompletedStands, NEW d \in Runs, RunStep(d)
  PROVE  CompletedStands'
<1> USE DEF DeploymentAssumption
<1>1. /\ phase \in [Runs -> BeforeLock \cup AtWork \cup Over] /\ pidFile \in [Kinds -> Starters \cup {None}]
      /\ procs \subseteq Kinds \X Starters /\ actual \in [Runs -> Nat]
  BY DEF DeploymentTypeOK
<1>2. CASE Preflight(d)
  BY <1>2, CompletedLeftAlone DEF Preflight, Throw, lockVars, database, Migrated, Extracted, Switching,
     Switched, WebRecorded, WorkerRecorded, Stored
<1>3. CASE CheckLock(d)
  BY <1>3, CompletedLeftAlone DEF CheckLock, Throw, lockVars, database, Migrated, Extracted, Switching,
     Switched, WebRecorded, WorkerRecorded, Stored
<1>4. CASE RemoveStale(d)
  <2>1. (~overtaken' => ~overtaken) /\ UNCHANGED <<last, files, database>>
    BY <1>4 DEF RemoveStale
  <2>2. PICK n \in {"create", "catch_log"} : Goto(d, n)
    BY <1>4 DEF RemoveStale, Throw
  <2> QED
    BY <2>1, <2>2, CompletedLeftAlone DEF database, Migrated, Extracted, Switching, Switched, WebRecorded,
     WorkerRecorded, Stored
<1>5. CASE CreateLock(d)
  <2>1. CASE UNCHANGED last
    BY <1>5, <2>1, CompletedLeftAlone DEF CreateLock, Throw, lockVars, database, Migrated, Extracted,
     Switching, Switched, WebRecorded, WorkerRecorded, Stored
  <2>2. CASE last' = d /\ Goto(d, "backup")
    BY <1>1, <2>2 DEF Goto, CompletedStands, Migrated, Extracted, Switching, Switched, WebRecorded,
     WorkerRecorded, Stored
  <2> QED
    BY <1>5, <2>1, <2>2 DEF CreateLock
<1>6. CASE DatabaseBackup(d)
  BY <1>6, CompletedLeftAlone DEF DatabaseBackup, Throw, lockVars, database, Migrated, Extracted, Switching,
     Switched, WebRecorded, WorkerRecorded, Stored
<1>7. CASE StopService(d)
  <2>1. phase[d] \in Holding /\ UNCHANGED <<overtaken, last>>
    BY <1>7 DEF StopService, Holding, Stopping, Changing, Starting, lockVars
  <2>2. ~overtaken => d = last
    BY <2>1, Alone
  <2> QED
    BY <1>7, <1>1, <2>1, <2>2 DEF StopService, StopRecorded, Throw, Goto, files, database, Kinds,
     CompletedStands, Migrated, Extracted, Switching, Switched, WebRecorded, WorkerRecorded, Stored
<1>8. CASE WaitPortReleased(d)
  BY <1>8, CompletedLeftAlone DEF WaitPortReleased, Throw, lockVars, database, Migrated, Extracted, Switching,
     Switched, WebRecorded, WorkerRecorded, Stored
<1>9. CASE ReadSchema(d)
  <2>1. phase[d] \in Holding /\ UNCHANGED <<overtaken, last>>
    BY <1>9 DEF ReadSchema, Holding, Stopping, Changing, Starting, lockVars
  <2>2. ~overtaken => d = last
    BY <2>1, Alone
  <2> QED
    BY <1>9, <1>1, <2>1, <2>2 DEF ReadSchema, Throw, Goto, files, database, Kinds, CompletedStands, Migrated,
     Extracted, Switching, Switched, WebRecorded, WorkerRecorded, Stored
<1>10. CASE Migration(d)
  <2>1. phase[d] \in Holding /\ UNCHANGED <<overtaken, last>>
    BY <1>10 DEF Migration, Holding, Stopping, Changing, Starting, lockVars
  <2>2. ~overtaken => d = last
    BY <2>1, Alone
  <2> QED
    BY <1>10, <1>1, <2>1, <2>2 DEF Migration, Throw, Goto, files, database, Kinds, CompletedStands, Migrated,
     Extracted, Switching, Switched, WebRecorded, WorkerRecorded, Stored
<1>11. CASE RuntimeGrants(d)
  BY <1>11, CompletedLeftAlone DEF RuntimeGrants, Throw, lockVars, database, Migrated, Extracted, Switching,
     Switched, WebRecorded, WorkerRecorded, Stored
<1>12. CASE ReleaseExtraction(d)
  <2>1. phase[d] \in Holding /\ UNCHANGED <<overtaken, last>>
    BY <1>12 DEF ReleaseExtraction, Holding, Stopping, Changing, Starting, lockVars
  <2>2. ~overtaken => d = last
    BY <2>1, Alone
  <2> QED
    BY <1>12, <1>1, <2>1, <2>2 DEF ReleaseExtraction, Throw, Goto, files, database, Kinds, CompletedStands,
     Migrated, Extracted, Switching, Switched, WebRecorded, WorkerRecorded, Stored
<1>13. CASE Configuration(d)
  <2>1. phase[d] \in Holding /\ UNCHANGED <<overtaken, last>>
    BY <1>13 DEF Configuration, Holding, Stopping, Changing, Starting, lockVars
  <2>2. ~overtaken => d = last
    BY <2>1, Alone
  <2> QED
    BY <1>13, <1>1, <2>1, <2>2 DEF Configuration, Throw, Goto, files, database, Kinds, CompletedStands,
     Migrated, Extracted, Switching, Switched, WebRecorded, WorkerRecorded, Stored
<1>14. CASE SwitchOut(d)
  <2>1. phase[d] \in Holding /\ UNCHANGED <<overtaken, last>>
    BY <1>14 DEF SwitchOut, Holding, Stopping, Changing, Starting, lockVars
  <2>2. ~overtaken => d = last
    BY <2>1, Alone
  <2> QED
    BY <1>14, <1>1, <2>1, <2>2 DEF SwitchOut, Throw, Goto, files, database, Kinds, CompletedStands, Migrated,
     Extracted, Switching, Switched, WebRecorded, WorkerRecorded, Stored
<1>15. CASE SwitchIn(d)
  <2>1. phase[d] \in Holding /\ UNCHANGED <<overtaken, last>>
    BY <1>15 DEF SwitchIn, Holding, Stopping, Changing, Starting, lockVars
  <2>2. ~overtaken => d = last
    BY <2>1, Alone
  <2> QED
    BY <1>15, <1>1, <2>1, <2>2 DEF SwitchIn, Throw, Goto, files, database, Kinds, CompletedStands, Migrated,
     Extracted, Switching, Switched, WebRecorded, WorkerRecorded, Stored
<1>16. CASE StartComponent(d)
  BY <1>16, CompletedLeftAlone DEF StartComponent, Throw, lockVars, database, Migrated, Extracted, Switching,
     Switched, WebRecorded, WorkerRecorded, Stored
<1>17. CASE RecordComponent(d)
  <2>1. phase[d] \in Holding /\ UNCHANGED <<overtaken, last>>
    BY <1>17 DEF RecordComponent, Holding, Stopping, Changing, Starting, lockVars
  <2>2. ~overtaken => d = last
    BY <2>1, Alone
  <2> QED
    BY <1>17, <1>1, <2>1, <2>2 DEF RecordComponent, Throw, Goto, files, database, Kinds, CompletedStands,
     Migrated, Extracted, Switching, Switched, WebRecorded, WorkerRecorded, Stored
<1>18. CASE WaitWebPort(d)
  BY <1>18, CompletedLeftAlone DEF WaitWebPort, Throw, lockVars, database, Migrated, Extracted, Switching,
     Switched, WebRecorded, WorkerRecorded, Stored
<1>19. CASE WaitWebHealth(d)
  BY <1>19, CompletedLeftAlone DEF WaitWebHealth, Throw, lockVars, database, Migrated, Extracted, Switching,
     Switched, WebRecorded, WorkerRecorded, Stored
<1>20. CASE Stabilize(d)
  BY <1>20, CompletedLeftAlone DEF Stabilize, Throw, lockVars, database, Migrated, Extracted, Switching,
     Switched, WebRecorded, WorkerRecorded, Stored
<1>21. CASE PostDeployVerification(d)
  <2>1. phase[d] \in Holding /\ UNCHANGED <<overtaken, last>>
    BY <1>21 DEF PostDeployVerification, Holding, Stopping, Changing, Starting, lockVars
  <2>2. ~overtaken => d = last
    BY <2>1, Alone
  <2> QED
    BY <1>21, <1>1, <2>1, <2>2 DEF PostDeployVerification, Throw, Goto, files, database, Kinds,
     CompletedStands, Migrated, Extracted, Switching, Switched, WebRecorded, WorkerRecorded, Stored
<1>22. CASE StopStarted(d)
  BY <1>22, CompletedLeftAlone DEF StopStarted, Throw, lockVars, database, Migrated, Extracted, Switching,
     Switched, WebRecorded, WorkerRecorded, Stored
<1>23. CASE ReleaseLock(d)
  BY <1>23, CompletedLeftAlone DEF ReleaseLock, Throw, lockVars, database, Migrated, Extracted, Switching,
     Switched, WebRecorded, WorkerRecorded, Stored
<1>24. CASE PhaseThrows(d)
  BY <1>24, CompletedLeftAlone DEF PhaseThrows, Throw, lockVars, database, Migrated, Extracted, Switching,
     Switched, WebRecorded, WorkerRecorded, Stored
<1>25. CASE Killed(d)
  BY <1>1, <1>25, CompletedLeftAlone DEF Killed, Throw, lockVars, database, Migrated, Extracted, Switching,
     Switched, WebRecorded, WorkerRecorded, Stored
<1>26. CASE ReturnComponent(d)
  BY <1>26, CompletedLeftAlone DEF ReturnComponent, Throw, lockVars, services, database, Migrated, Extracted, Switching,
     Switched, WebRecorded, WorkerRecorded, Stored
<1>27. CASE Announce(d)
  BY <1>27, CompletedLeftAlone DEF Announce, Throw, lockVars, services, database, Migrated, Extracted, Switching,
     Switched, WebRecorded, WorkerRecorded, Stored
<1>28. CASE LogFailure(d)
  BY <1>28, CompletedLeftAlone DEF LogFailure, Throw, lockVars, services, database, Migrated, Extracted, Switching,
     Switched, WebRecorded, WorkerRecorded, Stored
<1> QED
  BY <1>2, <1>3, <1>4, <1>5, <1>6, <1>7, <1>8, <1>9, <1>10, <1>11, <1>12, <1>13, <1>14, <1>15, <1>16, <1>17,
     <1>18, <1>19, <1>20, <1>21, <1>22, <1>23, <1>24, <1>25, <1>26, <1>27, <1>28 DEF RunStep

-----------------------------------------------------------------------------
(* The theorems.                                                            *)

LEMMA ServiceSteps ==
  ASSUME DeploymentAssumption, DeploymentIInv, ServiceStep
  PROVE  DeploymentIInv'
<1>1. /\ procs' \subseteq procs /\ (listening' = None \/ <<"web", listening'>> \in procs')
      /\ faults' \in 0..MaxFaults
  <2>1. ASSUME NEW x \in Starters, WebListens(x)
        PROVE  /\ procs' \subseteq procs /\ (listening' = None \/ <<"web", listening'>> \in procs')
               /\ faults' = faults
    BY <2>1, StopKeepsTypes DEF WebListens, DeploymentIInv
  <2>2. ASSUME NEW p \in procs, Exits(p)
        PROVE  /\ procs' \subseteq procs /\ (listening' = None \/ <<"web", listening'>> \in procs')
               /\ faults' \in 0..MaxFaults
    BY <2>2, StopKeepsTypes DEF Exits, Fault, DeploymentIInv, DeploymentTypeOK, DeploymentAssumption
  <2> QED
    BY <2>1, <2>2 DEF ServiceStep, DeploymentIInv, DeploymentTypeOK
<1>2. UNCHANGED <<phase, lockVars, files, history, database>>
  BY DEF ServiceStep, WebListens, Exits
<1> USE DEF DeploymentIInv, lockVars, files, history, database
<1>3. DeploymentTypeOK'
  BY <1>1, <1>2 DEF DeploymentTypeOK
<1>4. OwnersHoldTheLock' /\ StaleIsOver' /\ LockTellsWhoWorks' /\ LastHolds'
  BY <1>2 DEF OwnersHoldTheLock, StaleIsOver, LockTellsWhoWorks, LastHolds, Alive
<1>5. ProcessesAreRecorded' /\ NoEarlyRecord' /\ RecordsAreRemoved' /\ CaughtAreStopped'
  BY <1>1, <1>2 DEF ProcessesAreRecorded, NoEarlyRecord, RecordsAreRemoved, CaughtAreStopped
<1>6. CompletedStands'
  BY <1>2 DEF CompletedStands
<1> QED
  BY <1>3, <1>4, <1>5, <1>6

(* Acquire-DeploymentLock, Invoke-DeploymentPhase and the catch block: the   *)
(* invariant that says who has the lock, which processes have a PID record,  *)
(* and what of a run's work stands, holds in every reachable state.          *)
THEOREM DeploymentInductive == Spec => []DeploymentIInv
<1>1. Init => DeploymentIInv
  <2> SUFFICES ASSUME Init PROVE DeploymentIInv
    OBVIOUS
  <2> USE DeploymentAssumption DEF DeploymentAssumption, Init
  <2>1. DeploymentTypeOK
    <3>1. phase \in [Runs -> BeforeLock \cup AtWork \cup Over] /\ \A d \in Runs : phase[d] # "apply"
      BY DEF BeforeLock
    <3>2. /\ procs \subseteq Kinds \X Starters /\ listening = Old /\ <<"web", Old>> \in procs
          /\ pidFile \in [Kinds -> Starters \cup {None}] /\ current \in Starters /\ state \in Starters
      BY DEF Kinds, Starters
    <3>3. schema \in Nat /\ releases \subseteq Nat
      OBVIOUS
    <3>4. actual \in [Runs -> Nat] /\ faults \in 0..MaxFaults /\ judged \in [Runs -> Runs \cup {None}]
      OBVIOUS
    <3> QED
      BY <3>1, <3>2, <3>3, <3>4 DEF DeploymentTypeOK
  <2>2. OwnersHoldTheLock /\ StaleIsOver /\ LockTellsWhoWorks /\ LastHolds
    BY DEF OwnersHoldTheLock, StaleIsOver, LockTellsWhoWorks, LastHolds, Stopping, Changing, Starting
  <2>3. ProcessesAreRecorded /\ NoEarlyRecord /\ RecordsAreRemoved /\ CaughtAreStopped
    BY DEF ProcessesAreRecorded, NoEarlyRecord, RecordsAreRemoved, CaughtAreStopped, NoRecord, NoWebRecord,
           NoWorkerRecord, Changing, Kinds
  <2>4. CompletedStands
    BY DEF CompletedStands
  <2> QED
    BY <2>1, <2>2, <2>3, <2>4 DEF DeploymentIInv
<1>2. DeploymentIInv /\ [Next]_vars => DeploymentIInv'
  <2> SUFFICES ASSUME DeploymentIInv, [Next]_vars PROVE DeploymentIInv'
    OBVIOUS
  <2>1. ASSUME NEW d \in Runs, RunStep(d) PROVE DeploymentIInv'
    BY <2>1, Parts, DeploymentAssumption, TypeSteps, LockSteps, ProcessSteps, CaughtSteps, CompletedSteps
       DEF DeploymentIInv, LockPart, ProcessPart
  <2>2. CASE ServiceStep
    BY <2>2, DeploymentAssumption, ServiceSteps
  <2>3. CASE UNCHANGED vars
    BY <2>3 DEF DeploymentIInv, vars, lockVars, files, services, history, database, DeploymentTypeOK,
                OwnersHoldTheLock, StaleIsOver, LockTellsWhoWorks, LastHolds, ProcessesAreRecorded,
                NoEarlyRecord, RecordsAreRemoved,
                CaughtAreStopped, CompletedStands, Alive
  <2> QED
    BY <2>1, <2>2, <2>3 DEF Next, Done
<1> QED
  BY <1>1, <1>2, PTL DEF Spec

(* StopWorker, StopWeb, Wait-PortReleased: no process but one without a PID  *)
(* record runs from a migration to the start of the new web.                 *)
THEOREM MigrationIsAlone == Spec => []MigratesAlone
<1>1. DeploymentIInv => MigratesAlone
  <2> SUFFICES ASSUME DeploymentIInv, ~overtaken, NEW d \in Runs, phase[d] \in Changing,
                      NEW k \in Kinds, NEW x \in Starters, <<k, x>> \in procs \ lost
               PROVE  FALSE
    BY DEF MigratesAlone, DeploymentIInv, DeploymentTypeOK
  <2>1. LockPart /\ ProcessPart
    BY Parts
  <2>2. <<k, pidFile[k]>> \notin procs
    BY DEF DeploymentIInv, RecordsAreRemoved, NoRecord, NoWebRecord, NoWorkerRecord, Kinds
  <2>3. x \in Runs /\ phase[x] = RecordPhase[k]
    BY <2>2, DeploymentAssumption DEF DeploymentIInv, ProcessesAreRecorded, Starters, DeploymentAssumption
  <2>4. phase[x] \in Holding /\ phase[d] \in Holding /\ phase[x] \notin Changing
    BY <2>3 DEF RecordPhase, Kinds, Holding, Starting, Changing
  <2> QED
    BY <2>1, <2>3, <2>4, Alone
<1> QED
  BY <1>1, DeploymentInductive, PTL

(* The catch block: of the processes a failed run started, the ones it knew   *)
(* are stopped unless the log or the stop has failed; and, as long as no      *)
(* lock was overtaken, what is left has the PID record of its kind, which     *)
(* the next run stops, unless that record was never written.                  *)
THEOREM FailureIsBounded == Spec => []FailureIsContained
<1>1. DeploymentIInv => FailureIsContained
  <2> SUFFICES ASSUME DeploymentIInv, NEW d \in Runs, NEW k \in Kinds, phase[d] = "failed", <<k, d>> \in procs
               PROVE  /\ <<k, d>> \in known => <<k, d>> \in spared
                      /\ overtaken \/ <<k, d>> \in lost \/ pidFile[k] = d
    BY DEF FailureIsContained
  <2>1. phase[d] \in Passed[k] /\ phase[d] # RecordPhase[k]
    BY DEF Passed, RecordPhase, Kinds
  <2>2. <<k, d>> \in known => <<k, d>> \in spared
    BY <2>1 DEF DeploymentIInv, CaughtAreStopped
  <2>3. overtaken \/ <<k, d>> \in lost \/ pidFile[k] = d
    BY <2>1 DEF DeploymentIInv, ProcessesAreRecorded, Starters
  <2> QED
    BY <2>2, <2>3
<1> QED
  BY <1>1, DeploymentInductive, PTL

(* The last run that succeeded is the one that is deployed, in every part,   *)
(* as long as no lock was overtaken.                                         *)
THEOREM SuccessStands == Spec => []SuccessIsWhole
<1>1. DeploymentIInv => SuccessIsWhole
  <2> SUFFICES ASSUME DeploymentIInv, ~overtaken, last \in Runs, phase[last] = "succeeded"
               PROVE  /\ current = last /\ state = last /\ pidFile = [k \in Kinds |-> last]
                      /\ schema = Version[last] /\ Version[last] \in releases
    BY DEF SuccessIsWhole
  <2>1. "succeeded" \in Stored
    BY DEF Stored
  <2>2. /\ current = last /\ state = last /\ schema = Version[last] /\ Version[last] \in releases
        /\ pidFile["web"] = last /\ pidFile["worker"] = last
    BY <2>1, Phases DEF DeploymentIInv, CompletedStands
  <2>3. pidFile = [k \in Kinds |-> last]
    BY <2>2 DEF DeploymentIInv, DeploymentTypeOK, Kinds
  <2> QED
    BY <2>2, <2>3
<1> QED
  BY <1>1, DeploymentInductive, PTL

=============================================================================
