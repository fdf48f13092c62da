------------------------- MODULE ScheduledRunProofs -------------------------
(***************************************************************************)
(* Proofs about ScheduledRun for any number of manual runs, any length of  *)
(* a day, any bounds.  ScheduleIInv is inductive; the safety properties    *)
(* follow from it.                                                         *)
(***************************************************************************)
EXTENDS ScheduledRun, TLAPS

(* Days do not go backwards. *)
LEMMA DaysAdvance ==
  ASSUME NEW a \in Nat, NEW b \in Nat, a <= b
  PROVE  Day(a) \in Nat /\ Day(b) \in Nat /\ Day(a) <= Day(b)
<1>1. DayHours \in Nat /\ DayHours > 0
  BY ScheduleAssumption
<1> QED
  BY <1>1, SMTT(60) DEF Day

LEMMA TodayIsADay ==
  ASSUME ScheduleTypeOK
  PROVE  Day(now) \in 0..Day(MaxNow)
BY DaysAdvance, ScheduleAssumption DEF ScheduleTypeOK

LEMMA ScheduleInit == Init => ScheduleIInv
<1> SUFFICES ASSUME Init PROVE ScheduleIInv
  OBVIOUS
<1> USE ScheduleAssumption DEF Init, Runs
<1>1. Day(0) \in Nat /\ Day(MaxNow) \in Nat /\ Day(0) <= Day(MaxNow)
  BY DaysAdvance
<1>2. ScheduleTypeOK
  BY <1>1 DEF ScheduleTypeOK, Due, Inside, Commanding, NoDay, NoSession, Calm
<1>3. MutexIsHeld /\ SuccessIsCollected /\ MarkerIsEarned /\ ZeroMeansCollected
  BY DEF MutexIsHeld, SuccessIsCollected, MarkerIsEarned, ZeroMeansCollected, Inside, Commanding, Ahead
<1>4. DaysAreInOrder
  BY <1>1 DEF DaysAreInOrder, NoDay, Ahead, Commanding
<1> QED
  BY <1>2, <1>3, <1>4 DEF ScheduleIInv

-----------------------------------------------------------------------------
(* Starting a run.                                                          *)

(* A run that begins: it is outside the mutex, on the current day, with its   *)
(* collection ahead if it is the scheduled one, whose day is not in the       *)
(* marker.                                                                   *)
LEMMA BeginKeeps ==
  ASSUME ScheduleIInv, NEW r \in Runs, NEW commands \in SUBSET {"refresh", "collect"},
         ~Busy(r), Begin(r, commands), r = Task => "collect" \in commands /\ marker # Day(now),
         UNCHANGED <<now, power, marker, mutex, lasted, session, collected, finished, trouble, faults>>,
         trigger' \in BOOLEAN, byHand' \in 0..MaxByHand
  PROVE  ScheduleIInv'
<1> USE ScheduleAssumption DEF ScheduleIInv, ScheduleTypeOK, Runs, Begin, Goto, Busy
<1>1. Day(now) \in 0..Day(MaxNow) /\ Day(MaxNow) \in Nat
  BY TodayIsADay, DaysAdvance
<1>2. Day(now)' = Day(now)
  BY DEF Day
<1>3. ScheduleTypeOK'
  BY <1>1 DEF Inside, Commanding
<1>4. MutexIsHeld' /\ SuccessIsCollected' /\ MarkerIsEarned' /\ ZeroMeansCollected'
  BY DEF MutexIsHeld, SuccessIsCollected, MarkerIsEarned, ZeroMeansCollected, Inside, Commanding, Ahead
<1>5. DaysAreInOrder'
  BY <1>1, <1>2 DEF DaysAreInOrder, Ahead, Commanding, NoDay
<1> QED
  BY <1>3, <1>4, <1>5

LEMMA StartTaskKeeps == ScheduleIInv /\ StartTask => ScheduleIInv'
<1> SUFFICES ASSUME ScheduleIInv, StartTask PROVE ScheduleIInv'
  OBVIOUS
<1>1. CASE marker = Day(now)
  BY <1>1 DEF StartTask, ScheduleIInv, ScheduleTypeOK, MutexIsHeld, SuccessIsCollected, DaysAreInOrder,
     MarkerIsEarned, ZeroMeansCollected, runVars, ghostVars, Day
<1>2. CASE marker # Day(now)
  <2>1. AutoMode(Day(now)) \in SUBSET {"refresh", "collect"} /\ "collect" \in AutoMode(Day(now))
    BY DEF AutoMode
  <2> QED
    BY <1>2, <2>1, BeginKeeps DEF StartTask, Runs, ghostVars, ScheduleIInv, ScheduleTypeOK
<1> QED
  BY <1>1, <1>2

LEMMA StartByHandKeeps == ASSUME ScheduleIInv, NEW r \in Runs, StartByHand(r) PROVE ScheduleIInv'
<1>1. PICK commands \in {AutoMode(Day(now)), {"collect"}, {"refresh"}} : Begin(r, commands)
  BY DEF StartByHand
<1>2. commands \in SUBSET {"refresh", "collect"}
  BY DEF AutoMode
<1>3. r # Task /\ byHand' \in 0..MaxByHand /\ trigger' \in BOOLEAN
  BY ScheduleAssumption DEF StartByHand, ScheduleIInv, ScheduleTypeOK, clockVars
<1> QED
  BY <1>1, <1>2, <1>3, BeginKeeps DEF StartByHand, clockVars

-----------------------------------------------------------------------------
(* The steps of the script.                                                 *)

LEMMA LockKeeps == ASSUME ScheduleIInv, NEW r \in Runs, Lock(r) PROVE ScheduleIInv'
<1> USE ScheduleAssumption
    DEF ScheduleIInv, ScheduleTypeOK, Runs, Lock, LockFrame, Enter, Goto, clockVars, Inside, Commanding
<1>1. ScheduleTypeOK'
  BY DEF Calm
<1>2. MutexIsHeld'
  BY DEF MutexIsHeld
<1>3. SuccessIsCollected' /\ MarkerIsEarned' /\ ZeroMeansCollected'
  BY DEF SuccessIsCollected, MarkerIsEarned, ZeroMeansCollected, Ahead
<1>4. DaysAreInOrder'
  BY DEF DaysAreInOrder, Ahead, Day
<1> QED
  BY <1>1, <1>2, <1>3, <1>4

(* A fault leaves its ghosts in their types. *)
LEMMA GhostTypes ==
  ASSUME ScheduleTypeOK, Disturbed \/ Undisturbed
  PROVE  trouble' \in Calm..MaxNow /\ faults' \in 0..MaxFaults
BY ScheduleAssumption DEF ScheduleTypeOK, Disturbed, Undisturbed, Calm

(* A step of a run inside the mutex that leaves days and marker alone and     *)
(* goes to a step inside again.                                              *)
LEMMA InsideStep ==
  ASSUME ScheduleIInv, ScheduleTypeOK', NEW r \in Runs, NEW step \in Inside,
         pc[r] \in Inside \ {"mark", "release"}, step \in Ahead => pc[r] \in Ahead, Goto(r, step),
         UNCHANGED <<now, marker, mutex, today, finished>>, collected \subseteq collected'
  PROVE  MutexIsHeld' /\ DaysAreInOrder' /\ MarkerIsEarned'
<1> USE ScheduleAssumption DEF ScheduleIInv, ScheduleTypeOK, Runs, Goto
<1>1. MutexIsHeld'
  BY DEF MutexIsHeld
<1>2. DaysAreInOrder'
  BY DEF DaysAreInOrder, Day, Inside, Ahead, Commanding
<1> QED
  BY <1>1, <1>2 DEF MarkerIsEarned

LEMMA PrepareKeeps == ASSUME ScheduleIInv, NEW r \in Runs, Prepare(r) PROVE ScheduleIInv'
<1> DEFINE Steps == {"refresh", "collect", "backup", "mark"}
<1>1. PICK step \in Steps : Goto(r, step)
  BY DEF Prepare, NextCommand
<1> USE ScheduleAssumption
    DEF ScheduleIInv, ScheduleTypeOK, Runs, Prepare, Goto, clockVars, Fail, Disturbed, Undisturbed, NextCommand
<1>2. ScheduleTypeOK'
  <2>1. pc' \in [Runs -> {"idle", "lock"} \cup Inside]
    BY <1>1 DEF Inside
  <2>2. failed' \in [Runs -> BOOLEAN] /\ succeeded' \in [Runs -> BOOLEAN]
    OBVIOUS
  <2>3. UNCHANGED <<now, power, trigger, marker, mutex, today, todo, lasted, session, collected, finished, byHand>>
    OBVIOUS
  <2>4. Day(MaxNow)' = Day(MaxNow)
    BY DEF Day
  <2> HIDE DEF Prepare, Runs, ScheduleIInv
  <2>5. Disturbed \/ Undisturbed
    BY DEF Prepare
  <2>6. trouble' \in Calm..MaxNow /\ faults' \in 0..MaxFaults
    BY <2>5, GhostTypes DEF ScheduleIInv
  <2> QED
    BY <2>1, <2>2, <2>3, <2>4, <2>6 DEF ScheduleIInv
<1>3. SuccessIsCollected' /\ ZeroMeansCollected'
  BY DEF SuccessIsCollected, ZeroMeansCollected, Ahead, Inside, Commanding
<1>4. MutexIsHeld' /\ DaysAreInOrder' /\ MarkerIsEarned'
  BY <1>1, <1>2, InsideStep DEF Inside, Ahead
<1> QED
  BY <1>2, <1>3, <1>4

(* A command ends and the next one is up, or the backup when none is left. *)
LEMMA CommandOverStep ==
  ASSUME ScheduleIInv, NEW r \in Runs, NEW command \in {"refresh", "collect"}, CommandOver(r, command)
  PROVE  /\ todo' \in [Runs -> SUBSET {"refresh", "collect"}] /\ lasted' \in [Runs -> 0..MaxCommand]
         /\ \E step \in {"refresh", "collect", "backup"} :
              /\ Goto(r, step) /\ step # command
              /\ command = "refresh" /\ "collect" \in todo[r] => step = "collect"
              /\ step = "refresh" => "refresh" \in todo[r]
              /\ step = "collect" => "refresh" \notin todo'[r]
              /\ todo'[r] = todo[r] \ {command}
<1> USE DEF ScheduleIInv, ScheduleTypeOK
<1>1. todo' \in [Runs -> SUBSET {"refresh", "collect"}] /\ todo'[r] = todo[r] \ {command}
  BY DEF CommandOver
<1>2. lasted' \in [Runs -> 0..MaxCommand]
  BY ScheduleAssumption DEF CommandOver
<1> DEFINE next == IF "refresh" \in todo[r] \ {command} THEN "refresh"
                   ELSE IF "collect" \in todo[r] \ {command} THEN "collect" ELSE "backup"
<1>3. Goto(r, next)
  BY DEF CommandOver, NextCommand
<1>4. /\ next \in {"refresh", "collect", "backup"} /\ next # command
      /\ command = "refresh" /\ "collect" \in todo[r] => next = "collect"
      /\ next = "refresh" => "refresh" \in todo[r]
      /\ next = "collect" => "refresh" \notin todo[r] \ {command}
  OBVIOUS
<1> QED
  BY <1>1, <1>2, <1>3, <1>4

LEMMA StartRefreshKeeps == ASSUME ScheduleIInv, NEW r \in Runs, StartRefresh(r) PROVE ScheduleIInv'
<1> USE ScheduleAssumption
    DEF ScheduleIInv, ScheduleTypeOK, Runs, StartRefresh, Goto, clockVars, ghostVars
<1>1. CASE MayRefresh
  <2>1. Goto(r, "refreshing")
    BY <1>1
  <2>2. ScheduleTypeOK'
    BY <1>1 DEF Inside, Commanding
  <2>3. SuccessIsCollected' /\ ZeroMeansCollected'
    BY <1>1 DEF SuccessIsCollected, ZeroMeansCollected, Ahead, Commanding
  <2>4. MutexIsHeld' /\ DaysAreInOrder' /\ MarkerIsEarned'
    BY <2>1, <2>2, InsideStep DEF Inside, Ahead, Commanding
  <2> QED
    BY <2>2, <2>3, <2>4
<1>2. CASE ~MayRefresh
  <2>1. PICK step \in {"collect", "backup"} :
          /\ Goto(r, step) /\ todo'[r] = todo[r] \ {"refresh"}
          /\ "collect" \in todo[r] => step = "collect"
    BY <1>2, CommandOverStep DEF CommandFailed
  <2>2. ScheduleTypeOK'
    <3>1. CommandOver(r, "refresh") /\ UNCHANGED <<clockVars, marker, mutex, today, session, ghostVars>>
      BY <1>2 DEF CommandFailed
    <3>2. todo' \in [Runs -> SUBSET {"refresh", "collect"}] /\ lasted' \in [Runs -> 0..MaxCommand]
      BY <3>1, CommandOverStep
    <3>3. failed' \in [Runs -> BOOLEAN] /\ succeeded' \in [Runs -> BOOLEAN]
      BY <1>2 DEF CommandFailed
    <3>4. pc' \in [Runs -> {"idle", "lock"} \cup Inside]
      BY <2>1 DEF Inside
    <3> QED
      BY <3>1, <3>2, <3>3, <3>4 DEF Day
  <2>3. SuccessIsCollected' /\ ZeroMeansCollected'
    BY <1>2, <2>1 DEF CommandFailed, CommandOver, SuccessIsCollected, ZeroMeansCollected, Ahead, Commanding
  <2>4. MutexIsHeld' /\ DaysAreInOrder' /\ MarkerIsEarned'
    BY <1>2, <2>1, <2>2, InsideStep DEF Inside, Ahead, Commanding
  <2> QED
    BY <2>2, <2>3, <2>4
<1> QED
  BY <1>1, <1>2

LEMMA EndRefreshKeeps == ASSUME ScheduleIInv, NEW r \in Runs, EndRefresh(r) PROVE ScheduleIInv'
<1> USE ScheduleAssumption
    DEF ScheduleIInv, ScheduleTypeOK, Runs, EndRefresh, Goto, clockVars, CommandDone, CommandFailed, Disturbed, Undisturbed
<1>1. CommandOver(r, "refresh")
  OBVIOUS
<1>2. PICK step \in {"collect", "backup"} :
        /\ Goto(r, step) /\ todo'[r] = todo[r] \ {"refresh"}
        /\ "collect" \in todo[r] => step = "collect"
  BY <1>1, CommandOverStep
<1>3. ScheduleTypeOK'
  <2>1. todo' \in [Runs -> SUBSET {"refresh", "collect"}] /\ lasted' \in [Runs -> 0..MaxCommand]
    BY <1>1, CommandOverStep
  <2>2. failed' \in [Runs -> BOOLEAN] /\ succeeded' \in [Runs -> BOOLEAN]
    OBVIOUS
  <2>3. pc' \in [Runs -> {"idle", "lock"} \cup Inside]
    BY <1>2 DEF Inside
  <2>4. trouble' \in Calm..MaxNow /\ faults' \in 0..MaxFaults
    BY GhostTypes
  <2>5. session' \in {NoSession} \cup 0..MaxNow
    OBVIOUS
  <2>6. UNCHANGED <<now, power, trigger, marker, mutex, today, collected, finished, byHand>>
    OBVIOUS
  <2> QED
    BY <2>1, <2>2, <2>3, <2>4, <2>5, <2>6 DEF Day
<1>4. SuccessIsCollected' /\ ZeroMeansCollected'
  BY <1>2 DEF CommandOver, SuccessIsCollected, ZeroMeansCollected, Ahead, Commanding
<1>5. MutexIsHeld' /\ DaysAreInOrder' /\ MarkerIsEarned'
  BY <1>2, <1>3, InsideStep DEF Inside, Ahead, Commanding
<1> QED
  BY <1>3, <1>4, <1>5

LEMMA StartCollectKeeps == ASSUME ScheduleIInv, NEW r \in Runs, StartCollect(r) PROVE ScheduleIInv'
<1> USE ScheduleAssumption
    DEF ScheduleIInv, ScheduleTypeOK, Runs, StartCollect, Goto, clockVars, ghostVars
<1>1. ScheduleTypeOK'
  BY DEF Inside, Commanding
<1>2. SuccessIsCollected' /\ ZeroMeansCollected'
  BY DEF SuccessIsCollected, ZeroMeansCollected, Ahead, Commanding
<1>3. MutexIsHeld' /\ DaysAreInOrder' /\ MarkerIsEarned'
  BY <1>1, InsideStep DEF Inside, Ahead, Commanding
<1> QED
  BY <1>1, <1>2, <1>3

LEMMA EndCollectKeeps == ASSUME ScheduleIInv, NEW r \in Runs, EndCollect(r) PROVE ScheduleIInv'
<1> USE ScheduleAssumption
    DEF ScheduleIInv, ScheduleTypeOK, Runs, EndCollect, Goto, clockVars, CommandDone, CommandFailed, Earned
<1>1. CommandOver(r, "collect") /\ (Disturbed \/ Undisturbed)
  OBVIOUS
<1>2. PICK step \in {"refresh", "backup"} :
        /\ Goto(r, step) /\ todo'[r] = todo[r] \ {"collect"}
        /\ step = "refresh" => "refresh" \in todo[r]
  BY <1>1, CommandOverStep
<1>3. collected \subseteq collected' /\ collected' \subseteq 0..Day(MaxNow)
  OBVIOUS
<1>4. ScheduleTypeOK'
  <2>1. todo' \in [Runs -> SUBSET {"refresh", "collect"}] /\ lasted' \in [Runs -> 0..MaxCommand]
    BY <1>1, CommandOverStep
  <2>2. failed' \in [Runs -> BOOLEAN] /\ succeeded' \in [Runs -> BOOLEAN]
    OBVIOUS
  <2>3. pc' \in [Runs -> {"idle", "lock"} \cup Inside]
    BY <1>2 DEF Inside
  <2>4. trouble' \in Calm..MaxNow /\ faults' \in 0..MaxFaults
    BY <1>1, GhostTypes
  <2>5. UNCHANGED <<now, power, trigger, marker, mutex, today, session, finished, byHand>>
    OBVIOUS
  <2> QED
    BY <1>3, <2>1, <2>2, <2>3, <2>4, <2>5 DEF Day
<1>5. SuccessIsCollected' /\ ZeroMeansCollected'
  BY <1>2 DEF CommandOver, SuccessIsCollected, ZeroMeansCollected, Ahead, Commanding
<1>6. MutexIsHeld' /\ DaysAreInOrder' /\ MarkerIsEarned'
  BY <1>2, <1>3, <1>4, InsideStep DEF Inside, Ahead, Commanding
<1> QED
  BY <1>4, <1>5, <1>6

LEMMA BackupKeeps == ASSUME ScheduleIInv, NEW r \in Runs, Backup(r) PROVE ScheduleIInv'
<1> USE ScheduleAssumption
    DEF ScheduleIInv, ScheduleTypeOK, Runs, Backup, Goto, clockVars, Fail
<1>1. Disturbed \/ Undisturbed
  OBVIOUS
<1>2. trouble' \in Calm..MaxNow /\ faults' \in 0..MaxFaults
  BY <1>1, GhostTypes
<1>3. ScheduleTypeOK'
  BY <1>2 DEF Inside, Commanding, Day
<1>4. SuccessIsCollected' /\ ZeroMeansCollected'
  BY DEF SuccessIsCollected, ZeroMeansCollected, Ahead, Commanding
<1>5. MutexIsHeld' /\ DaysAreInOrder' /\ MarkerIsEarned'
  BY <1>3, InsideStep DEF Inside, Ahead, Commanding
<1> QED
  BY <1>3, <1>4, <1>5

LEMMA ThrowKeeps == ASSUME ScheduleIInv, NEW r \in Runs, Throw(r) PROVE ScheduleIInv'
<1> USE ScheduleAssumption
    DEF ScheduleIInv, ScheduleTypeOK, Runs, Throw, Goto, clockVars, Fail
<1>1. trouble' \in Calm..MaxNow /\ faults' \in 0..MaxFaults
  BY GhostTypes
<1>2. ScheduleTypeOK'
  BY <1>1 DEF Inside, Commanding, Day
<1>3. SuccessIsCollected' /\ ZeroMeansCollected'
  BY DEF SuccessIsCollected, ZeroMeansCollected, Ahead, Commanding
<1>4. MutexIsHeld'
  BY DEF MutexIsHeld, Inside
<1>5. DaysAreInOrder' /\ MarkerIsEarned'
  BY DEF DaysAreInOrder, MarkerIsEarned, Ahead, Commanding, Day
<1> QED
  BY <1>2, <1>3, <1>4, <1>5

LEMMA MarkKeeps == ASSUME ScheduleIInv, NEW r \in Runs, Mark(r) PROVE ScheduleIInv'
<1> USE ScheduleAssumption
    DEF ScheduleIInv, ScheduleTypeOK, Runs, Mark, Write, Earned, Goto, clockVars
<1>1. Day(now)' = Day(now) /\ Day(MaxNow)' = Day(MaxNow)
  BY DEF Day
<1>2. Earned(r) => today[r] \in collected
  BY DEF SuccessIsCollected
<1>3. ScheduleTypeOK'
  BY <1>1, <1>2 DEF Inside
<1>4. SuccessIsCollected' /\ ZeroMeansCollected' /\ MarkerIsEarned'
  BY <1>2 DEF SuccessIsCollected, ZeroMeansCollected, MarkerIsEarned, Ahead, Commanding
<1>5. MutexIsHeld'
  BY DEF MutexIsHeld, Inside
<1>6. DaysAreInOrder'
  <2>1. Day(now) \in 0..Day(MaxNow) /\ Day(MaxNow) \in Nat
    BY TodayIsADay, DaysAdvance
  <2>2. CASE Earned(r)
    BY <1>1, <2>1, <2>2 DEF DaysAreInOrder, Ahead, Commanding, NoDay
  <2>3. CASE ~Earned(r)
    BY <1>1, <2>3 DEF DaysAreInOrder, Ahead, Commanding
  <2> QED
    BY <2>2, <2>3
<1> QED
  BY <1>3, <1>4, <1>5, <1>6

-----------------------------------------------------------------------------
(* The ends of runs, and the clock.                                         *)

LEMMA ForgetKeeps ==
  ASSUME ScheduleIInv, NEW R \in SUBSET Runs, Forget(R),
         UNCHANGED <<now, trigger, marker, session, collected, finished, byHand>>, power' \in BOOLEAN,
         trouble' \in Calm..MaxNow, faults' \in 0..MaxFaults
  PROVE  ScheduleIInv'
<1> USE ScheduleAssumption DEF ScheduleIInv, ScheduleTypeOK, Runs, Forget
<1>1. Day(now)' = Day(now) /\ Day(MaxNow)' = Day(MaxNow) /\ Day(now) \in 0..Day(MaxNow) /\ Day(MaxNow) \in Nat
  BY TodayIsADay, DaysAdvance DEF Day
<1>2. ScheduleTypeOK'
  BY <1>1
<1>3. SuccessIsCollected' /\ ZeroMeansCollected' /\ MarkerIsEarned'
  BY DEF SuccessIsCollected, ZeroMeansCollected, MarkerIsEarned, Ahead, Commanding
<1>4. MutexIsHeld'
  BY DEF MutexIsHeld, Inside, Commanding
<1>5. DaysAreInOrder'
  BY <1>1 DEF DaysAreInOrder, Ahead, Commanding
<1> QED
  BY <1>2, <1>3, <1>4, <1>5

LEMMA EndsKeep ==
  ASSUME ScheduleIInv, (\E r \in Runs : Release(r)) \/ Stop \/ PowerCut
  PROVE  ScheduleIInv'
<1> USE DEF clockVars, ghostVars
<1>1. power \in BOOLEAN /\ trouble \in Calm..MaxNow /\ faults \in 0..MaxFaults
  BY DEF ScheduleIInv, ScheduleTypeOK
<1>2. CASE \E r \in Runs : Release(r)
  <2>1. PICK r \in Runs : Release(r)
    BY <1>2
  <2> QED
    BY <1>1, <2>1, ForgetKeeps DEF Release
<1>3. CASE Stop \/ PowerCut
  <2>1. trouble' \in Calm..MaxNow /\ faults' \in 0..MaxFaults
    BY <1>3, GhostTypes DEF Stop, PowerCut, ScheduleIInv
  <2>2. PICK R \in {{Task}, Runs} : Forget(R)
    BY <1>3 DEF Stop, PowerCut
  <2> QED
    BY <1>1, <1>3, <2>1, <2>2, ForgetKeeps DEF Stop, PowerCut, Runs
<1> QED
  BY <1>2, <1>3

LEMMA PowerOnKeeps == ScheduleIInv /\ (PowerOn \/ IgnoreNew) => ScheduleIInv'
<1> SUFFICES ASSUME ScheduleIInv, PowerOn \/ IgnoreNew PROVE ScheduleIInv'
  OBVIOUS
<1>1. UNCHANGED <<now, marker, mutex, runVars, session, collected, finished, faults, byHand>>
  BY DEF PowerOn, IgnoreNew, ghostVars
<1>2. power' \in BOOLEAN /\ trigger' \in BOOLEAN
  BY DEF PowerOn, IgnoreNew, ScheduleIInv, ScheduleTypeOK
<1>3. trouble' \in Calm..MaxNow
  BY ScheduleAssumption DEF PowerOn, IgnoreNew, ghostVars, ScheduleIInv, ScheduleTypeOK, Calm
<1>4. ScheduleTypeOK'
  BY <1>1, <1>2, <1>3 DEF ScheduleIInv, ScheduleTypeOK, runVars, Day
<1> QED
  BY <1>1, <1>4 DEF ScheduleIInv, runVars, MutexIsHeld, SuccessIsCollected, DaysAreInOrder, MarkerIsEarned,
     ZeroMeansCollected, Day

LEMMA TickKeeps == ScheduleIInv /\ Tick => ScheduleIInv'
<1> SUFFICES ASSUME ScheduleIInv, Tick PROVE ScheduleIInv'
  OBVIOUS
<1> USE ScheduleAssumption DEF ScheduleIInv, ScheduleTypeOK, Tick, ghostVars
<1>1. now' \in 0..MaxNow /\ now <= now'
  OBVIOUS
<1>2. Day(now) \in Nat /\ Day(now') \in Nat /\ Day(now) <= Day(now') /\ Day(MaxNow)' = Day(MaxNow)
  BY <1>1, DaysAdvance DEF Day
<1>3. ScheduleTypeOK'
  BY <1>2 DEF Busy, Due
<1>4. SuccessIsCollected' /\ ZeroMeansCollected' /\ MarkerIsEarned' /\ MutexIsHeld'
  BY DEF SuccessIsCollected, ZeroMeansCollected, MarkerIsEarned, MutexIsHeld
<1>5. DaysAreInOrder'
  <2>1. Day(now)' = Day(now')
    BY DEF Day
  <2>2. marker \in Int /\ \A r \in Runs : today[r] \in Int
    BY <1>2 DEF NoDay
  <2>3. UNCHANGED <<marker, finished, today, pc>>
    OBVIOUS
  <2> HIDE DEF ScheduleTypeOK, Tick
  <2> QED
    BY <1>2, <2>1, <2>2, <2>3 DEF DaysAreInOrder
<1> QED
  BY <1>3, <1>4, <1>5

LEMMA StutterKeeps == ScheduleIInv /\ UNCHANGED vars => ScheduleIInv'
BY DEF ScheduleIInv, ScheduleTypeOK, MutexIsHeld, SuccessIsCollected, DaysAreInOrder, MarkerIsEarned,
       ZeroMeansCollected, vars, clockVars, runVars, ghostVars, Day

-----------------------------------------------------------------------------
(* The theorems.                                                            *)

LEMMA ScheduleStep == ScheduleIInv /\ [Next]_vars => ScheduleIInv'
<1> SUFFICES ASSUME ScheduleIInv, [Next]_vars PROVE ScheduleIInv'
  OBVIOUS
<1>1. ASSUME NEW r \in Runs, ScriptStep(r) PROVE ScheduleIInv'
  <2>1. CASE \/ Lock(r) \/ Prepare(r) \/ StartRefresh(r) \/ EndRefresh(r) \/ StartCollect(r)
    BY <2>1, LockKeeps, PrepareKeeps, StartRefreshKeeps, EndRefreshKeeps, StartCollectKeeps
  <2>2. CASE EndCollect(r) \/ Backup(r) \/ Mark(r) \/ Release(r) \/ Throw(r)
    BY <2>2, EndCollectKeeps, BackupKeeps, MarkKeeps, EndsKeep, ThrowKeeps
  <2> QED
    BY <1>1, <2>1, <2>2 DEF ScriptStep
<1>2. ASSUME NEW r \in Runs, StartByHand(r) PROVE ScheduleIInv'
  BY <1>2, StartByHandKeeps
<1>3. CASE StartTask \/ IgnoreNew \/ Stop \/ PowerCut \/ PowerOn \/ Tick
  BY <1>3, StartTaskKeeps, PowerOnKeeps, EndsKeep, TickKeeps
<1>4. CASE Terminated \/ UNCHANGED vars
  BY <1>4, StutterKeeps DEF Terminated
<1> QED
  BY <1>1, <1>2, <1>3, <1>4 DEF Next

(* The invariant holds of every behaviour of the script and the scheduler. *)
THEOREM ScheduleInductive == Spec => []ScheduleIInv
<1>1. Init => ScheduleIInv
  BY ScheduleInit
<1>2. ScheduleIInv /\ [Next]_vars => ScheduleIInv'
  BY ScheduleStep
<1> QED
  BY <1>1, <1>2, PTL DEF Spec

(* One run at a time is past the mutex, the marker names only collected days, *)
(* and exit code 0 means a collected day.                                    *)
THEOREM ScheduleSafety == Spec => [](OneAtATime /\ MarkerIsEarned /\ ZeroMeansCollected)
<1>1. ScheduleIInv => OneAtATime /\ MarkerIsEarned /\ ZeroMeansCollected
  BY DEF ScheduleIInv, MutexIsHeld, OneAtATime
<1> QED
  BY <1>1, ScheduleInductive, PTL

(* A day whose scheduled run lived to write the marker is not collected again *)
(* by the task, whatever failed beside it (the marker check at the script's   *)
(* start).                                                                   *)
THEOREM DayIsNotRepeated == Spec => []OncePerDay
<1>1. ScheduleIInv => OncePerDay
  <2> SUFFICES ASSUME ScheduleIInv, pc[Task] \in Commanding, today[Task] \in finished PROVE FALSE
    BY DEF OncePerDay
  <2>1. today[Task] <= marker /\ marker < today[Task]
    BY DEF ScheduleIInv, DaysAreInOrder, Ahead
  <2>2. today[Task] \in Int /\ marker \in Int
    BY DaysAdvance, ScheduleAssumption DEF ScheduleIInv, ScheduleTypeOK, NoDay, Runs
  <2> QED
    BY <2>1, <2>2
<1> QED
  BY <1>1, ScheduleInductive, PTL

-----------------------------------------------------------------------------
(* Recovery.  RecoveryIInv adds the hours to ScheduleIInv.                  *)

LEMMA DaysOfHours ==
  ASSUME NEW a \in Int, NEW b \in Int, a <= b
  PROVE  Day(a) \in Int /\ Day(b) \in Int /\ Day(a) <= Day(b)
<1>1. DayHours \in Nat /\ DayHours > 0
  BY ScheduleAssumption
<1> QED
  BY <1>1, SMTT(60) DEF Day

(* An hour of the same day. *)
LEMMA EarlierThatDay ==
  ASSUME NEW n \in Nat, NEW k \in Nat, k <= n % DayHours
  PROVE  Day(n - k) = Day(n)
<1>1. DayHours \in Nat /\ DayHours > 0
  BY ScheduleAssumption
<1>2. (n - k) \div DayHours >= n \div DayHours
  BY <1>1, SMTT(60)
<1>3. (n - k) \div DayHours <= n \div DayHours
  BY <1>1, SMTT(60)
<1>4. (n - k) \div DayHours \in Int /\ n \div DayHours \in Int
  BY <1>1
<1> QED
  BY <1>2, <1>3, <1>4 DEF Day

LEMMA SpentHours ==
  ASSUME ScheduleIInv
  PROVE  Spent \in 0..2 * MaxCommand /\ now \in Nat /\ Timeout \in Nat /\ MaxCommand \in Nat /\ trouble \in Int
<1>1. MaxCommand \in Nat /\ Timeout \in Nat /\ lasted[Task] \in 0..MaxCommand /\ now \in Nat /\ trouble \in Int
  BY ScheduleAssumption DEF ScheduleIInv, ScheduleTypeOK, Runs, Calm
<1> QED
  BY <1>1 DEF Spent

(* The hours of a calm day. *)
LEMMA CalmDayHours ==
  ASSUME ScheduleIInv
  PROVE  /\ now % DayHours \in Nat /\ SinceLastTry \in Nat
         /\ CalmDay => now > trouble + Timeout + 2 * MaxCommand /\ now % DayHours >= StartHour + 2 * MaxCommand
<1> DEFINE hour == now % DayHours
<1>1. now \in Nat /\ hour \in Nat /\ EndHour \in Nat /\ StartHour \in Nat /\ trouble \in Int
  BY ScheduleAssumption, SpentHours
<1>2. Timeout \in Nat /\ MaxCommand \in Nat
  BY SpentHours
<1>3. SinceLastTry = IF hour <= EndHour THEN 0 ELSE hour - EndHour
  BY DEF SinceLastTry
<1>4. CalmDay <=> /\ now - SinceLastTry > trouble + Timeout + 2 * MaxCommand
                  /\ hour - SinceLastTry >= StartHour + 2 * MaxCommand
  BY DEF CalmDay
<1> HIDE DEF hour
<1>5. SinceLastTry \in Nat
  BY <1>1, <1>3
<1>6. CalmDay => now > trouble + Timeout + 2 * MaxCommand /\ hour >= StartHour + 2 * MaxCommand
  BY <1>1, <1>2, <1>4, <1>5
<1> QED
  BY <1>1, <1>5, <1>6 DEF hour

(* Trouble now is no calm day, and without new trouble nothing but the clock  *)
(* makes one.                                                                *)
LEMMA CalmDayKeeps ==
  ASSUME ScheduleIInv, ScheduleIInv', now' = now
  PROVE  /\ trouble' = now => ~CalmDay'
         /\ trouble' = trouble => CalmDay' = CalmDay
<1>1. now \in Nat /\ Timeout \in Nat /\ MaxCommand \in Nat
  BY SpentHours
<1>2. SinceLastTry \in Nat /\ SinceLastTry' = SinceLastTry
  BY CalmDayHours DEF SinceLastTry
<1>3. CalmDay' => now - SinceLastTry > trouble' + Timeout + 2 * MaxCommand
  BY <1>2 DEF CalmDay
<1> QED
  BY <1>1, <1>2, <1>3 DEF CalmDay

(* What a step that leaves the scheduled run alone may do beside it: leave     *)
(* the trigger and the power as they are, or make trouble.                   *)
LEMMA TaskLeftAlone ==
  ASSUME RecoveryIInv, ScheduleIInv', UNCHANGED <<now, marker>>, trouble' \in {trouble, now},
         UNCHANGED <<power, trigger>> \/ trouble' = now,
         pc'[Task] = pc[Task], today'[Task] = today[Task], lasted'[Task] = lasted[Task],
         failed'[Task] = failed[Task]
  PROVE  /\ Busy(Task)' => today'[Task] >= Day(now - Spent)'
         /\ CalmRunsSucceed' /\ TaskIsNotPassedOver'
<1>1. Spent' = Spent /\ Day(now - Spent)' = Day(now - Spent) /\ Day(now)' = Day(now) /\ Busy(Task)' = Busy(Task)
  BY DEF Spent, Day, Busy
<1>2. Spent \in Nat /\ now \in Nat /\ Timeout \in Nat /\ MaxCommand \in Nat /\ trouble \in Int
  BY SpentHours DEF RecoveryIInv
<1>3. CalmSinceStart' => CalmSinceStart
  <2>1. CASE trouble' = trouble
    BY <1>1, <2>1 DEF CalmSinceStart
  <2>2. CASE trouble' = now
    <3> DEFINE spent == Spent
    <3>1. spent \in Nat /\ (CalmSinceStart' => now + Timeout < now - spent)
      BY <1>1, <1>2, <2>2 DEF CalmSinceStart
    <3> HIDE DEF spent
    <3> QED
      BY <1>2, <3>1
  <2> QED
    BY <2>1, <2>2
<1>4. Busy(Task)' => today'[Task] >= Day(now - Spent)'
  BY <1>1 DEF RecoveryIInv, TodayIsItsStart
<1>5. CalmRunsSucceed'
  BY <1>1, <1>3 DEF RecoveryIInv, CalmRunsSucceed
<1>6. CASE trouble' = now
  BY <1>4, <1>5, <1>6, CalmDayKeeps DEF RecoveryIInv, TaskIsNotPassedOver
<1>7. CASE trouble' = trouble /\ UNCHANGED <<power, trigger>>
  BY <1>1, <1>4, <1>5, <1>7, CalmDayKeeps DEF RecoveryIInv, TaskIsNotPassedOver
<1> QED
  BY <1>6, <1>7

(* What a step of the scheduled run itself may do short of its end: spend      *)
(* hours, and fail only in trouble or when it began too soon after it.         *)
LEMMA TaskGoesOn ==
  ASSUME RecoveryIInv, ScheduleIInv', UNCHANGED <<now, marker>>, Busy(Task), Busy(Task)',
         today'[Task] = today[Task], Spent' >= Spent,
         \/ trouble' = now
         \/ trouble' = trouble /\ ~CalmSinceStart
         \/ trouble' = trouble /\ failed'[Task] = failed[Task] /\ pc'[Task] # "release" /\ pc[Task] # "release"
  PROVE  /\ today'[Task] >= Day(now - Spent)'
         /\ CalmRunsSucceed' /\ TaskIsNotPassedOver'
<1>1. Spent \in Nat /\ now \in Nat /\ Timeout \in Nat /\ MaxCommand \in Nat /\ trouble \in Int
  BY SpentHours DEF RecoveryIInv
<1>2. Spent' \in Nat
  <2>1. MaxCommand \in Nat /\ lasted'[Task] \in 0..MaxCommand
    BY ScheduleAssumption DEF ScheduleIInv, ScheduleTypeOK, Runs
  <2> QED
    BY <2>1 DEF Spent
<1>3. today'[Task] >= Day(now - Spent)'
  <2>1. today[Task] >= Day(now - Spent) /\ Day(now - Spent)' = Day(now - Spent')
    BY DEF RecoveryIInv, TodayIsItsStart, Day
  <2>2. Day(now - Spent') <= Day(now - Spent) /\ Day(now - Spent') \in Int /\ Day(now - Spent) \in Int
    BY <1>1, <1>2, DaysOfHours
  <2>3. today[Task] \in Int
    BY DaysAdvance, ScheduleAssumption DEF RecoveryIInv, ScheduleIInv, ScheduleTypeOK, Runs
  <2> QED
    BY <2>1, <2>2, <2>3
<1>4. CalmSinceStart' => trouble' = trouble /\ CalmSinceStart
  BY <1>1, <1>2 DEF CalmSinceStart
<1>5. CalmSinceStart' => failed'[Task] = failed[Task] /\ pc'[Task] # "release"
  BY <1>1, <1>2, <1>4 DEF CalmSinceStart
<1> QED
  BY <1>3, <1>4, <1>5 DEF RecoveryIInv, CalmRunsSucceed, TaskIsNotPassedOver, Busy

(* A session outlives its refresh only in trouble. *)
LEMMA SessionLeftAlone ==
  ASSUME RecoveryIInv, UNCHANGED <<now, session>>, trouble' \in {trouble, now},
         trouble' = now \/ \A r \in Runs : pc[r] = "refreshing" => pc'[r] = "refreshing"
  PROVE  TroubleIsPast'
<1>1. now \in Nat /\ trouble \in Int /\ session \in Int
  BY ScheduleAssumption DEF RecoveryIInv, ScheduleIInv, ScheduleTypeOK, Calm, NoSession
<1> QED
  BY <1>1 DEF RecoveryIInv, TroubleIsPast

(* Hours are counted for commands only. *)
CommandsLast == \A r \in Runs : pc[r] \notin Commanding => lasted[r] = 0

LEMMA ParTodayIsItsStart ==
  TodayIsItsStart <=> (Busy(Task) => today[Task] >= Day(now - Spent)) /\ CommandsLast
BY DEF TodayIsItsStart, CommandsLast

LEMMA FaultTrouble ==
  ASSUME Disturbed \/ Undisturbed
  PROVE  trouble' \in {trouble, now}
BY DEF Disturbed, Undisturbed

(* A command that ends leaves its hours behind. *)
LEMMA CommandOverLasts ==
  ASSUME RecoveryIInv, NEW r \in Runs, NEW command \in {"refresh", "collect"}, CommandOver(r, command)
  PROVE  /\ CommandsLast' /\ lasted'[r] = 0
         /\ \A s \in Runs \ {r} : lasted'[s] = lasted[s] /\ pc'[s] = pc[s]
         /\ pc'[r] \in {"refresh", "collect", "backup"}
         /\ \A s \in Runs : pc[s] = "refreshing" /\ s # r => pc'[s] = "refreshing"
<1> USE DEF RecoveryIInv, ScheduleIInv, ScheduleTypeOK, CommandOver, NextCommand, Goto, Commanding
<1>1. CommandsLast
  BY ParTodayIsItsStart
<1> QED
  BY <1>1 DEF CommandsLast

(* Steps of manual runs. *)
LEMMA ManualStep ==
  ASSUME RecoveryIInv, ScheduleIInv', NEW r \in Runs, r # Task, ScriptStep(r)
  PROVE  /\ Busy(Task)' => today'[Task] >= Day(now - Spent)'
         /\ CalmRunsSucceed' /\ TaskIsNotPassedOver'
<1> USE ScheduleAssumption DEF RecoveryIInv, ScheduleIInv, ScheduleTypeOK, Runs, Goto, clockVars, ghostVars
<1>1. UNCHANGED <<now, power, trigger, marker>>
  BY DEF ScriptStep, Lock, LockFrame, Prepare, StartRefresh, EndRefresh, StartCollect, EndCollect, Backup, Mark,
         Write, Earned, Release, Throw
<1>2. trouble' \in {trouble, now}
  BY FaultTrouble DEF ScriptStep, Lock, LockFrame, Enter, Prepare, StartRefresh, EndRefresh, StartCollect, EndCollect,
         Backup, Mark, Write, Release, Throw, Fail
<1>3. today'[Task] = today[Task]
  BY DEF ScriptStep, Lock, LockFrame, Prepare, StartRefresh, EndRefresh, StartCollect, EndCollect, Backup, Mark,
         Write, Release, Throw, Forget
<1>4. pc'[Task] = pc[Task]
  BY DEF ScriptStep, Lock, Enter, Prepare, StartRefresh, EndRefresh, StartCollect, EndCollect, Backup, Mark,
         Write, Release, Throw, Forget, NextCommand, CommandDone, CommandFailed, CommandOver
<1>5. lasted'[Task] = lasted[Task]
  BY DEF ScriptStep, Lock, LockFrame, Prepare, StartRefresh, EndRefresh, StartCollect, EndCollect, Backup, Mark,
         Write, Release, Throw, Forget, CommandDone, CommandFailed, CommandOver
<1>6. failed'[Task] = failed[Task]
  BY DEF ScriptStep, Lock, LockFrame, Prepare, StartRefresh, EndRefresh, StartCollect, EndCollect, Backup, Mark,
         Write, Release, Throw, Forget, CommandDone, CommandFailed, CommandOver, Fail
<1> QED
  BY <1>1, <1>2, <1>3, <1>4, <1>5, <1>6, TaskLeftAlone

(* Steps of the scheduled run before its end. *)
LEMMA TaskStep ==
  ASSUME RecoveryIInv, ScheduleIInv',
         \/ Lock(Task) \/ Prepare(Task) \/ StartRefresh(Task) \/ EndRefresh(Task) \/ StartCollect(Task)
         \/ EndCollect(Task) \/ Backup(Task) \/ Throw(Task)
  PROVE  /\ Busy(Task)' => today'[Task] >= Day(now - Spent)'
         /\ CalmRunsSucceed' /\ TaskIsNotPassedOver'
<1> USE ScheduleAssumption
    DEF RecoveryIInv, ScheduleIInv, ScheduleTypeOK, Runs, Goto, clockVars, ghostVars, Spent, Busy
<1>m. MaxCommand \in Nat /\ lasted[Task] \in 0..MaxCommand
  OBVIOUS
<1>1. CASE Lock(Task)
  <2>1. CASE mutex = NoRun
    BY <1>m, <1>1, <2>1, TaskGoesOn DEF Lock, LockFrame, Enter
  <2>2. CASE mutex # NoRun
    <3>1. pc'[Task] = "idle" /\ trouble' = now /\ now' = now
      BY <1>1, <2>2 DEF Lock, LockFrame
    <3> QED
      BY <1>m, <3>1, CalmDayKeeps DEF CalmRunsSucceed, TaskIsNotPassedOver
  <2> QED
    BY <2>1, <2>2
<1>2. CASE Prepare(Task)
  <2>1. pc[Task] = "prepare" /\ pc'[Task] \in {"mark", "backup", "refresh", "collect"} /\ UNCHANGED <<now, marker, today, lasted>>
    BY <1>2 DEF Prepare, NextCommand
  <2>2. trouble' = now \/ (trouble' = trouble /\ failed' = failed)
    BY <1>2 DEF Prepare, Fail, Disturbed, Undisturbed
  <2>3. Spent' >= Spent
    BY <1>m, <2>1
  <2> QED
    BY <2>1, <2>2, <2>3, TaskGoesOn
<1>3. CASE StartRefresh(Task)
  <2>1. CASE MayRefresh
    <3>1. /\ pc[Task] = "refresh" /\ pc'[Task] = "refreshing" /\ UNCHANGED <<now, marker, today, lasted, failed, trouble>>
      BY <1>3, <2>1 DEF StartRefresh
    <3> QED
      BY <1>m, <3>1, TaskGoesOn
  <2>2. CASE ~MayRefresh
    <3>1. /\ pc[Task] = "refresh" /\ pc'[Task] \in {"refresh", "collect", "backup"}
          /\ UNCHANGED <<now, marker, today, trouble, session>>
      BY <1>3, <2>2, CommandOverLasts DEF StartRefresh, CommandFailed
    <3>2. \A r \in Runs : pc[r] # "refreshing"
      BY <3>1 DEF MutexIsHeld, Inside, Commanding
    <3>3. ~CalmSinceStart
      BY <2>2, <3>1, <3>2 DEF MayRefresh, CalmSinceStart, TroubleIsPast, NoSession, Calm
    <3>4. Spent' >= Spent
      BY <1>m, <3>1
    <3> QED
      BY <3>1, <3>3, <3>4, TaskGoesOn
  <2> QED
    BY <2>1, <2>2
<1>4. CASE EndRefresh(Task)
  <2>1. /\ pc[Task] = "refreshing" /\ CommandOver(Task, "refresh") /\ UNCHANGED <<now, marker, today>>
        /\ trouble' = now \/ (trouble' = trouble /\ failed' = failed)
    BY <1>4 DEF EndRefresh, CommandDone, CommandFailed, Disturbed, Undisturbed
  <2>2. pc'[Task] \in {"collect", "backup"}
    BY <2>1, CommandOverStep
  <2>3. Spent' >= Spent
    BY <1>m, <2>1, <2>2
  <2> QED
    BY <2>1, <2>2, <2>3, TaskGoesOn
<1>5. CASE StartCollect(Task)
  BY <1>m, <1>5, TaskGoesOn DEF StartCollect
<1>6. CASE EndCollect(Task)
  <2>1. /\ pc[Task] = "collecting" /\ CommandOver(Task, "collect") /\ UNCHANGED <<now, marker, today>>
        /\ trouble' = now \/ (trouble' = trouble /\ failed' = failed)
    BY <1>6 DEF EndCollect, CommandDone, CommandFailed, Disturbed, Undisturbed
  <2>2. pc'[Task] = "backup"
    BY <2>1, CommandOverStep DEF SuccessIsCollected
  <2>3. Spent' >= Spent
    BY <1>m, <2>1, <2>2
  <2> QED
    BY <2>1, <2>2, <2>3, TaskGoesOn
<1>7. CASE Backup(Task)
  BY <1>m, <1>7, TaskGoesOn DEF Backup, Fail, Disturbed, Undisturbed
<1>8. CASE Throw(Task)
  <2>1. /\ pc[Task] \in {"prepare", "refresh", "collect", "backup", "mark"} /\ pc'[Task] = "release"
        /\ UNCHANGED <<now, marker, today>> /\ trouble' = now
    BY <1>8 DEF Throw, Fail, Disturbed
  <2>2. Spent' >= Spent
    BY <1>m, <2>1
  <2> QED
    BY <2>1, <2>2, TaskGoesOn
<1> QED
  BY <1>1, <1>2, <1>3, <1>4, <1>5, <1>6, <1>7, <1>8

(* The end of the scheduled run: calm since its start, it leaves its day. *)
LEMMA TaskEnds ==
  ASSUME RecoveryIInv, ScheduleIInv', Mark(Task) \/ Release(Task)
  PROVE  /\ Busy(Task)' => today'[Task] >= Day(now - Spent)'
         /\ CalmRunsSucceed' /\ TaskIsNotPassedOver'
<1> USE ScheduleAssumption DEF RecoveryIInv, ScheduleIInv, ScheduleTypeOK, Runs, Goto, clockVars, ghostVars
<1>1. CASE Mark(Task)
  <2>1. /\ pc[Task] = "mark" /\ pc'[Task] = "release" /\ UNCHANGED <<now, today, trouble, failed>>
        /\ succeeded[Task] => marker' = today[Task]
    BY <1>1 DEF Mark, Write, Earned
  <2>2. Spent' = Spent
    BY <2>1 DEF Spent
  <2>3. Busy(Task) /\ Busy(Task)' /\ Day(now - Spent)' = Day(now - Spent) /\ CalmSinceStart' = CalmSinceStart
    BY <2>1, <2>2 DEF Busy, Day, CalmSinceStart
  <2>4. CalmSinceStart => ~failed[Task] /\ succeeded[Task]
    BY <2>1, <2>3 DEF CalmRunsSucceed, SuccessIsCollected
  <2> QED
    BY <2>1, <2>2, <2>3, <2>4 DEF TodayIsItsStart, CalmRunsSucceed, TaskIsNotPassedOver
<1>2. CASE Release(Task)
  <2>1. pc[Task] = "release" /\ pc'[Task] = "idle" /\ UNCHANGED <<now, power, trigger, marker, trouble>>
    BY <1>2 DEF Release, Forget
  <2>2. ASSUME CalmDay PROVE marker = Day(now)
    <3>0. now > trouble + Timeout + 2 * MaxCommand /\ now % DayHours >= StartHour + 2 * MaxCommand
      BY <2>2, CalmDayHours
    <3>1. now \in Nat /\ 2 * MaxCommand \in Nat /\ StartHour \in Nat /\ now % DayHours \in Nat /\ trouble \in Int
      BY SpentHours, CalmDayHours
    <3>2. Day(now - 2 * MaxCommand) = Day(now)
      BY <3>0, <3>1, EarlierThatDay
    <3>3. Spent = 2 * MaxCommand /\ Busy(Task) /\ CalmSinceStart
      BY <2>1, <3>0, <3>1 DEF Spent, Busy, CalmSinceStart
    <3>4. marker = today[Task] /\ today[Task] >= Day(now)
      BY <2>1, <3>2, <3>3 DEF CalmRunsSucceed, TodayIsItsStart
    <3>5. today[Task] <= Day(now) /\ today[Task] \in Int /\ Day(now) \in Int
      BY <3>1, DaysAdvance DEF DaysAreInOrder
    <3> QED
      BY <3>4, <3>5
  <2>3. Day(now)' = Day(now) /\ CalmDay' = CalmDay
    BY <2>1, CalmDayKeeps DEF Day
  <2> QED
    BY <2>1, <2>2, <2>3 DEF Busy, CalmRunsSucceed, TaskIsNotPassedOver
<1> QED
  BY <1>1, <1>2

(* Sessions and hours in the steps of any run. *)
LEMMA ScriptHours ==
  ASSUME RecoveryIInv, ScheduleIInv', NEW r \in Runs, ScriptStep(r)
  PROVE  TroubleIsPast' /\ CommandsLast'
<1> USE ScheduleAssumption DEF RecoveryIInv, ScheduleIInv, ScheduleTypeOK, Goto, clockVars, ghostVars, Commanding
<1>0. CommandsLast
  BY ParTodayIsItsStart
<1>n. now \in Nat /\ trouble \in Int /\ session \in Int /\ NoSession = -1
  BY DEF Calm, NoSession
<1>1. CASE Lock(r) \/ Prepare(r) \/ StartCollect(r) \/ Backup(r) \/ Mark(r) \/ Throw(r)
  <2>1. UNCHANGED <<now, session, lasted>>
    BY <1>1 DEF Lock, LockFrame, Prepare, StartCollect, Backup, Mark, Write, Throw
  <2>2. trouble' \in {trouble, now}
    BY <1>1, FaultTrouble DEF Lock, LockFrame, Enter, Prepare, StartCollect, Backup, Mark, Write, Throw, Fail
  <2>3. /\ pc[r] \notin Commanding /\ (\A s \in Runs \ {r} : pc'[s] = pc[s])
    BY <1>1 DEF Lock, Enter, Prepare, NextCommand, StartCollect, Backup, Mark, Write, Throw
  <2>4. TroubleIsPast'
    BY <2>1, <2>2, <2>3, SessionLeftAlone
  <2> QED
    BY <1>0, <2>1, <2>3, <2>4 DEF CommandsLast
<1>2. CASE StartRefresh(r)
  <2>1. CASE MayRefresh
    <3>1. /\ session' = now /\ UNCHANGED <<now, trouble, lasted>> /\ pc[r] = "refresh" /\ pc'[r] = "refreshing"
          /\ \A s \in Runs \ {r} : pc'[s] = pc[s]
      BY <1>2, <2>1 DEF StartRefresh
    <3> QED
      BY <1>0, <1>n, <3>1 DEF TroubleIsPast, CommandsLast
  <2>2. CASE ~MayRefresh
    <3>1. CommandOver(r, "refresh") /\ pc[r] = "refresh" /\ UNCHANGED <<now, session, trouble>>
      BY <1>2, <2>2 DEF StartRefresh, CommandFailed
    <3>2. CommandsLast' /\ \A s \in Runs : pc[s] = "refreshing" => pc'[s] = "refreshing"
      BY <3>1, CommandOverLasts
    <3> QED
      BY <3>1, <3>2, SessionLeftAlone
  <2> QED
    BY <2>1, <2>2
<1>3. CASE EndRefresh(r)
  <2>1. CommandOver(r, "refresh") /\ now' = now
    BY <1>3 DEF EndRefresh, CommandDone, CommandFailed
  <2>2. CommandsLast'
    BY <2>1, CommandOverLasts
  <2>3. trouble \in Int /\ now \in Int /\ trouble <= now /\ session <= now /\ now' = now /\ -1 <= now
    BY <1>n, <2>1 DEF TroubleIsPast
  <2>4. CASE session' = NoSession /\ Undisturbed
    <3>1. session' = NoSession /\ NoSession <= now /\ trouble' = trouble /\ NoSession' = NoSession
      BY <1>n, <2>3, <2>4 DEF Undisturbed, NoSession
    <3> QED
      BY <2>2, <2>3, <3>1 DEF TroubleIsPast
  <2>5. CASE session' \in {session, NoSession} /\ Disturbed
    <3>1. session' <= now /\ trouble' = now
      BY <1>n, <2>3, <2>5 DEF Disturbed
    <3> QED
      BY <2>2, <2>3, <3>1 DEF TroubleIsPast
  <2> QED
    BY <1>3, <2>2, <2>4, <2>5 DEF EndRefresh
<1>4. CASE EndCollect(r)
  <2>1. CommandOver(r, "collect") /\ UNCHANGED <<now, session>> /\ pc[r] = "collecting"
    BY <1>4 DEF EndCollect, CommandDone, CommandFailed
  <2>2. CommandsLast' /\ \A s \in Runs : pc[s] = "refreshing" => pc'[s] = "refreshing"
    BY <2>1, CommandOverLasts
  <2>3. trouble' \in {trouble, now}
    BY <1>4, FaultTrouble DEF EndCollect
  <2> QED
    BY <2>1, <2>2, <2>3, SessionLeftAlone
<1>5. CASE Release(r)
  <2>1. /\ UNCHANGED <<now, session, trouble>> /\ pc[r] = "release" /\ \A s \in Runs \ {r} : pc'[s] = pc[s]
        /\ pc'[r] = "idle" /\ lasted' = [s \in Runs |-> IF s \in {r} THEN 0 ELSE lasted[s]]
    BY <1>5 DEF Release, Forget
  <2>2. TroubleIsPast'
    BY <2>1, SessionLeftAlone
  <2> QED
    BY <1>0, <2>1, <2>2 DEF CommandsLast
<1> QED
  BY <1>1, <1>2, <1>3, <1>4, <1>5 DEF ScriptStep

(* A start, by the Task Scheduler or by hand. *)
LEMMA StartsRecover ==
  ASSUME RecoveryIInv, ScheduleIInv', StartTask \/ (\E r \in Runs : StartByHand(r)) \/ IgnoreNew
  PROVE  RecoveryIInv'
<1> USE ScheduleAssumption
    DEF RecoveryIInv, ScheduleIInv, ScheduleTypeOK, Goto, clockVars, runVars, ghostVars, Busy
<1>0. CommandsLast
  BY ParTodayIsItsStart
<1>1. CASE IgnoreNew
  BY <1>1 DEF IgnoreNew, TroubleIsPast, TodayIsItsStart, CalmRunsSucceed, TaskIsNotPassedOver, CalmDay,
     SinceLastTry, Spent, CalmSinceStart, Day
<1>2. CASE StartTask /\ marker = Day(now)
  <2>1. UNCHANGED <<now, power, marker, runVars, session, trouble>>
    BY <1>2 DEF StartTask
  <2> QED
    BY <1>2, <2>1 DEF TroubleIsPast, TodayIsItsStart, CalmRunsSucceed, TaskIsNotPassedOver, CalmDay,
       SinceLastTry, Spent, CalmSinceStart, Day
<1>3. CASE StartTask /\ marker # Day(now)
  <2>1. /\ UNCHANGED <<now, session, trouble, lasted>>
        /\ pc[Task] = "idle" /\ pc' = [pc EXCEPT ![Task] = "lock"] /\ today'[Task] = Day(now) /\ ~failed'[Task]
    BY <1>3 DEF StartTask, Begin, Runs
  <2>2. pc'[Task] = "lock"
    BY <2>1 DEF Runs
  <2>3. Spent' = 0 /\ Day(now - Spent)' = Day(now)
    BY <2>1, <2>2 DEF Spent, Day
  <2>4. TroubleIsPast'
    BY <2>1, SessionLeftAlone
  <2>5. CommandsLast'
    BY <1>0, <2>1 DEF CommandsLast, Commanding
  <2>6. Day(now) \in Int
    BY DaysAdvance
  <2> QED
    BY <2>1, <2>2, <2>3, <2>4, <2>5, <2>6, ParTodayIsItsStart DEF TodayIsItsStart, CommandsLast, CalmRunsSucceed,
       TaskIsNotPassedOver
<1>4. CASE \E r \in Runs : StartByHand(r)
  <2>1. PICK r \in Runs : StartByHand(r)
    BY <1>4
  <2>2. r # Task /\ pc[r] = "idle" /\ pc' = [pc EXCEPT ![r] = "lock"]
    BY <2>1 DEF StartByHand, Begin
  <2>3. UNCHANGED <<now, power, trigger, marker, lasted, session, trouble>>
    BY <2>1 DEF StartByHand
  <2>4. pc'[Task] = pc[Task] /\ today'[Task] = today[Task] /\ failed'[Task] = failed[Task]
    BY <2>1, <2>2 DEF StartByHand, Begin, Runs
  <2>5. TroubleIsPast' /\ CommandsLast'
    BY <1>0, <2>2, <2>3, SessionLeftAlone DEF CommandsLast, Commanding
  <2> QED
    BY <2>3, <2>4, <2>5, TaskLeftAlone DEF TodayIsItsStart, CommandsLast
<1> QED
  BY <1>1, <1>2, <1>3, <1>4

(* What ends runs from outside, and the power, is trouble. *)
LEMMA TroubleRecovers ==
  ASSUME RecoveryIInv, ScheduleIInv', Stop \/ PowerCut \/ PowerOn
  PROVE  RecoveryIInv'
<1> USE ScheduleAssumption DEF RecoveryIInv, ScheduleIInv, ScheduleTypeOK, clockVars, runVars, ghostVars
<1>0. CommandsLast
  BY ParTodayIsItsStart
<1>1. UNCHANGED <<now, marker, session>> /\ trouble' = now
  BY DEF Stop, PowerCut, PowerOn, Disturbed
<1>2. TroubleIsPast'
  BY <1>1, SessionLeftAlone
<1>3. CASE PowerOn
  <2>1. UNCHANGED runVars
    BY <1>3 DEF PowerOn
  <2>2. CommandsLast'
    BY <1>0, <2>1 DEF CommandsLast
  <2> QED
    BY <1>1, <1>2, <2>1, <2>2, TaskLeftAlone DEF TodayIsItsStart, CommandsLast
<1>4. CASE Stop \/ PowerCut
  <2>1. PICK R \in {{Task}, Runs} : Forget(R)
    BY <1>4 DEF Stop, PowerCut
  <2>2. pc'[Task] = "idle"
    BY <2>1 DEF Forget, Runs
  <2>3. CommandsLast'
    BY <1>0, <2>1 DEF Forget, CommandsLast
  <2>4. TaskIsNotPassedOver'
    BY <1>1, CalmDayKeeps DEF TaskIsNotPassedOver
  <2> QED
    BY <1>2, <2>2, <2>3, <2>4 DEF TodayIsItsStart, CommandsLast, CalmRunsSucceed, Busy
<1> QED
  BY <1>3, <1>4

(* An hour that leaves room for the commands is one in which the task is due, *)
(* or comes after one of the same day that does.                             *)
LEMMA LateIsDue ==
  ASSUME NEW h \in Nat, h % DayHours >= StartHour + 2 * MaxCommand, h % DayHours <= EndHour
  PROVE  Due(h)
<1> DEFINE hour == h % DayHours
<1>1. hour \in Int /\ StartHour \in Int /\ EndHour \in Int /\ MaxCommand \in Nat
  BY ScheduleAssumption
<1>2. hour >= StartHour + 2 * MaxCommand /\ hour <= EndHour
  OBVIOUS
<1> HIDE DEF hour
<1>3. hour \in StartHour..EndHour
  BY <1>1, <1>2
<1> QED
  BY <1>3 DEF hour, Due

LEMMA Division ==
  ASSUME NEW h \in Nat, NEW d \in Nat, d > 0
  PROVE  h \div d \in Int /\ h % d \in 0..d - 1 /\ h = d * (h \div d) + (h % d)
<1>1. h \div d \in Int /\ h % d \in Int
  BY SMTT(60)
<1>2. h % d >= 0 /\ h % d < d
  BY SMTT(60)
<1>3. h = d * (h \div d) + (h % d)
  BY SMTT(60)
<1> QED
  BY <1>1, <1>2, <1>3

LEMMA SameQuotient ==
  ASSUME NEW d \in Nat, NEW p \in Int, NEW q \in Int, NEW r \in 0..d - 1, NEW s \in 1..d - 1,
         d * q + s = d * p + r + 1
  PROVE  q = p /\ s = r + 1
<1>1. d * (q - p) = r + 1 - s /\ r + 1 - s > -d /\ r + 1 - s < d
  BY SMTT(60)
<1>2. CASE q - p >= 1
  BY <1>1, <1>2, SMTT(60)
<1>3. CASE q - p <= -1
  BY <1>1, <1>3, SMTT(60)
<1>4. CASE q = p
  BY <1>1, <1>4
<1> QED
  BY <1>2, <1>3, <1>4

(* The clock does not pass midnight when the next hour is not a day's first. *)
LEMMA NextHour ==
  ASSUME NEW h \in Nat, (h + 1) % DayHours > 0
  PROVE  (h + 1) % DayHours = (h % DayHours) + 1 /\ Day(h + 1) = Day(h)
<1> DEFINE p == h \div DayHours
           q == (h + 1) \div DayHours
           r == h % DayHours
           s == (h + 1) % DayHours
<1>1. DayHours \in Nat /\ DayHours > 0 /\ h + 1 \in Nat
  BY ScheduleAssumption
<1>2. p \in Int /\ r \in 0..DayHours - 1 /\ h = DayHours * p + r
  BY <1>1, Division
<1>3. q \in Int /\ s \in 0..DayHours - 1 /\ h + 1 = DayHours * q + s
  BY <1>1, Division
<1>4. s > 0
  OBVIOUS
<1> HIDE DEF p, q, r, s
<1>5. s \in 1..DayHours - 1 /\ DayHours * q + s = DayHours * p + r + 1
  BY <1>1, <1>2, <1>3, <1>4
<1>6. q = p /\ s = r + 1
  BY <1>1, <1>2, <1>3, <1>5, SameQuotient
<1> QED
  BY <1>6 DEF p, q, r, s, Day

LEMMA EveningIsCalm ==
  ASSUME ScheduleIInv, ScheduleIInv', now' = now + 1, trouble' = trouble, now' % DayHours > EndHour, CalmDay'
  PROVE  CalmDay /\ Day(now') = Day(now)
<1> DEFINE hour == now % DayHours
           next == now' % DayHours
           spent == 2 * MaxCommand
<1>1. now \in Nat /\ hour \in Nat /\ next \in Nat /\ EndHour \in Nat /\ StartHour \in Nat /\ trouble \in Int
  BY ScheduleAssumption, SpentHours
<1>2. Timeout \in Nat /\ spent \in Nat
  BY SpentHours
<1>3. next = hour + 1 /\ Day(now') = Day(now)
  BY <1>1, NextHour
<1>4. now' - (next - EndHour) > trouble + Timeout + spent /\ next - (next - EndHour) >= StartHour + spent
  <2>1. SinceLastTry' = next - EndHour
    BY <1>1 DEF SinceLastTry
  <2>2. now' - SinceLastTry' > trouble + Timeout + spent /\ next - SinceLastTry' >= StartHour + spent
    BY DEF CalmDay
  <2> HIDE DEF next, spent
  <2> QED
    BY <2>1, <2>2
<1>5. CalmDay <=> /\ now - SinceLastTry > trouble + Timeout + spent
                  /\ hour - SinceLastTry >= StartHour + spent
  BY DEF CalmDay
<1>6. SinceLastTry = IF hour <= EndHour THEN 0 ELSE hour - EndHour
  BY DEF SinceLastTry
<1>7. next > EndHour /\ now' = now + 1
  OBVIOUS
<1> HIDE DEF hour, next, spent
<1> QED
  BY <1>1, <1>2, <1>3, <1>4, <1>5, <1>6, <1>7

(* An hour: the scheduled run spends it, or the task is due. *)
LEMMA TickRecovers == ASSUME RecoveryIInv, ScheduleIInv', Tick PROVE RecoveryIInv'
<1> USE ScheduleAssumption DEF RecoveryIInv, ScheduleIInv, ScheduleTypeOK, runVars, ghostVars
<1>0. CommandsLast
  BY ParTodayIsItsStart
<1>n. now \in Nat /\ trouble \in Int /\ session \in Int /\ now' = now + 1
  BY SpentHours DEF Tick, NoSession
<1>1. TroubleIsPast'
  BY <1>n DEF Tick, TroubleIsPast
<1>2. CommandsLast'
  BY <1>0 DEF Tick, CommandsLast, Busy, Commanding
<1>3. Busy(Task) => pc[Task] \in Commanding /\ lasted'[Task] = lasted[Task] + 1 /\ lasted[Task] \in Nat
  BY DEF Tick, Runs
<1>4. Busy(Task) => Spent' = Spent + 1 /\ now' - Spent' = now - Spent
  BY <1>3, <1>n, SpentHours DEF Tick, Spent, Commanding
<1>5. Busy(Task)' = Busy(Task) /\ UNCHANGED <<today, failed, marker, trouble, power, pc>>
  BY DEF Tick, Busy
<1>6. Busy(Task)' => today'[Task] >= Day(now - Spent)'
  BY <1>4, <1>5 DEF TodayIsItsStart, Day
<1>7. CalmRunsSucceed'
  BY <1>4, <1>5 DEF CalmRunsSucceed, CalmSinceStart
<1>8. TaskIsNotPassedOver'
  <2>1. CASE now' % DayHours <= EndHour
    <3>0. SinceLastTry' = 0
      BY <2>1 DEF SinceLastTry
    <3>1. ASSUME CalmDay' PROVE Due(now')
      <4> DEFINE next == now' % DayHours
                 room == StartHour + 2 * MaxCommand
      <4>1. next - SinceLastTry' >= room
        BY <3>1 DEF CalmDay
      <4>2. next \in Int
        BY <1>n
      <4> HIDE DEF next, room
      <4>3. next >= room
        BY <3>0, <4>1, <4>2
      <4> QED
        BY <1>n, <2>1, <4>3, LateIsDue DEF next, room
    <3> QED
      BY <1>n, <3>1 DEF Tick, TaskIsNotPassedOver
  <2>2. CASE now' % DayHours > EndHour
    <3>1. CalmDay' => CalmDay /\ Day(now)' = Day(now)
      BY <1>n, <1>5, <2>2, EveningIsCalm DEF Day
    <3>2. power => ~trigger
      BY DEF Tick
    <3> QED
      BY <1>5, <3>1, <3>2 DEF TaskIsNotPassedOver
  <2>3. now' % DayHours <= EndHour \/ now' % DayHours > EndHour
    <3> DEFINE next == now' % DayHours
    <3>1. next \in Int /\ EndHour \in Int
      BY <1>n
    <3> HIDE DEF next
    <3>2. next <= EndHour \/ next > EndHour
      BY <3>1
    <3> QED
      BY <3>2 DEF next
  <2> QED
    BY <2>1, <2>2, <2>3
<1> QED
  BY <1>1, <1>2, <1>6, <1>7, <1>8 DEF TodayIsItsStart, CommandsLast

LEMMA RecoveryInit == Init => RecoveryIInv
<1> SUFFICES ASSUME Init PROVE RecoveryIInv
  OBVIOUS
<1>0. ScheduleIInv
  BY ScheduleInit
<1>1. TroubleIsPast
  BY ScheduleAssumption DEF Init, TroubleIsPast, Calm, NoSession
<1>2. TodayIsItsStart /\ CalmRunsSucceed
  BY DEF Init, TodayIsItsStart, CalmRunsSucceed, Busy, Runs
<1>3. TaskIsNotPassedOver
  <2>1. ~CalmDay
    BY <1>0, CalmDayHours, SpentHours DEF Init, Calm
  <2> QED
    BY <2>1 DEF TaskIsNotPassedOver
<1> QED
  BY <1>0, <1>1, <1>2, <1>3 DEF RecoveryIInv

LEMMA RecoveryStep == RecoveryIInv /\ [Next]_vars => RecoveryIInv'
<1> SUFFICES ASSUME RecoveryIInv, [Next]_vars PROVE RecoveryIInv'
  OBVIOUS
<1>0. ScheduleIInv'
  BY ScheduleStep DEF RecoveryIInv
<1>1. ASSUME NEW r \in Runs, ScriptStep(r) PROVE RecoveryIInv'
  <2>1. TroubleIsPast' /\ CommandsLast'
    BY <1>0, <1>1, ScriptHours
  <2>2. CASE r = Task
    BY <1>0, <1>1, <2>1, <2>2, TaskStep, TaskEnds DEF ScriptStep, RecoveryIInv, TodayIsItsStart, CommandsLast
  <2>3. CASE r # Task
    BY <1>0, <1>1, <2>1, <2>3, ManualStep DEF RecoveryIInv, TodayIsItsStart, CommandsLast
  <2> QED
    BY <2>2, <2>3
<1>2. CASE Terminated \/ UNCHANGED vars
  BY <1>0, <1>2 DEF Terminated, vars, clockVars, runVars, ghostVars, RecoveryIInv, TroubleIsPast, TodayIsItsStart,
     CalmRunsSucceed, CalmSinceStart, TaskIsNotPassedOver, CalmDay, SinceLastTry, Spent, Busy, Day
<1> QED
  BY <1>0, <1>1, <1>2, StartsRecover, TroubleRecovers, TickRecovers DEF Next

(* The hours of RecoveryIInv hold of every behaviour. *)
THEOREM RecoveryInductive == Spec => []RecoveryIInv
<1> QED
  BY RecoveryInit, RecoveryStep, PTL DEF Spec

(* When the last power cut, failure or lost race is further back than the      *)
(* running timeout and the two commands before the day's last repetition,      *)
(* an idle computer that is on has done the day's collection: whatever power   *)
(* cuts, failures and manual runs came before.                                *)
THEOREM Recovers == Spec => []RecoveredTheSameDay
<1>1. RecoveryIInv => RecoveredTheSameDay
  BY DEF RecoveryIInv, TaskIsNotPassedOver, RecoveredTheSameDay, Runs
<1> QED
  BY <1>1, RecoveryInductive, PTL
=============================================================================
