----------------------------- MODULE ToolsProofs -----------------------------
(***************************************************************************)
(* Theorems about four of the tools: the emulator runner and, below it, the *)
(* ordered dictionary of elftools, the file system test, and the search    *)
(* for paths through the chapters.                                         *)
(*                                                                         *)
(* The emulator runner: what run() has done at each point of it, while the *)
(* timer, the emulator and the user do what they like.                     *)
(***************************************************************************)
EXTENDS Emulator, OrderedDict, FsTest, PathSearch, ScanTable,
        FiniteSetTheorems, WellFoundedInduction, SequenceTheorems, TLAPS

\* Once the pty has been silent after the signal, all that counts is in 'out'.
Drained == phase \in {"wait", "verdict", "done"} \/ (phase = "cancel" /\ model = "bochs")

\* The child has been waited for.
Reaped == phase \in {"verdict", "done"} \/ (phase = "cancel" /\ model = "bochs")

\* t.cancel() has returned.
Cancelled == phase \in {"verdict", "done"} \/ (phase \in {"drain", "wait"} /\ model = "qemu")

\* Pieces of output are lost when the emulator ends, but never doubled.
SerialCounts ==
  /\ serial.out + serial.pty + serial.fifo <= serial.sent
  /\ serial.reached <= serial.out + serial.pty
  /\ Drained => serial.reached <= serial.out

\* The timer, and what it leaves.
TimerSound ==
  /\ stop <=> timer = "fired"
  /\ phase = "start" \/ ~timed => timer = "none"
  /\ Cancelled => timer # "armed"
  /\ phase = "raised" => timer \notin {"armed", "fired"}

\* The child, and what it has said to the monitor.
ChildSound ==
  /\ phase \in {"start", "spawn"} => child = "none"
  /\ child = "none" => ready = << >>
  /\ Reaped => child = "reaped"
  /\ \A i \in DOMAIN ready : ready[i] = "halted" => child \in {"halted", "ended", "reaped"}

\* The files there are where run() is, and the emulator when it has raised.
FilesSound ==
  /\ phase \in {"start", "spawn"} => temps = {"image"}
  /\ phase \notin {"start", "spawn", "done"} =>
       temps = {"image", IF model = "bochs" THEN "log" ELSE "errors"}
  /\ phase = "done" => temps = (IF model = "bochs" THEN {"log"} ELSE {})
  /\ phase = "raised" => child = "reaped" \/ (model = "qemu" /\ ~timed)

\* The inductive invariant of a run of the emulator.
EmInv ==
  /\ EmTypeOK /\ SerialCounts /\ TimerSound /\ ChildSound
  /\ CrashIsReported /\ FilesSound

\* The numbers in 'serial'.
LEMMA SerialNumbers ==
  ASSUME EmTypeOK, SerialCounts
  PROVE  /\ serial.sent \in Nat /\ serial.fifo \in Nat /\ serial.pty \in Nat
         /\ serial.out \in Nat /\ serial.reached \in Nat /\ MaxSent \in Nat /\ PtyRoom \in Nat \ {0}
         /\ serial.sent <= MaxSent /\ serial.pty <= PtyRoom
         /\ serial.out + serial.pty + serial.fifo <= serial.sent
         /\ serial.reached <= serial.out + serial.pty
BY EmulatorAssumption DEF EmTypeOK, SerialCounts

\* Reading the pty moves what is in it to 'out'.
LEMMA TakeSerialMoves ==
  ASSUME EmTypeOK, SerialCounts, NEW s, s = TakeSerial(serial)
  PROVE  /\ s \in [sent : 0..MaxSent, fifo : 0..MaxSent, pty : 0..PtyRoom, out : 0..MaxSent, reached : 0..MaxSent]
         /\ s.sent = serial.sent /\ s.fifo = serial.fifo /\ s.pty = 0
         /\ s.out = serial.out + serial.pty /\ s.reached = serial.reached
<1>1. serial = [sent |-> serial.sent, fifo |-> serial.fifo, pty |-> serial.pty, out |-> serial.out,
                reached |-> serial.reached]
  BY DEF EmTypeOK
<1>2. s = [sent |-> serial.sent, fifo |-> serial.fifo, pty |-> 0, out |-> serial.out + serial.pty,
           reached |-> serial.reached]
  BY <1>1 DEF TakeSerial
<1>3. /\ serial.sent \in 0..MaxSent /\ serial.fifo \in 0..MaxSent /\ 0 \in 0..PtyRoom
      /\ serial.out + serial.pty \in 0..MaxSent /\ serial.reached \in 0..MaxSent
  BY SerialNumbers
<1>4. QED
  BY <1>2, <1>3

\* It holds when run() is called.
LEMMA EmInitInv == EmInit => EmInv
<1> SUFFICES ASSUME EmInit PROVE EmInv
  OBVIOUS
<1>1. EmTypeOK
  <2>1. 0 \in 0..MaxSent /\ 0 \in 0..PtyRoom /\ owed \in 0..MaxLag /\ Len(ready) <= MaxLag
    BY EmulatorAssumption DEF EmInit
  <2>2. serial \in [sent : 0..MaxSent, fifo : 0..MaxSent, pty : 0..PtyRoom,
                    out : 0..MaxSent, reached : 0..MaxSent]
    BY <2>1 DEF EmInit
  <2>3. ready \in Seq({"echo"} \cup Dumps)
    BY DEF EmInit
  <2>4. QED
    BY <2>1, <2>2, <2>3 DEF EmInit, EmTypeOK
<1>2. SerialCounts
  BY DEF EmInit, SerialCounts, Drained
<1>3. TimerSound /\ ChildSound /\ CrashIsReported /\ FilesSound
  BY DEF EmInit, TimerSound, ChildSound, CrashIsReported, FilesSound, Cancelled, Reaped
<1>4. QED
  BY <1>1, <1>2, <1>3 DEF EmInv

\* The type is kept.
LEMMA EmStepType == ASSUME EmInv, [EmNext]_emVars PROVE EmTypeOK'
<1> USE EmulatorAssumption DEF EmInv, EmTypeOK
<1>1. CASE StartTimer
  BY <1>1 DEF StartTimer
<1>2. CASE Spawn
  BY <1>2 DEF Spawn
<1>3. CASE LeaveLoop
  BY <1>3 DEF LeaveLoop
<1>4. CASE BochsRound
  BY <1>4, TakeSerialMoves DEF BochsRound
<1>5. CASE QemuRound
  BY <1>5, TakeSerialMoves DEF QemuRound
<1>6. CASE AskRegisters
  BY <1>6 DEF AskRegisters
<1>7. CASE HearMonitor
  BY <1>7 DEF HearMonitor
<1>8. CASE Kill
  <2>1. serial' \in [sent : 0..MaxSent, fifo : 0..MaxSent, pty : 0..PtyRoom,
                      out : 0..MaxSent, reached : 0..MaxSent]
    BY <1>8, SMTT(30) DEF Kill, SerialCounts
  <2>2. phase' \in {"cancel", "drain"} /\ signalled' = TRUE
    BY <1>8 DEF Kill, AfterKill
  <2>3. UNCHANGED << model, timed, stdin, stop, timer, child, exit, owed, ready, temps >>
    BY <1>8 DEF Kill
  <2>4. QED
    BY <2>1, <2>2, <2>3, SMTT(30)
<1>9. CASE CancelTimer
  BY <1>9 DEF CancelTimer
<1>10. CASE Drain
  BY <1>10, TakeSerialMoves DEF Drain
<1>11. CASE DrainSilent
  BY <1>11 DEF DrainSilent
<1>12. CASE Reap
  BY <1>12 DEF Reap, AfterReap
<1>13. CASE Verdict
  <2>1. phase' \in {"done", "raised"}
    BY <1>13 DEF Verdict
  <2>2. temps' \subseteq {"image", "errors", "log"}
    BY <1>13 DEF Verdict
  <2>3. UNCHANGED << model, timed, stdin, stop, timer, child, exit, signalled, serial, owed, ready >>
    BY <1>13 DEF Verdict
  <2>4. QED
    BY <2>1, <2>2, <2>3
<1>14. CASE Alarm
  BY <1>14 DEF Alarm, AlarmSignals
<1>15. CASE Unblock
  BY <1>15, TakeSerialMoves DEF Unblock
<1>16. CASE Boot
  BY <1>16 DEF Boot, EmuUnchanged
<1>17. CASE GuestPrints
  <2>1. /\ serial.sent + 1 \in 0..MaxSent /\ serial.fifo + 1 \in 0..MaxSent
        /\ serial' = [serial EXCEPT !.sent = @ + 1, !.fifo = @ + 1]
    BY <1>17, SerialNumbers, SMTT(30) DEF GuestPrints
  <2>2. serial' \in [sent : 0..MaxSent, fifo : 0..MaxSent, pty : 0..PtyRoom,
                     out : 0..MaxSent, reached : 0..MaxSent]
    BY <2>1
  <2>3. QED
    BY <1>17, <2>2 DEF GuestPrints, EmuUnchanged
<1>18. CASE GuestHalts
  BY <1>18 DEF GuestHalts, EmuUnchanged
<1>19. CASE Flush
  <2>1. /\ serial.fifo - 1 \in 0..MaxSent /\ serial.pty + 1 \in 0..PtyRoom
        /\ serial' = [serial EXCEPT !.fifo = @ - 1, !.pty = @ + 1]
    BY <1>19, SerialNumbers, SMTT(30) DEF Flush
  <2>2. serial' \in [sent : 0..MaxSent, fifo : 0..MaxSent, pty : 0..PtyRoom,
                     out : 0..MaxSent, reached : 0..MaxSent]
    BY <2>1
  <2>3. QED
    BY <1>19, <2>2 DEF Flush, EmuUnchanged
<1>20. CASE MonitorEchoes
  BY <1>20 DEF MonitorEchoes, EmuUnchanged
<1>21. CASE MonitorDumps
  <2>1. PICK e \in Dumps : ready' = Append(ready, e)
    BY <1>21 DEF MonitorDumps, Dumps
  <2>2. Len(ready') <= MaxLag /\ ready' \in Seq({"echo"} \cup Dumps)
    BY <1>21, <2>1 DEF MonitorDumps
  <2>3. QED
    BY <1>21, <2>2 DEF MonitorDumps, EmuUnchanged
<1>22. CASE EmuCrashes
  BY <1>22, SMTT(30) DEF EmuCrashes, Ends, EmuUnchanged
<1>23. CASE EmuDies
  BY <1>23, SMTT(30) DEF EmuDies, Ends, EmuUnchanged
<1>24. CASE UNCHANGED emVars
  BY <1>24 DEF emVars
<1>25. CASE EmuKilled
  BY <1>25, SMTT(30) DEF EmuKilled, Ends, EmuUnchanged
<1>26. QED
  BY <1>1, <1>2, <1>3, <1>4, <1>5, <1>6, <1>7, <1>8, <1>9, <1>10, <1>11, <1>12, <1>13, <1>14,
     <1>15, <1>16, <1>17, <1>18, <1>19, <1>20, <1>21, <1>22, <1>23, <1>24, <1>25 DEF EmNext, RunStep

\* No output is doubled, and none that has come as far as the pty is lost.
LEMMA EmStepSerial == ASSUME EmInv, [EmNext]_emVars PROVE SerialCounts'
<1> USE DEF EmInv
<1>1. EmTypeOK /\ SerialCounts
  OBVIOUS
<1>2. CASE /\ UNCHANGED << model, serial >>
           /\ Drained' => Drained \/ serial.pty = 0
  BY <1>2, SerialNumbers DEF SerialCounts
<1>3. CASE serial' = TakeSerial(serial) /\ UNCHANGED model /\ (Drained' => Drained)
  <2>1. PICK s : s = TakeSerial(serial)
    OBVIOUS
  <2>2. /\ s.sent = serial.sent /\ s.fifo = serial.fifo /\ s.pty = 0
        /\ s.out = serial.out + serial.pty /\ s.reached = serial.reached
    BY <2>1, TakeSerialMoves
  <2>3. QED
    BY <1>3, <2>1, <2>2, SerialNumbers DEF SerialCounts
<1>4. ASSUME StartTimer \/ Spawn \/ LeaveLoop \/ AskRegisters \/ HearMonitor \/ CancelTimer
             \/ DrainSilent \/ Reap \/ Verdict
      PROVE  UNCHANGED << model, serial >> /\ (Drained' => Drained \/ serial.pty = 0)
  BY <1>4 DEF StartTimer, Spawn, LeaveLoop, AskRegisters, HearMonitor, CancelTimer, DrainSilent,
     Reap,
              Verdict, Drained, AfterReap, EmTypeOK
<1>5. ASSUME Alarm \/ Boot \/ GuestHalts \/ MonitorEchoes \/ MonitorDumps \/ UNCHANGED emVars
      PROVE  UNCHANGED << model, serial >> /\ (Drained' => Drained)
  BY <1>5 DEF Alarm, Boot, GuestHalts, MonitorEchoes, MonitorDumps, EmuUnchanged, emVars, Drained
<1>6. CASE QemuRound
  BY <1>2, <1>3, <1>6 DEF QemuRound, Drained
<1>7. CASE BochsRound \/ Unblock \/ Drain
  BY <1>3, <1>7 DEF BochsRound, Unblock, Drain, Drained
<1>8. CASE Kill
  <2>1. /\ serial'.sent = serial.sent /\ serial'.fifo = serial.fifo /\ serial'.pty = serial.pty
        /\ serial'.out = serial.out /\ serial'.reached = serial.out + serial.pty
    BY <1>8 DEF Kill, EmTypeOK
  <2>2. ~Drained'
    BY <1>8 DEF Kill, Drained, AfterKill, EmTypeOK
  <2>3. QED
    BY <1>1, <2>1, <2>2, SerialNumbers DEF SerialCounts
<1>9. CASE GuestPrints
  <2>1. /\ serial'.sent = serial.sent + 1 /\ serial'.fifo = serial.fifo + 1 /\ serial'.pty = serial.pty
        /\ serial'.out = serial.out /\ serial'.reached = serial.reached /\ (Drained' => Drained)
    BY <1>9 DEF GuestPrints, EmTypeOK, EmuUnchanged, Drained
  <2>2. QED
    BY <1>1, <2>1, SerialNumbers DEF SerialCounts
<1>10. CASE Flush
  <2>1. /\ serial'.sent = serial.sent /\ serial'.fifo = serial.fifo - 1 /\ serial'.pty = serial.pty + 1
        /\ serial'.out = serial.out /\ serial'.reached = serial.reached /\ (Drained' => Drained)
    BY <1>10 DEF Flush, EmTypeOK, EmuUnchanged, Drained
  <2>2. QED
    BY <1>1, <2>1, SerialNumbers DEF SerialCounts
<1>11. CASE EmuCrashes \/ EmuKilled \/ EmuDies
  <2>1. /\ serial'.sent = serial.sent /\ serial'.fifo = 0 /\ serial'.pty = serial.pty
        /\ serial'.out = serial.out /\ serial'.reached = serial.reached /\ (Drained' => Drained)
    BY <1>11 DEF EmuCrashes, EmuKilled, EmuDies, Ends, EmTypeOK, EmuUnchanged, Drained
  <2>2. QED
    BY <1>1, <2>1, SerialNumbers DEF SerialCounts
<1>12. QED
  BY <1>2, <1>4, <1>5, <1>6, <1>7, <1>8, <1>9, <1>10, <1>11 DEF EmNext, RunStep

\* The timer is stopped, or it has fired and said so.
LEMMA EmStepTimer == ASSUME EmInv, [EmNext]_emVars PROVE TimerSound'
<1> USE DEF EmInv, TimerSound, Cancelled
<1>1. CASE StartTimer \/ Spawn \/ LeaveLoop \/ BochsRound \/ QemuRound \/ Unblock \/ AskRegisters \/ HearMonitor
  BY <1>1 DEF StartTimer, Spawn, LeaveLoop, BochsRound, QemuRound, Unblock, AskRegisters,
     HearMonitor
<1>2. CASE Kill \/ CancelTimer \/ Drain \/ DrainSilent
  BY <1>2 DEF Kill, AfterKill, CancelTimer, Drain, DrainSilent, EmTypeOK
<1>3. CASE Reap \/ Verdict
  BY <1>3 DEF Reap, AfterReap, Verdict, EmTypeOK
<1>4. CASE Alarm
  BY <1>4 DEF Alarm
<1>5. CASE Boot \/ GuestPrints \/ GuestHalts \/ Flush \/ MonitorEchoes \/ MonitorDumps \/ EmuCrashes \/ EmuKilled \/ EmuDies
  BY <1>5 DEF Boot, GuestPrints, GuestHalts, Flush, MonitorEchoes, MonitorDumps, EmuCrashes, EmuKilled,
     EmuDies,
              Ends, EmuUnchanged
<1>6. CASE UNCHANGED emVars
  BY <1>6 DEF emVars
<1>7. QED
  BY <1>1, <1>2, <1>3, <1>4, <1>5, <1>6 DEF EmNext, RunStep

\* What the monitor has said of a halted guest is true, and remains so.
LEMMA EmStepChild == ASSUME EmInv, [EmNext]_emVars PROVE ChildSound'
<1> USE DEF EmInv, ChildSound, Reaped
<1>1. CASE StartTimer \/ Spawn \/ LeaveLoop \/ BochsRound \/ QemuRound \/ Unblock \/ AskRegisters
  BY <1>1 DEF StartTimer, Spawn, LeaveLoop, BochsRound, QemuRound, Unblock, AskRegisters
<1>2. CASE HearMonitor
  BY <1>2 DEF HearMonitor
<1>3. CASE Kill \/ CancelTimer \/ Drain \/ DrainSilent \/ Reap \/ Verdict
  BY <1>3 DEF Kill, AfterKill, CancelTimer, Drain, DrainSilent, Reap, AfterReap, Verdict, EmTypeOK
<1>4. CASE Alarm \/ GuestPrints \/ Flush \/ UNCHANGED emVars
  BY <1>4 DEF Alarm, GuestPrints, Flush, EmuUnchanged, emVars
<1>5. CASE Boot \/ GuestHalts \/ EmuCrashes \/ EmuKilled \/ EmuDies
  BY <1>5 DEF Boot, GuestHalts, EmuCrashes, EmuKilled, EmuDies, Ends, EmuUnchanged, Alive
<1>6. CASE MonitorEchoes
  BY <1>6 DEF MonitorEchoes, EmuUnchanged
<1>7. CASE MonitorDumps
  <2>1. PICK e \in Dumps : ready' = Append(ready, e) /\ (e = "halted" => child = "halted")
    BY <1>7 DEF MonitorDumps, Dumps
  <2>2. ready \in Seq({"echo"} \cup Dumps)
    BY DEF EmTypeOK
  <2>3. \A i \in DOMAIN ready' : ready'[i] = "halted" => child \in {"halted", "ended", "reaped"}
    BY <2>1, <2>2
  <2>4. QED
    BY <1>7, <2>3 DEF MonitorDumps, EmuUnchanged
<1>8. QED
  BY <1>1, <1>2, <1>3, <1>4, <1>5, <1>6, <1>7 DEF EmNext, RunStep

\* The verdict of run() agrees with the exit code.
LEMMA EmStepVerdict == ASSUME EmInv, [EmNext]_emVars PROVE CrashIsReported'
<1> USE DEF EmInv, CrashIsReported
<1>1. CASE phase # "done" /\ phase' # "done"
  BY <1>1
<1>2. CASE Verdict
  BY <1>2 DEF Verdict, TimerSound, BadExit
<1>3. CASE phase = "done"
  <2>1. child = "reaped"
    BY <1>3 DEF ChildSound, Reaped
  <2>2. UNCHANGED << model, phase, exit >> /\ (timer = "fired" => timer' = "fired")
    BY <1>3, <2>1
       DEF EmNext, RunStep, StartTimer, Spawn, LeaveLoop, BochsRound, QemuRound, AskRegisters,
       HearMonitor,
           Kill, CancelTimer, Drain, DrainSilent, Reap, Verdict, Alarm, Unblock, Boot, GuestPrints,
           GuestHalts, Flush, MonitorEchoes, MonitorDumps, EmuCrashes, EmuKilled, EmuDies, Alive,
           EmuUnchanged, emVars
  <2>3. QED
    BY <1>3, <2>2
<1>4. ASSUME phase # "done", ~Verdict PROVE phase' # "done"
  BY <1>4 DEF EmNext, RunStep, StartTimer, Spawn, LeaveLoop, BochsRound, QemuRound, AskRegisters,
              HearMonitor, Kill, AfterKill, CancelTimer, Drain, DrainSilent, Reap, AfterReap, Alarm,
              Unblock, Boot, GuestPrints, GuestHalts, Flush, MonitorEchoes, MonitorDumps,
              EmuCrashes, EmuKilled,
              EmuDies, Ends, EmuUnchanged, emVars
<1>5. QED
  BY <1>1, <1>2, <1>3, <1>4

\* A file is made once and removed at the end, and only the missing timer
\* raises before the emulator has been waited for.
LEMMA EmStepFiles == ASSUME EmInv, [EmNext]_emVars PROVE FilesSound'
<1> USE DEF EmInv, FilesSound
<1>1. CASE StartTimer \/ LeaveLoop \/ BochsRound \/ QemuRound \/ Unblock \/ AskRegisters
  BY <1>1 DEF StartTimer, LeaveLoop, BochsRound, QemuRound, Unblock, AskRegisters
<1>8. CASE Spawn
  <2>1. /\ temps = {"image"} /\ phase' = "loop" /\ model' = model
        /\ temps' = temps \cup (IF model = "qemu" THEN {"errors"} ELSE {"log"})
    BY <1>8 DEF Spawn
  <2>2. model = "bochs" \/ model = "qemu"
    BY DEF EmTypeOK
  <2>3. temps' = {"image", IF model' = "bochs" THEN "log" ELSE "errors"}
    BY <2>1, <2>2
  <2>4. QED
    BY <2>1, <2>3
<1>2. CASE HearMonitor \/ Kill \/ Drain \/ DrainSilent \/ Reap
  BY <1>2 DEF HearMonitor, Kill, AfterKill, Drain, DrainSilent, Reap, AfterReap, EmTypeOK
<1>3. CASE CancelTimer
  BY <1>3 DEF CancelTimer, ChildSound, Reaped, EmTypeOK
<1>4. CASE Verdict
  BY <1>4 DEF Verdict, ChildSound, Reaped, EmTypeOK
<1>5. CASE Alarm \/ GuestPrints \/ Flush \/ MonitorEchoes \/ MonitorDumps \/ UNCHANGED emVars
  BY <1>5 DEF Alarm, GuestPrints, Flush, MonitorEchoes, MonitorDumps, EmuUnchanged, emVars
<1>6. CASE Boot \/ GuestHalts \/ EmuCrashes \/ EmuKilled \/ EmuDies
  BY <1>6 DEF Boot, GuestHalts, EmuCrashes, EmuKilled, EmuDies, Ends, EmuUnchanged, Alive
<1>7. QED
  BY <1>1, <1>2, <1>3, <1>4, <1>5, <1>6, <1>8 DEF EmNext, RunStep

\* Every step keeps the invariant.
LEMMA EmStepInv == ASSUME EmInv, [EmNext]_emVars PROVE EmInv'
BY EmStepType, EmStepSerial, EmStepTimer, EmStepChild, EmStepVerdict, EmStepFiles DEF EmInv

\* Whoever ends a run, and whenever, run() returns what came as far as the pty,
\* raises for a crash and only for that, and leaves behind what LeavesBehind says:
\* whatever the timer, the emulator and the user do, for every size of the pty.
THEOREM RunsReport == EmSpec => []RunReports
<1>1. EmInit => EmInv
  BY EmInitInv
<1>2. EmInv /\ [EmNext]_emVars => EmInv'
  BY EmStepInv
<1>3. EmInv => RunReports
  <2> SUFFICES ASSUME EmInv PROVE RunReports
    OBVIOUS
  <2>1. ReachedIsReturned
    <3> SUFFICES ASSUME phase = "done" PROVE serial.out >= serial.reached
      BY DEF ReachedIsReturned
    <3>1. serial.reached <= serial.out
      BY DEF EmInv, SerialCounts, Drained
    <3>2. QED
      BY <3>1, SerialNumbers DEF EmInv
  <2>2. LeavesBehind /\ TimedOutNeverRaises
    BY DEF EmInv, LeavesBehind, TimedOutNeverRaises, TimerSound, FilesSound, Cancelled, ChildSound,
           Reaped, Over, EmTypeOK
  <2>3. QED
    BY <2>1, <2>2 DEF EmInv, RunReports
<1>4. QED
  BY <1>1, <1>2, <1>3, PTL DEF EmSpec

\* The loop of Qemu.run() takes a guest that still runs for halted only when it
\* reads two answers together, of two different moments: an answer of the monitor
\* may be late, but it is never from the future.
THEOREM HaltsAreReal == EmSpec => HaltIsReal
<1>1. EmInit => EmInv
  BY EmInitInv
<1>2. EmInv /\ [EmNext]_emVars => EmInv'
  BY EmStepInv
<1>3. ASSUME EmInv, [EmNext]_emVars, phase = "listen", phase' = "kill", ready # << >>, ~TwoMixed(ready)
      PROVE  child \notin {"none", "booting", "running"}
  <2>1. HearMonitor
    BY <1>3 DEF EmNext, RunStep, StartTimer, Spawn, LeaveLoop, BochsRound, QemuRound, AskRegisters,
                Kill, CancelTimer, Drain, DrainSilent, Reap, Verdict, Alarm, Unblock, Boot,
                GuestPrints,
                GuestHalts, Flush, MonitorEchoes, MonitorDumps, EmuCrashes, EmuKilled, EmuDies, Ends,
                EmuUnchanged,
                emVars
  <2>2. SaysHalted(ready)
    BY <1>3, <2>1 DEF HearMonitor
  <2>3. PICK i \in DOMAIN ready : /\ ready[i] \in {"locked", "halted"}
                                 /\ \A j \in 1..(i - 1) : ready[j] \notin Dumps
    BY <2>2 DEF SaysHalted, InterruptsOff
  <2>4. PICK k \in DOMAIN ready : ready[k] \in Dumps /\ ready[k] \in {"idle", "halted"}
    BY <2>2 DEF SaysHalted, Halted
  <2>5. \E j \in DOMAIN ready : ready[j] = "halted"
    <3> SUFFICES ASSUME ready[i] = "locked", ready[k] = "idle" PROVE FALSE
      BY <2>3, <2>4
    <3>1. i \in Nat /\ k \in Nat /\ k >= 1
      BY <1>3 DEF EmInv, EmTypeOK
    <3>2. k \notin 1..(i - 1) /\ k # i
      BY <2>3, <2>4
    <3>3. i < k
      BY <3>1, <3>2
    <3>4. QED
      BY <1>3, <3>3 DEF TwoMixed
  <2>6. QED
    BY <1>3, <2>5 DEF EmInv, ChildSound
<1>4. EmInv /\ [EmNext]_emVars
        => [phase = "listen" /\ phase' = "kill" /\ ready # << >> /\ ~TwoMixed(ready)
              => child \notin {"none", "booting", "running"}]_emVars
  BY <1>3
<1>5. QED
  BY <1>1, <1>2, <1>4, PTL DEF EmSpec, HaltIsReal

\* A sequence without its place i.
LEMMA RemovedAt ==
  ASSUME NEW S, NEW s \in Seq(S), NEW i \in 1 .. Len(s)
  PROVE  /\ RemoveAt(s, i) \in Seq(S) /\ Len(RemoveAt(s, i)) = Len(s) - 1
         /\ \A j \in 1 .. Len(s) - 1 : RemoveAt(s, i)[j] = IF j < i THEN s[j] ELSE s[j + 1]
<1>1. PICK a, b : a = SubSeq(s, 1, i - 1) /\ b = SubSeq(s, i + 1, Len(s)) /\ RemoveAt(s, i) = a \o b
  BY DEF RemoveAt
<1>2. Len(s) \in Nat /\ i \in Nat /\ i >= 1 /\ i <= Len(s)
  OBVIOUS
<1>3. a \in Seq(S) /\ Len(a) = i - 1 /\ \A j \in 1 .. i - 1 : a[j] = s[j]
  BY <1>1, <1>2, SMTT(30)
<1>4. b \in Seq(S) /\ Len(b) = Len(s) - i /\ \A j \in 1 .. Len(s) - i : b[j] = s[j + i]
  BY <1>1, <1>2
<1>5. a \o b \in Seq(S) /\ Len(a \o b) = Len(s) - 1
  <2>1. a \in Seq(S) /\ b \in Seq(S) /\ Len(a) + Len(b) = Len(s) - 1
    BY <1>2, <1>3, <1>4
  <2>2. a \o b \in Seq(S) /\ Len(a \o b) = Len(a) + Len(b)
    BY <2>1
  <2>3. QED
    BY <2>1, <2>2
<1>6. ASSUME NEW j \in 1 .. Len(s) - 1 PROVE (a \o b)[j] = IF j < i THEN s[j] ELSE s[j + 1]
  <2>1. CASE j < i
    BY <1>2, <1>3, <1>4, <2>1
  <2>2. CASE ~(j < i)
    <3>1. j - (i - 1) \in 1 .. Len(s) - i /\ (j - (i - 1)) + i = j + 1 /\ j > Len(a) /\ j <= Len(a) + Len(b)
      BY <1>2, <1>3, <1>4, <2>2
    <3>2. (a \o b)[j] = b[j - (i - 1)]
      BY <1>2, <1>3, <1>4, <2>2, <3>1, SMTT(30)
    <3>3. QED
      BY <1>4, <2>2, <3>1, <3>2
  <2>3. QED
    BY <2>1, <2>2
<1>7. QED
  BY <1>1, <1>5, <1>6

\* Induction, for a set of numbers.
LEMMA AllNumbers ==
  ASSUME NEW S, 0 \in S, \A n \in Nat : n \in S => n + 1 \in S PROVE Nat \subseteq S
<1> SUFFICES ASSUME Nat \ S # {} PROVE FALSE
  OBVIOUS
<1> DEFINE R == OpToRel(<, Nat)
<1>1. IsWellFoundedOn(R, Nat)
  BY NatLessThanWellFounded
<1>2. \A i, j \in Nat : i < j => << i, j >> \in R
  BY DEF OpToRel
<1> HIDE DEF R
<1>3. PICK n \in Nat \ S : \A i \in Nat \ S : << i, n >> \notin R
  BY <1>1, WFMin
<1>4. n # 0 /\ n - 1 \in Nat /\ n - 1 < n
  BY <1>3
<1>5. n - 1 \in S
  BY <1>2, <1>3, <1>4
<1>6. QED
  BY <1>3, <1>4, <1>5

-----------------------------------------------------------------------------
\* The circular list, as a sequence of links.

\* From the root along nx, and back along pv, one meets the links q.
Linked(q, nx, pv) ==
  /\ nx[Root0] = IF Len(q) = 0 THEN Root0 ELSE q[1]
  /\ pv[Root0] = IF Len(q) = 0 THEN Root0 ELSE q[Len(q)]
  /\ \A i \in 1 .. Len(q) : /\ nx[q[i]] = IF i = Len(q) THEN Root0 ELSE q[i + 1]
                            /\ pv[q[i]] = IF i = 1 THEN Root0 ELSE q[i - 1]

\* Links are made one after the other, so the list is in order of their numbers.
Rising(q, n) ==
  /\ q \in Seq(Nat) /\ \A i \in 1 .. Len(q) : 1 <= q[i] /\ q[i] <= n
  /\ \A i, j \in 1 .. Len(q) : i < j => q[i] < q[j]

\* A walk of n steps along f.
Walked(f, n, keys) ==
  LET at[i \in 0 .. n] == IF i = 0 THEN Root0 ELSE f[at[i - 1]]
  IN  [i \in 1 .. n |-> keys[at[i]]]

\* f leads from the sentinel along the links q, whose keys are these.
Along(q, f) ==
  /\ Len(q) > 0 => f[Root0] = q[1]
  /\ \A i \in 1 .. Len(q) - 1 : f[q[i]] = q[i + 1]

KeysAt(q, keys) == [i \in 1 .. Len(q) |-> keys[q[i]]]

\* It meets the links of the list.
LEMMA WalkMeets ==
  ASSUME NEW q \in Seq(Nat), NEW f, NEW keys, Along(q, f)
  PROVE  Walked(f, Len(q), keys) = KeysAt(q, keys)
<1> USE DEF Along, KeysAt
<1> DEFINE n == Len(q)
           W(at) == [i \in 0 .. n |-> IF i = 0 THEN Root0 ELSE f[at[i - 1]]]
           A == CHOOSE at : at = W(at)
           B == [i \in 0 .. n |-> IF i = 0 THEN Root0 ELSE q[i]]
<1>1. n \in Nat
  OBVIOUS
<1>2. ASSUME NEW i \in 0 .. n PROVE B[i] = W(B)[i]
  <2>1. CASE i = 0
    BY <2>1
  <2>2. CASE i = 1
    BY <2>2
  <2>3. CASE i > 1
    <3>1. i - 1 \in 0 .. n /\ i - 1 # 0 /\ i - 1 \in 1 .. n - 1 /\ (i - 1) + 1 = i
      BY <2>3
    <3>2. B[i - 1] = q[i - 1] /\ f[q[i - 1]] = q[i]
      BY <3>1
    <3>3. QED
      BY <2>3, <3>2
  <2>4. QED
    BY <2>1, <2>2, <2>3
<1>3. B = W(B)
  BY <1>2
<1>4. A = W(A)
  BY <1>3
<1> DEFINE S == { i \in Nat : i <= n => A[i] = B[i] }
<1> HIDE DEF A, B
<1>5. 0 \in S
  BY <1>1, <1>4 DEF B
<1>6. ASSUME NEW i \in Nat, i \in S PROVE i + 1 \in S
  <2> SUFFICES ASSUME i + 1 <= n PROVE A[i + 1] = B[i + 1]
    BY DEF S
  <2>1. i \in 0 .. n /\ i + 1 \in 0 .. n /\ i + 1 # 0 /\ (i + 1) - 1 = i
    BY <1>1
  <2>2. A[i] = B[i]
    BY <1>6, <2>1 DEF S
  <2>3. A[i + 1] = f[A[i]]
    BY <1>4, <2>1
  <2>4. B[i + 1] = f[B[i]]
    BY <1>3, <2>1
  <2>5. QED
    BY <2>2, <2>3, <2>4
<1>7. Nat \subseteq S
  BY <1>5, <1>6, AllNumbers
<1>8. \A i \in 1 .. n : A[i] = q[i]
  <2>1. ASSUME NEW i \in 1 .. n PROVE A[i] = q[i]
    <3>1. i \in Nat /\ i <= n /\ i \in 0 .. n /\ i # 0
      BY <1>1
    <3>2. A[i] = B[i]
      BY <1>7, <3>1 DEF S
    <3>3. QED
      BY <3>1, <3>2 DEF B
  <2>2. QED
    BY <2>1
<1>9. Walked(f, n, keys) = [i \in 1 .. n |-> keys[A[i]]]
  BY DEF Walked, A
<1>10. QED
  BY <1>8, <1>9

\* A new link at the end.
LEMMA LinkedAtEnd ==
  ASSUME NEW q, NEW n \in Nat, Rising(q, n), NEW nx, NEW pv,
         DOMAIN nx = 0 .. n, DOMAIN pv = 0 .. n, Linked(q, nx, pv)
  PROVE  LET l  == n + 1
             ny == Put1([nx EXCEPT ![pv[Root0]] = l], l, Root0)
             py == Put1([pv EXCEPT ![Root0] = l], l, pv[Root0])
         IN  /\ Rising(Append(q, l), l) /\ Linked(Append(q, l), ny, py)
             /\ DOMAIN ny = 0 .. l /\ DOMAIN py = 0 .. l
<1> DEFINE l  == n + 1
           e  == pv[Root0]
           ny == Put1([nx EXCEPT ![e] = l], l, Root0)
           py == Put1([pv EXCEPT ![Root0] = l], l, e)
           r  == Append(q, l)
           m  == Len(q)
<1>1. q \in Seq(Nat) /\ m \in Nat /\ l \in Nat /\ \A i \in 1 .. m : q[i] \in Nat /\ 1 <= q[i] /\ q[i] <= n /\ q[i] # l
  BY DEF Rising
<1>2. /\ r \in Seq(Nat) /\ Len(r) = m + 1 /\ r[m + 1] = l
      /\ \A i \in 1 .. m : r[i] = q[i]
  BY <1>1
<1>3. e = IF m = 0 THEN 0 ELSE q[m]
  BY DEF Linked, Root0
<1>4. e \in 0 .. n /\ e # l
  BY <1>1, <1>3
<1>5. DOMAIN ny = 0 .. l /\ DOMAIN py = 0 .. l
  BY DEF Put1
<1>6. /\ \A x \in 0 .. n : ny[x] = IF x = e THEN l ELSE nx[x]
      /\ ny[l] = 0
      /\ \A x \in 0 .. n : py[x] = IF x = 0 THEN l ELSE pv[x]
      /\ py[l] = e
  BY <1>1, <1>4 DEF Put1, Root0
<1> DEFINE Q == 1 .. m
           P == 1 .. m + 1
<1>7. /\ \A i \in P : i \in Nat /\ (i = m + 1 \/ i \in Q)
      /\ \A i \in P, j \in P : i < j => i \in Q /\ (j = m + 1 \/ j \in Q)
      /\ m + 1 \in P /\ 1 \in P /\ (m # 0 => 1 \in Q /\ m \in Q) /\ 0 \in 0 .. n
      /\ Q = 1 .. m /\ P = 1 .. m + 1 /\ l \in Nat /\ n < l /\ 1 <= l /\ (m = 0 => m + 1 = 1)
  BY <1>1
<1>8. \A i \in Q : q[i] \in Nat /\ 1 <= q[i] /\ q[i] <= n /\ r[i] = q[i]
  BY <1>1, <1>2
<1>9. \A i, j \in Q : i < j => q[i] < q[j]
  BY DEF Rising
<1> HIDE DEF l, e, ny, py, r, Q, P
<1>10. Rising(r, l)
  <2>1. \A i \in P : 1 <= r[i] /\ r[i] <= l
    BY <1>2, <1>7, <1>8
  <2>2. \A i, j \in P : i < j => r[i] < r[j]
    <3>1. ASSUME NEW i \in P, NEW j \in P, i < j PROVE r[i] < r[j]
      <4>1. i \in Q /\ (j = m + 1 \/ j \in Q)
        BY <1>7, <3>1
      <4>2. CASE j = m + 1
        BY <1>2, <1>7, <1>8, <4>1, <4>2, SMTT(30)
      <4>3. CASE j \in Q
        BY <1>8, <1>9, <3>1, <4>1, <4>3
      <4>4. QED
        BY <4>1, <4>2, <4>3
    <3>2. QED
      BY <3>1
  <2>3. QED
    BY <1>2, <1>7, <2>1, <2>2 DEF Rising, P
<1>11. Linked(r, ny, py)
  <2>1. ny[0] = r[1]
    <3>1. CASE m = 0
      BY <1>2, <1>3, <1>6, <1>7, <3>1
    <3>2. CASE m # 0
      <4>1. e # 0 /\ 0 \in 0 .. n /\ 1 \in 1 .. m
        BY <1>1, <1>3, <3>2
      <4>2. QED
        BY <1>2, <1>6, <3>2, <4>1 DEF Linked, Root0
    <3>3. QED
      BY <3>1, <3>2
  <2>2. py[0] = r[m + 1]
    BY <1>2, <1>6, <1>7
  <2>3. ASSUME NEW i \in 1 .. m + 1
        PROVE  /\ ny[r[i]] = IF i = m + 1 THEN 0 ELSE r[i + 1]
               /\ py[r[i]] = IF i = 1 THEN 0 ELSE r[i - 1]
    <3>1. CASE i = m + 1
      BY <1>1, <1>2, <1>3, <1>6, <3>1, SMTT(30)
    <3>2. CASE i # m + 1
      <4>1. i \in 1 .. m /\ r[i] = q[i] /\ q[i] \in 0 .. n /\ q[i] # 0
        BY <1>1, <1>2, <3>2, SMTT(30)
      <4>2. /\ nx[q[i]] = IF i = m THEN 0 ELSE q[i + 1]
            /\ pv[q[i]] = IF i = 1 THEN 0 ELSE q[i - 1]
        BY <4>1 DEF Linked, Root0
      <4>3. py[r[i]] = IF i = 1 THEN 0 ELSE r[i - 1]
        <5>1. i # 1 => i - 1 \in 1 .. m
          BY <4>1
        <5>2. i # 1 => r[i - 1] = q[i - 1]
          BY <1>2, <5>1
        <5>3. py[q[i]] = pv[q[i]]
          BY <1>6, <4>1
        <5>4. QED
          BY <4>1, <4>2, <5>2, <5>3
      <4>4. CASE i = m
        <5>1. r[i] = e /\ e \in 0 .. n
          BY <1>3, <1>4, <4>1, <4>4
        <5>2. ny[r[i]] = r[i + 1]
          BY <1>2, <1>6, <4>4, <5>1
        <5>3. QED
          BY <3>2, <4>3, <5>2
      <4>5. CASE i # m
        <5>1. m # 0 /\ m \in 1 .. m /\ i < m /\ e = q[m] /\ i + 1 \in 1 .. m
          BY <1>1, <1>3, <4>1, <4>5
        <5>2. q[i] # e
          BY <1>1, <4>1, <5>1 DEF Rising
        <5>3. QED
          BY <1>2, <1>6, <3>2, <4>1, <4>2, <4>3, <4>5, <5>1, <5>2
      <4>6. QED
        BY <4>4, <4>5
    <3>3. QED
      BY <3>1, <3>2
  <2>4. QED
    <3>1. Len(r) # 0 /\ Len(r) = m + 1
      BY <1>1, <1>2
    <3>2. QED
      BY <2>1, <2>2, <2>3, <3>1 DEF Linked, Root0
<1>12. QED
  BY <1>5, <1>10, <1>11 DEF l, e, ny, py, r

\* The links around one are joined.
LEMMA UnlinkedAt ==
  ASSUME NEW q, NEW n \in Nat, Rising(q, n), NEW nx, NEW pv,
         DOMAIN nx = 0 .. n, DOMAIN pv = 0 .. n, Linked(q, nx, pv), NEW i \in 1 .. Len(q)
  PROVE  LET ny == [nx EXCEPT ![pv[q[i]]] = nx[q[i]]]
             py == [pv EXCEPT ![nx[q[i]]] = pv[q[i]]]
         IN  /\ Rising(RemoveAt(q, i), n) /\ Linked(RemoveAt(q, i), ny, py)
             /\ DOMAIN ny = 0 .. n /\ DOMAIN py = 0 .. n
<1> DEFINE a  == pv[q[i]]
           b  == nx[q[i]]
           ny == [nx EXCEPT ![a] = b]
           py == [pv EXCEPT ![b] = a]
           r  == RemoveAt(q, i)
           m  == Len(q)
<1>1. q \in Seq(Nat) /\ m \in Nat /\ i \in Nat /\ 1 <= i /\ i <= m
      /\ \A j \in 1 .. m : q[j] \in Nat /\ 1 <= q[j] /\ q[j] <= n
  BY DEF Rising
<1>2. /\ r \in Seq(Nat) /\ Len(r) = m - 1
      /\ \A j \in 1 .. m - 1 : r[j] = IF j < i THEN q[j] ELSE q[j + 1]
  BY <1>1, RemovedAt
<1>3. \A j, k \in 1 .. m : q[j] = q[k] => j = k
  BY <1>1 DEF Rising
<1>4. a = IF i = 1 THEN 0 ELSE q[i - 1]
  BY DEF Linked, Root0
<1>5. b = IF i = m THEN 0 ELSE q[i + 1]
  BY DEF Linked, Root0
<1>6. DOMAIN ny = 0 .. n /\ DOMAIN py = 0 .. n
  OBVIOUS
<1>7. /\ \A x \in 0 .. n : ny[x] = IF x = a THEN b ELSE nx[x]
      /\ \A x \in 0 .. n : py[x] = IF x = b THEN a ELSE pv[x]
  OBVIOUS
<1>8. /\ nx[0] = q[1] /\ pv[0] = q[m] /\ 0 \in 0 .. n
      /\ \A j \in 1 .. m : q[j] \in 0 .. n /\ q[j] # 0
  BY <1>1 DEF Linked, Root0
<1>9. \A j \in 1 .. m : /\ nx[q[j]] = IF j = m THEN 0 ELSE q[j + 1]
                        /\ pv[q[j]] = IF j = 1 THEN 0 ELSE q[j - 1]
  BY DEF Linked, Root0
<1> DEFINE P == 1 .. m - 1
           Q == 1 .. m
           X(j) == IF j < i THEN j ELSE j + 1
<1>10. /\ \A j \in P : j \in Nat /\ X(j) \in Q /\ X(j) # i /\ j >= 1 /\ j <= m - 1
       /\ P = 1 .. m - 1 /\ Q = 1 .. m /\ m - 1 \in Nat
  BY <1>1
<1>11. \A j \in P : r[j] = q[X(j)]
  BY <1>2
<1>12. \A j, k \in P : j < k => X(j) < X(k)
  BY <1>1
<1> HIDE DEF a, b, ny, py, r, P, Q
<1>13. Rising(r, n)
  <2>1. \A j \in P : 1 <= r[j] /\ r[j] <= n
    BY <1>1, <1>10, <1>11
  <2>2. \A j, k \in P : j < k => r[j] < r[k]
    <3>1. ASSUME NEW j \in P, NEW k \in P, j < k PROVE r[j] < r[k]
      <4>1. PICK x, y : x = X(j) /\ y = X(k)
        OBVIOUS
      <4>2. x \in 1 .. m /\ y \in 1 .. m /\ x < y /\ r[j] = q[x] /\ r[k] = q[y]
        BY <1>10, <1>11, <1>12, <3>1, <4>1
      <4>3. QED
        BY <4>2 DEF Rising
    <3>2. QED
      BY <3>1
  <2>3. QED
    BY <1>2, <1>10, <2>1, <2>2 DEF Rising, P
<1>14. ny[0] = IF m - 1 = 0 THEN 0 ELSE r[1]
  <2>1. CASE i = 1
    <3>1. ny[0] = b
      BY <1>4, <1>7, <1>8, <2>1
    <3>2. m - 1 # 0 => 1 \in 1 .. m - 1 /\ r[1] = q[2] /\ i # m
      BY <1>1, <1>2, <2>1, SMTT(30)
    <3>3. m - 1 = 0 => i = m
      BY <1>1, <2>1
    <3>4. QED
      BY <1>5, <2>1, <3>1, <3>2, <3>3
  <2>2. CASE i # 1
    <3>1. i - 1 \in 1 .. m /\ a # 0 /\ m - 1 # 0 /\ 1 \in 1 .. m - 1 /\ 1 < i
      BY <1>1, <1>4, <1>8, <2>2, SMTT(30)
    <3>2. QED
      BY <1>2, <1>7, <1>8, <3>1
  <2>3. QED
    BY <2>1, <2>2
<1>15. py[0] = IF m - 1 = 0 THEN 0 ELSE r[m - 1]
  <2>1. CASE i = m
    <3>1. m - 1 # 0 => m - 1 \in 1 .. m - 1 /\ m - 1 < i
      BY <1>1, <2>1
    <3>2. py[0] = a /\ (m - 1 = 0 <=> i = 1)
      BY <1>1, <1>5, <1>7, <1>8, <2>1
    <3>3. m - 1 # 0 => r[m - 1] = q[i - 1]
      BY <1>2, <2>1, <3>1
    <3>4. QED
      BY <1>4, <3>2, <3>3
  <2>2. CASE i # m
    <3>1. i + 1 \in 1 .. m /\ b # 0 /\ m - 1 # 0 /\ m - 1 \in 1 .. m - 1 /\ ~(m - 1 < i) /\ (m - 1) + 1 = m
      BY <1>1, <1>5, <1>8, <2>2, SMTT(30)
    <3>2. QED
      BY <1>2, <1>7, <1>8, <3>1, SMTT(30)
  <2>3. QED
    BY <2>1, <2>2
<1>16. ASSUME NEW j \in 1 .. m - 1
       PROVE  /\ ny[r[j]] = IF j = m - 1 THEN 0 ELSE r[j + 1]
              /\ py[r[j]] = IF j = 1 THEN 0 ELSE r[j - 1]
  <2>1. j \in P
    BY <1>10
  <2>2. PICK x \in 1 .. m : x = X(j) /\ r[j] = q[x] /\ x # i
    BY <1>10, <1>11, <2>1
  <2>3. q[x] \in 0 .. n /\ q[x] # 0
    BY <1>8
  <2>4. ny[q[x]] = IF j = m - 1 THEN 0 ELSE r[j + 1]
    <3>1. CASE x = i - 1
      <4>1. i # 1 /\ a = q[x] /\ j = i - 1 /\ j < i
        BY <1>1, <1>4, <2>2, <3>1, SMTT(30)
      <4>2. ny[q[x]] = b
        BY <1>7, <2>3, <4>1
      <4>3. j = m - 1 <=> i = m
        BY <1>1, <4>1
      <4>4. i # m => j + 1 \in 1 .. m - 1 /\ ~(j + 1 < i) /\ (j + 1) + 1 = i + 1
        BY <1>1, <4>1
      <4>5. QED
        BY <1>2, <1>5, <4>2, <4>3, <4>4
    <3>2. CASE x # i - 1
      <4>1. q[x] # a
        <5>1. i # 1 => i - 1 \in 1 .. m
          BY <1>1
        <5>2. QED
          BY <1>3, <1>4, <2>3, <3>2, <5>1
      <4>2. ny[q[x]] = IF x = m THEN 0 ELSE q[x + 1]
        BY <1>7, <1>9, <2>3, <4>1
      <4>3. x = m <=> j = m - 1
        BY <1>1, <2>2, <3>2
      <4>4. ASSUME j # m - 1 PROVE r[j + 1] = q[x + 1]
        <5>1. j + 1 \in 1 .. m - 1
          BY <1>1, <4>4
        <5>2. j < i => j + 1 < i
          BY <1>1, <2>2, <3>2
        <5>3. X(j + 1) = x + 1
          BY <1>1, <2>2, <5>1, <5>2, SMTT(30)
        <5>4. QED
          BY <1>10, <1>11, <5>1, <5>3
      <4>5. QED
        BY <4>2, <4>3, <4>4
    <3>3. QED
      BY <3>1, <3>2
  <2>5. py[q[x]] = IF j = 1 THEN 0 ELSE r[j - 1]
    <3>1. CASE x = i + 1
      <4>1. i # m /\ b = q[x] /\ j = i /\ ~(j < i)
        BY <1>1, <1>5, <2>2, <3>1
      <4>2. py[q[x]] = a
        BY <1>7, <2>3, <4>1
      <4>3. i # 1 => j - 1 \in 1 .. m - 1 /\ j - 1 < i /\ j - 1 = i - 1
        BY <1>1, <4>1
      <4>4. QED
        BY <1>2, <1>4, <4>1, <4>2, <4>3
    <3>2. CASE x # i + 1
      <4>1. q[x] # b
        <5>1. i # m => i + 1 \in 1 .. m
          BY <1>1
        <5>2. QED
          BY <1>3, <1>5, <2>3, <3>2, <5>1
      <4>2. py[q[x]] = IF x = 1 THEN 0 ELSE q[x - 1]
        BY <1>7, <1>9, <2>3, <4>1
      <4>3. x = 1 <=> j = 1
        BY <1>1, <2>2, <3>2
      <4>4. ASSUME j # 1 PROVE r[j - 1] = q[x - 1]
        <5>1. j - 1 \in 1 .. m - 1
          BY <1>1, <4>4
        <5>2. ~(j < i) => ~(j - 1 < i)
          BY <1>1, <2>2, <3>2
        <5>3. X(j - 1) = x - 1
          BY <1>1, <2>2, <5>1, <5>2
        <5>4. QED
          BY <1>10, <1>11, <5>1, <5>3
      <4>5. QED
        BY <4>2, <4>3, <4>4
    <3>3. QED
      BY <3>1, <3>2
  <2>6. QED
    BY <2>2, <2>4, <2>5
<1>17. Linked(r, ny, py)
  BY <1>1, <1>2, <1>14, <1>15, <1>16 DEF Linked, Root0
<1>18. QED
  BY <1>6, <1>13, <1>17 DEF a, b, ny, py, r

-----------------------------------------------------------------------------
\* The inductive invariant of the ordered dictionary: the links of the map are
\* a list, in the order in which they were made, and a generator stands on
\* links, perhaps of the past, that lead to all those it has still to give.

\* Links are numbered; a field of one holds a link, or is empty.
OdTypeOK ==
  /\ keyAt \in Seq(DictKeys) /\ LinksMade <= MaxLinks
  /\ linkPrev \in [0 .. LinksMade -> 0 .. LinksMade \cup {Gone}]
  /\ linkNext \in [0 .. LinksMade -> 0 .. LinksMade \cup {Gone}]
  /\ iter.at \in 0 .. LinksMade
  /\ iter.given \in Seq(DictKeys)
  /\ iter \in [at : Nat, way : {"none", "forward", "back", "items", "done", "failed"},
               given : Seq(DictKeys), stay : SUBSET DictKeys]

\* Each key that is there has a link, which holds the key.
MapSound ==
  /\ DOMAIN odMap = DOMAIN odDict /\ DOMAIN odDict \subseteq DictKeys /\ IsFiniteSet(DOMAIN odDict)
  /\ \A k \in DOMAIN odMap : odMap[k] \in 1 .. LinksMade /\ keyAt[odMap[k]] = k

\* The list q holds the links of the map, and no others.
IsList(q) ==
  /\ Rising(q, LinksMade) /\ Linked(q, linkNext, linkPrev)
  /\ Len(q) = Cardinality(DOMAIN odDict)
  /\ \A i \in 1 .. Len(q) : keyAt[q[i]] \in DOMAIN odMap /\ odMap[keyAt[q[i]]] = q[i]
  /\ \A k \in DOMAIN odMap : \E i \in 1 .. Len(q) : q[i] = odMap[k]

\* Going forwards, or back from the root, one comes to link m after link l.
Ahead(back, l, m) == IF back THEN m # 0 /\ (l = 0 \/ m < l) ELSE l < m

\* R is closed under f, the field that the generator follows, and on from each
\* of its links lie the links of all the keys that stay, as far as they are ahead.
Leads(R, back, f, stay) ==
  /\ R \subseteq 0 .. LinksMade /\ 0 \in R
  /\ \A k \in DOMAIN odMap : odMap[k] \in R
  /\ \A l \in R : f[l] \in R /\ (f[l] # 0 => Ahead(back, l, f[l]))
  /\ \A l \in R : l # 0 /\ keyAt[l] \in stay => odMap[keyAt[l]] = l
  /\ \A l \in R, k \in stay : Ahead(back, l, odMap[k]) =>
       f[l] # 0 /\ (f[l] = odMap[k] \/ Ahead(back, f[l], odMap[k]))

\* The places at which k was given.
Gave(g, k) == { i \in DOMAIN g : g[i] = k }
Once(g, k) == \E i \in DOMAIN g : Gave(g, k) = {i}

\* The field that the generator follows.
Follows == IF iter.way = "back" THEN linkPrev ELSE linkNext

\* What a generator has given, and that it will give the rest.
IterSound ==
  /\ iter.stay \subseteq DOMAIN odDict
  /\ iter.way = "done" => \A k \in iter.stay : Once(iter.given, k)
  /\ iter.way \in {"forward", "back", "items"} /\ iter.stay # {} =>
       /\ \E R \in SUBSET Nat : iter.at \in R /\ Leads(R, iter.way = "back", Follows, iter.stay)
       /\ \A k \in iter.stay : IF Ahead(iter.way = "back", iter.at, odMap[k])
                               THEN Gave(iter.given, k) = {} ELSE Once(iter.given, k)

\* The inductive invariant: the list exists.
OdInv == OdTypeOK /\ MapSound /\ (\E q \in Seq(Nat) : IsList(q)) /\ IterSound

\* The keys of the links q.
KeysOf(q) == [i \in 1 .. Len(q) |-> keyAt[q[i]]]

\* What the links of the list point at.
LEMMA ListLinks ==
  ASSUME NEW q \in Seq(Nat), IsList(q)
  PROVE  /\ Len(q) = 0 => linkNext[0] = 0 /\ linkPrev[0] = 0
         /\ Len(q) # 0 => linkNext[0] = q[1] /\ linkPrev[0] = q[Len(q)]
         /\ \A i \in 1 .. Len(q) : i = Len(q) => linkNext[q[i]] = 0
         /\ \A i \in 1 .. Len(q) : i # Len(q) => linkNext[q[i]] = q[i + 1]
         /\ \A i \in 1 .. Len(q) : i = 1 => linkPrev[q[i]] = 0
         /\ \A i \in 1 .. Len(q) : i # 1 => linkPrev[q[i]] = q[i - 1]
<1>1. Linked(q, linkNext, linkPrev)
  BY DEF IsList
<1>2. QED
  BY <1>1 DEF Linked, Root0

\* Walking forwards one meets the list.
LEMMA WalksForward ==
  ASSUME NEW q \in Seq(Nat), IsList(q) PROVE Walk(linkNext) = KeysOf(q)
<1>1. Len(q) > 0 => linkNext[Root0] = q[1]
  BY ListLinks DEF Root0
<1>2. \A i \in 1 .. Len(q) - 1 : linkNext[q[i]] = q[i + 1]
  BY ListLinks
<1>3. Along(q, linkNext)
  BY <1>1, <1>2 DEF Along
<1>4. Walk(linkNext) = Walked(linkNext, Cardinality(DOMAIN odDict), keyAt)
  BY DEF Walk, Walked
<1>5. Walked(linkNext, Len(q), keyAt) = KeysAt(q, keyAt)
  BY <1>3, WalkMeets
<1>6. QED
  BY <1>4, <1>5 DEF IsList, KeysOf, KeysAt

\* Walking back one meets it from its end.
LEMMA WalksBack ==
  ASSUME NEW q \in Seq(Nat), IsList(q)
  PROVE  Walk(linkPrev) = [i \in 1 .. Len(q) |-> keyAt[q[(Len(q) - i) + 1]]]
<1> DEFINE r == [i \in 1 .. Len(q) |-> q[(Len(q) - i) + 1]]
<1>1. r \in Seq(Nat) /\ Len(r) = Len(q)
  <2>1. Len(q) \in Nat /\ \A i \in 1 .. Len(q) : (Len(q) - i) + 1 \in 1 .. Len(q)
    OBVIOUS
  <2>2. r \in [1 .. Len(q) -> Nat]
    BY <2>1
  <2>3. QED
    BY <2>1, <2>2
<1>2. \A i \in 1 .. Len(q) : r[i] = q[(Len(q) - i) + 1]
  OBVIOUS
<1> HIDE DEF r
<1>3. Len(r) > 0 => linkPrev[Root0] = r[1]
  BY <1>1, <1>2, ListLinks DEF Root0
<1>4. \A i \in 1 .. Len(r) - 1 : linkPrev[r[i]] = r[i + 1]
  <2>1. ASSUME NEW i \in 1 .. Len(r) - 1 PROVE linkPrev[r[i]] = r[i + 1]
    <3>1. PICK j : j = (Len(q) - i) + 1
      OBVIOUS
    <3>2. j \in 1 .. Len(q) /\ j # 1 /\ j - 1 = (Len(q) - (i + 1)) + 1 /\ i \in 1 .. Len(q) /\ i + 1 \in 1 .. Len(q)
      BY <1>1, <3>1
    <3>3. linkPrev[q[j]] = q[j - 1]
      BY <3>2 DEF IsList, Linked
    <3>4. QED
      BY <1>2, <3>1, <3>2, <3>3
  <2>2. QED
    BY <2>1
<1>5. Along(r, linkPrev)
  BY <1>3, <1>4 DEF Along
<1>6. Walked(linkPrev, Len(r), keyAt) = KeysAt(r, keyAt)
  BY <1>1, <1>5, WalkMeets
<1>7. Walk(linkPrev) = Walked(linkPrev, Cardinality(DOMAIN odDict), keyAt)
  BY DEF Walk, Walked
<1>8. QED
  BY <1>1, <1>2, <1>6, <1>7 DEF IsList, KeysAt

\* The invariant implies that the list is sound both ways.
LEMMA InvListIsDoubly == ASSUME OdInv PROVE ListIsDoubly
<1>1. PICK q \in Seq(Nat) : IsList(q)
  BY DEF OdInv
<1>2. Walk(linkNext) = KeysOf(q)
  BY <1>1, WalksForward
<1>3. PICK b : b = Walk(linkPrev) /\ b = [i \in 1 .. Len(q) |-> keyAt[q[(Len(q) - i) + 1]]]
  BY <1>1, WalksBack
<1>4. Len(b) = Len(q)
  <2>1. \A i \in 1 .. Len(q) : q[(Len(q) - i) + 1] \in 1 .. LinksMade
    <3>1. ASSUME NEW i \in 1 .. Len(q) PROVE q[(Len(q) - i) + 1] \in 1 .. LinksMade
      <4>1. (Len(q) - i) + 1 \in 1 .. Len(q)
        OBVIOUS
      <4>2. QED
        BY <1>1, <4>1 DEF IsList, Rising
    <3>2. QED
      BY <3>1
  <2>2. \A i \in 1 .. Len(q) : keyAt[q[(Len(q) - i) + 1]] \in DictKeys
    BY <2>1, SMTT(30) DEF OdInv, OdTypeOK, LinksMade
  <2>3. b \in [1 .. Len(q) -> DictKeys]
    BY <1>3, <2>2
  <2>4. QED
    BY <2>3
<1>5. Reverse(b) = KeysOf(q)
  <2>1. \A i \in 1 .. Len(q) : b[(Len(q) - i) + 1] = keyAt[q[i]]
    <3>1. ASSUME NEW i \in 1 .. Len(q) PROVE b[(Len(q) - i) + 1] = keyAt[q[i]]
      <4>1. PICK j : j = (Len(q) - i) + 1
        OBVIOUS
      <4>2. j \in 1 .. Len(q) /\ (Len(q) - j) + 1 = i
        BY <4>1
      <4>3. QED
        BY <1>3, <4>1, <4>2
    <3>2. QED
      BY <3>1
  <2>2. QED
    BY <1>4, <2>1 DEF Reverse, KeysOf
<1>6. ASSUME NEW k \in DOMAIN odMap
      PROVE linkPrev[linkNext[odMap[k]]] = odMap[k] /\ linkNext[linkPrev[odMap[k]]] = odMap[k]
  <2>1. PICK i \in 1 .. Len(q) : q[i] = odMap[k]
    BY <1>1 DEF IsList
  <2>2. linkPrev[linkNext[q[i]]] = q[i]
    <3>1. CASE i = Len(q)
      BY <1>1, <3>1, ListLinks
    <3>2. CASE i # Len(q)
      <4>1. i + 1 \in 1 .. Len(q) /\ i + 1 # 1 /\ (i + 1) - 1 = i
        BY <3>2
      <4>2. QED
        BY <1>1, <3>2, <4>1, ListLinks
    <3>3. QED
      BY <3>1, <3>2
  <2>3. linkNext[linkPrev[q[i]]] = q[i]
    <3>1. CASE i = 1
      BY <1>1, <3>1, ListLinks
    <3>2. CASE i # 1
      <4>1. i - 1 \in 1 .. Len(q) /\ i - 1 # Len(q) /\ (i - 1) + 1 = i
        BY <3>2
      <4>2. QED
        BY <1>1, <3>2, <4>1, ListLinks
    <3>3. QED
      BY <3>1, <3>2
  <2>4. QED
    BY <2>1, <2>2, <2>3
<1>7. QED
  BY <1>2, <1>3, <1>5, <1>6 DEF ListIsDoubly, OdInv, MapSound

\* A generator that has ended gave what it should.
LEMMA InvStayersAreGiven == ASSUME OdInv PROVE StayersAreGiven
<1> SUFFICES ASSUME iter.way = "done", NEW k \in iter.stay
             PROVE  Cardinality({i \in DOMAIN iter.given : iter.given[i] = k}) = 1
  BY DEF StayersAreGiven
<1>1. PICK i : Gave(iter.given, k) = {i}
  BY DEF OdInv, IterSound, Once
<1>2. Cardinality({i}) = 1
  BY FS_Singleton
<1>3. QED
  BY <1>1, <1>2 DEF Gave

\* An empty dictionary has an empty list.
LEMMA OdInvInit == ASSUME OdInit PROVE OdInv
<1>1. LinksMade = 0 /\ keyAt = << >> /\ DOMAIN odMap = {} /\ DOMAIN odDict = {}
  BY DEF OdInit, LinksMade
<1>2. linkPrev \in [0 .. 0 -> {0}] /\ linkNext = linkPrev
  BY DEF OdInit, Root0
<1>3. OdTypeOK
  BY <1>1, <1>2, OrderedDictAssumption DEF OdInit, OdTypeOK, NoIter, Root0
<1>4. IsFiniteSet({}) /\ Cardinality({}) = 0
  BY FS_EmptySet
<1>5. MapSound
  BY <1>1, <1>4 DEF MapSound
<1>6. IsList(<< >>)
  <2>1. linkPrev[0] = 0 /\ linkNext[0] = 0
    BY <1>2
  <2>2. << >> \in Seq(Nat) /\ Len(<< >>) = 0
    OBVIOUS
  <2>3. QED
    BY <1>1, <1>4, <2>1, <2>2 DEF IsList, Linked, Rising, Root0
<1>7. IterSound
  BY <1>1 DEF IterSound, OdInit, NoIter
<1>8. << >> \in Seq(Nat)
  OBVIOUS
<1>9. QED
  BY <1>3, <1>5, <1>6, <1>7, <1>8 DEF OdInv

\* Before d is taken out, something points at it; afterwards that points at
\* what d pointed at, and what lies ahead of it still does.
LEMMA LeadsOn ==
  ASSUME OdTypeOK, MapSound, MapSound', NEW k \in DOMAIN odMap, NEW R, NEW back \in BOOLEAN, NEW f, NEW g,
         NEW stay \in SUBSET DOMAIN odMap, Leads(R, back, f, stay), UNCHANGED keyAt,
         odMap' = Drop(odMap, k), NEW a \in DOMAIN f,
         f \in [0 .. LinksMade -> 0 .. LinksMade \cup {Gone}],
         f[a] = odMap[k], a \in R,
         g = [f EXCEPT ![a] = f[odMap[k]]]
  PROVE  Leads(R, back, g, stay \ {k})'
<1> DEFINE d == odMap[k]
<1>1. R \subseteq Nat /\ d \in R /\ d \in Nat /\ d # 0 /\ a \in Nat /\ R \subseteq 0 .. LinksMade /\ 0 \in R
  BY DEF Leads, MapSound, OdTypeOK, LinksMade
<1>2. \A x \in R : g[x] = IF x = a THEN f[d] ELSE f[x]
  BY <1>1
<1>3. \A x \in R : f[x] \in R /\ f[x] \in Nat /\ (f[x] # 0 => Ahead(back, x, f[x]))
  BY <1>1 DEF Leads
<1>4. \A j \in DOMAIN odMap : odMap[j] \in R /\ odMap[j] \in Nat /\ odMap[j] # 0
  BY <1>1 DEF Leads, MapSound
<1>5. \A j \in DOMAIN odMap : j # k => odMap[j] # d
  BY DEF MapSound
<1>6. DOMAIN odMap' = DOMAIN odMap \ {k} /\ \A j \in DOMAIN odMap : j # k => odMap'[j] = odMap[j]
  BY DEF Drop
<1>7. LinksMade' = LinksMade
  BY DEF LinksMade
<1>8. \A x, y, z \in Nat : Ahead(back, x, y) /\ Ahead(back, y, z) => Ahead(back, x, z)
  BY DEF Ahead
<1>9. \A x \in R, j \in stay : Ahead(back, x, odMap[j]) =>
        f[x] # 0 /\ (f[x] = odMap[j] \/ Ahead(back, f[x], odMap[j]))
  BY DEF Leads
<1>10. \A x \in R : x # 0 /\ keyAt[x] \in stay => odMap[keyAt[x]] = x
  BY DEF Leads
<1>11. f[a] = d
  OBVIOUS
<1> HIDE DEF d
<1>12. \A x \in R : g[x] \in R /\ (g[x] # 0 => Ahead(back, x, g[x]))
  <2>1. ASSUME NEW x \in R PROVE g[x] \in R /\ (g[x] # 0 => Ahead(back, x, g[x]))
    <3>1. CASE x # a
      BY <1>2, <1>3, <3>1
    <3>2. CASE x = a
      <4>1. g[x] = f[d] /\ f[d] \in R /\ f[d] \in Nat /\ (f[d] # 0 => Ahead(back, d, f[d])) /\ Ahead(back, a, d)
        BY <1>1, <1>2, <1>3, <1>11, <3>2
      <4>2. QED
        BY <1>1, <1>8, <3>2, <4>1
    <3>3. QED
      BY <3>1, <3>2
  <2>2. QED
    BY <2>1
<1>13. ASSUME NEW x \in R, NEW j \in stay \ {k}, Ahead(back, x, odMap'[j])
       PROVE  g[x] # 0 /\ (g[x] = odMap'[j] \/ Ahead(back, g[x], odMap'[j]))
  <2>1. odMap'[j] = odMap[j] /\ odMap[j] # d
    BY <1>5, <1>6
  <2>2. CASE x # a
    BY <1>2, <1>9, <1>13, <2>1, <2>2
  <2>3. CASE x = a
    <3>1. Ahead(back, d, odMap[j])
      BY <1>9, <1>11, <1>13, <2>1, <2>3
    <3>2. f[d] # 0 /\ (f[d] = odMap[j] \/ Ahead(back, f[d], odMap[j]))
      BY <1>1, <1>9, <3>1
    <3>3. QED
      BY <1>2, <2>1, <2>3, <3>2
  <2>4. QED
    BY <2>2, <2>3
<1>14. \A x \in R : x # 0 /\ keyAt'[x] \in stay \ {k} => odMap'[keyAt'[x]] = x
  BY <1>6, <1>10
<1>15. QED
  BY <1>1, <1>4, <1>6, <1>7, <1>12, <1>13, <1>14 DEF Leads

\* A deletion joins the links around the one of the key.
LEMMA DelItemKeeps ==
  ASSUME OdInv, NEW k \in DictKeys, DelItem(k)
  PROVE  OdInv' /\ \A q \in Seq(Nat) : \A i \in 1 .. Len(q) :
                     IsList(q) /\ q[i] = odMap[k] => IsList(RemoveAt(q, i))' /\ RemoveAt(q, i) \in Seq(Nat)
<1> DEFINE n == LinksMade
           d == odMap[k]
<1>1. /\ k \in DOMAIN odDict /\ k \in DOMAIN odMap /\ n \in Nat /\ d \in 1 .. n
      /\ keyAt' = keyAt /\ LinksMade' = LinksMade /\ MapSound /\ OdTypeOK /\ IterSound
  BY DEF OdInv, MapSound, OdTypeOK, LinksMade, DelItem
<1>2. /\ linkNext' = [linkNext EXCEPT ![linkPrev[d]] = linkNext[d]]
      /\ linkPrev' = [linkPrev EXCEPT ![linkNext[d]] = linkPrev[d]]
      /\ odMap' = Drop(odMap, k) /\ odDict' = Drop(odDict, k)
      /\ iter' = [iter EXCEPT !.stay = iter.stay \ {k}]
  BY DEF DelItem, Unlink, Leaves
<1>3. /\ linkNext \in [0 .. n -> 0 .. n \cup {Gone}] /\ linkPrev \in [0 .. n -> 0 .. n \cup {Gone}]
      /\ d \in 0 .. n
  BY <1>1 DEF OdTypeOK
<1>4. /\ iter'.at = iter.at /\ iter'.way = iter.way /\ iter'.given = iter.given /\ iter'.stay = iter.stay \ {k}
      /\ iter' \in [at : Nat, way : {"none", "forward", "back", "items", "done", "failed"},
                    given : Seq(DictKeys), stay : SUBSET DictKeys]
  BY <1>1, <1>2 DEF OdTypeOK
<1>5. OdTypeOK'
  <2>1. /\ linkNext' \in [0 .. n -> 0 .. n \cup {Gone}] /\ linkPrev' \in [0 .. n -> 0 .. n \cup {Gone}]
    BY <1>2, <1>3
  <2>2. QED
    BY <1>1, <1>4, <2>1 DEF OdTypeOK
<1>6. /\ DOMAIN odMap' = DOMAIN odMap \ {k} /\ \A j \in DOMAIN odMap : j # k => odMap'[j] = odMap[j]
      /\ DOMAIN odDict' = DOMAIN odDict \ {k} /\ DOMAIN odMap = DOMAIN odDict
  BY <1>1, <1>2 DEF Drop, MapSound
<1>7. IsFiniteSet(DOMAIN odDict') /\ Cardinality(DOMAIN odDict') = Cardinality(DOMAIN odDict) - 1
  BY <1>1, <1>6, FS_RemoveElement DEF MapSound
<1>8. MapSound'
  <2>1. \A j \in DOMAIN odMap' : odMap'[j] \in 1 .. LinksMade' /\ keyAt'[odMap'[j]] = j
    BY <1>1, <1>6 DEF MapSound
  <2>2. DOMAIN odMap' = DOMAIN odDict' /\ DOMAIN odDict' \subseteq DictKeys
    BY <1>1, <1>6 DEF MapSound
  <2>3. QED
    BY <1>7, <2>1, <2>2 DEF MapSound
<1>9. ASSUME NEW q \in Seq(Nat), NEW i \in 1 .. Len(q), IsList(q), q[i] = d
      PROVE  IsList(RemoveAt(q, i))' /\ RemoveAt(q, i) \in Seq(Nat)
  <2> DEFINE r == RemoveAt(q, i)
             m == Len(q)
  <2>1. Rising(q, n) /\ Linked(q, linkNext, linkPrev) /\ DOMAIN linkNext = 0 .. n /\ DOMAIN linkPrev = 0 .. n
    BY <1>3, <1>9 DEF IsList
  <2>2. Rising(r, n) /\ Linked(r, linkNext', linkPrev')
    <3>1. LET ny == [linkNext EXCEPT ![linkPrev[q[i]]] = linkNext[q[i]]]
              py == [linkPrev EXCEPT ![linkNext[q[i]]] = linkPrev[q[i]]]
          IN  Rising(r, n) /\ Linked(r, ny, py)
      <4>1. n \in Nat
        BY <1>1
      <4> HIDE DEF n, d
      <4>2. QED
        BY <2>1, <4>1, UnlinkedAt
    <3>2. QED
      BY <1>2, <1>9, <3>1
  <2>3. /\ r \in Seq(Nat) /\ Len(r) = m - 1 /\ m \in Nat /\ i \in Nat /\ 1 <= i /\ i <= m
        /\ \A j \in 1 .. m - 1 : r[j] = IF j < i THEN q[j] ELSE q[j + 1]
    <3>1. m \in Nat /\ i \in Nat /\ 1 <= i /\ i <= m
      OBVIOUS
    <3>2. /\ r \in Seq(Nat) /\ Len(r) = m - 1
          /\ \A j \in 1 .. m - 1 : r[j] = IF j < i THEN q[j] ELSE q[j + 1]
      <4> HIDE DEF n, d
      <4>1. QED
        BY RemovedAt
    <3>3. QED
      BY <3>1, <3>2
  <2> HIDE DEF r
  <2>4. Len(r) = Cardinality(DOMAIN odDict')
    BY <1>7, <1>9, <2>3 DEF IsList
  <2>5. \A j \in 1 .. m : keyAt[q[j]] \in DOMAIN odMap /\ odMap[keyAt[q[j]]] = q[j] /\ (j # i => q[j] # d)
    <3>1. \A j \in 1 .. m : keyAt[q[j]] \in DOMAIN odMap /\ odMap[keyAt[q[j]]] = q[j]
      BY <1>9 DEF IsList
    <3>2. \A j \in 1 .. m : j # i => q[j] # q[i]
      BY <2>1, <2>3 DEF Rising
    <3>3. QED
      BY <1>9, <3>1, <3>2
  <2>6. ASSUME NEW j \in 1 .. m - 1 PROVE keyAt[r[j]] \in DOMAIN odMap' /\ odMap'[keyAt[r[j]]] = r[j]
    <3>1. PICK x \in 1 .. m : r[j] = q[x] /\ x # i
      <4> HIDE DEF m, n, d
      <4>1. CASE j < i
        <5>1. j \in 1 .. m /\ j # i
          BY <2>3, <4>1
        <5>2. QED
          BY <2>3, <4>1, <5>1
      <4>2. CASE ~(j < i)
        <5>1. j + 1 \in 1 .. m /\ j + 1 # i
          BY <2>3, <4>2
        <5>2. QED
          BY <2>3, <4>2, <5>1
      <4>3. QED
        BY <4>1, <4>2
    <3>2. keyAt[q[x]] # k
      BY <2>5, <3>1
    <3>3. QED
      BY <1>6, <2>5, <3>1, <3>2
  <2>7. ASSUME NEW j \in DOMAIN odMap' PROVE \E x \in 1 .. m - 1 : r[x] = odMap'[j]
    <3>1. PICK y \in 1 .. m : q[y] = odMap[j]
      BY <1>6, <1>9 DEF IsList
    <3>2. y # i
      BY <1>1, <1>6, <1>9, <3>1 DEF MapSound
    <3>3. CASE y < i
      <4>1. y \in 1 .. m - 1
        BY <2>3, <3>3
      <4>2. QED
        BY <1>6, <2>3, <3>1, <3>3, <4>1
    <3>4. CASE y > i
      <4>1. y - 1 \in 1 .. m - 1 /\ ~(y - 1 < i) /\ (y - 1) + 1 = y
        BY <2>3, <3>4
      <4>2. QED
        BY <1>6, <2>3, <3>1, <4>1
    <3>5. QED
      <4>1. y \in Nat /\ i \in Nat
        BY <2>3
      <4>2. y < i \/ y > i
        BY <3>2, <4>1
      <4>3. QED
        BY <3>3, <3>4, <4>2
  <2>8. IsList(r)'
    <3>1. Len(r) = m - 1
      BY <2>3
    <3>2. Rising(r, LinksMade') /\ Linked(r, linkNext', linkPrev')
      BY <1>1, <2>2
    <3>3. QED
      BY <1>1, <2>4, <2>6, <2>7, <3>1, <3>2 DEF IsList
  <2>9. QED
    BY <2>3, <2>8 DEF r
<1>10. PICK q \in Seq(Nat) : IsList(q) /\ \E i \in 1 .. Len(q) : q[i] = d
  BY <1>1 DEF OdInv, IsList
<1>11. PICK i \in 1 .. Len(q) : q[i] = d
  BY <1>10
<1>12. (\E r \in Seq(Nat) : IsList(r))'
  BY <1>9, <1>10, <1>11
<1>13. iter'.stay \subseteq DOMAIN odDict'
  BY <1>1, <1>4, <1>6 DEF IterSound
<1>14. iter'.way = "done" => \A j \in iter'.stay : Once(iter'.given, j)
  BY <1>1, <1>4 DEF IterSound
<1>15. ASSUME iter'.way \in {"forward", "back", "items"}, iter'.stay # {}
       PROVE  /\ \E R \in SUBSET Nat : iter'.at \in R /\ Leads(R, iter.way = "back", Follows, iter.stay)'
              /\ \A j \in iter'.stay : IF Ahead(iter'.way = "back", iter'.at, odMap'[j])
                                       THEN Gave(iter'.given, j) = {} ELSE Once(iter'.given, j)
  <2>1. iter.way \in {"forward", "back", "items"} /\ iter.stay # {} /\ iter.stay \subseteq DOMAIN odMap
    BY <1>1, <1>4, <1>6, <1>15 DEF IterSound
  <2>2. PICK R \in SUBSET Nat : iter.at \in R /\ Leads(R, iter.way = "back", Follows, iter.stay)
    BY <1>1, <2>1 DEF IterSound
  <2>3. \A j \in iter'.stay : odMap'[j] = odMap[j] /\ j \in iter.stay
    BY <1>4, <1>6, <2>1
  <2>4. \A j \in iter'.stay : IF Ahead(iter'.way = "back", iter'.at, odMap'[j])
                              THEN Gave(iter'.given, j) = {} ELSE Once(iter'.given, j)
    BY <1>1, <1>4, <2>1, <2>3 DEF IterSound
  <2>5. PICK back \in BOOLEAN : back = (iter.way = "back")
    OBVIOUS
  <2>6. PICK f, g, a : /\ f = Follows /\ g = Follows'
                       /\ a = IF back THEN linkNext[d] ELSE linkPrev[d]
    OBVIOUS
  <2>7. g = [f EXCEPT ![a] = f[d]] /\ f \in [0 .. n -> 0 .. n \cup {Gone}]
    BY <1>2, <1>3, <1>4, <2>5, <2>6 DEF Follows
  <2>8. a \in R /\ f[a] = d
    <3>1. linkNext[linkPrev[d]] = d /\ linkPrev[linkNext[d]] = d
      BY <1>1, InvListIsDoubly DEF ListIsDoubly
    <3>2. f[a] = d
      BY <2>5, <2>6, <3>1 DEF Follows
    <3>3. \A j \in 1 .. Len(q) : q[j] \in R
      <4>1. \A j \in DOMAIN odMap : odMap[j] \in R
        BY <2>2 DEF Leads
      <4>2. QED
        BY <1>10, <4>1 DEF IsList
    <3>4. 0 \in R
      BY <2>2 DEF Leads
    <3>5. linkNext[d] \in R /\ linkPrev[d] \in R
      <4>1. linkNext[d] \in R
        <5>1. i # Len(q) => i + 1 \in 1 .. Len(q)
          OBVIOUS
        <5>2. i = Len(q) => linkNext[q[i]] = 0
          BY <1>10, ListLinks
        <5>3. i # Len(q) => linkNext[q[i]] = q[i + 1]
          BY <1>10, ListLinks
        <5>4. QED
          BY <1>11, <3>3, <3>4, <5>1, <5>2, <5>3
      <4>2. linkPrev[d] \in R
        <5>1. i # 1 => i - 1 \in 1 .. Len(q)
          OBVIOUS
        <5>2. i = 1 => linkPrev[q[i]] = 0
          BY <1>10, ListLinks
        <5>3. i # 1 => linkPrev[q[i]] = q[i - 1]
          BY <1>10, ListLinks
        <5>4. QED
          BY <1>11, <3>3, <3>4, <5>1, <5>2, <5>3
      <4>3. QED
        BY <4>1, <4>2
    <3>6. QED
      BY <2>5, <2>6, <3>2, <3>5
  <2>9. PICK st : st = iter.stay /\ iter'.stay = st \ {k}
    BY <1>4
  <2>10. Leads(R, back, f, st) /\ st \in SUBSET DOMAIN odMap
    BY <2>1, <2>2, <2>5, <2>6, <2>9
  <2>11. Leads(R, back, g, st \ {k})'
    <3>1. a \in DOMAIN f
      BY <1>1, <2>2, <2>7, <2>8 DEF Leads
    <3>2. QED
      BY <1>1, <1>2, <1>8, <2>7, <2>8, <2>10, <3>1, LeadsOn
  <2>12. Leads(R, iter.way = "back", Follows, iter.stay)'
    <3>1. PICK u : u = st \ {k}
      OBVIOUS
    <3>2. Leads(R, back, g, u)'
      BY <2>11, <3>1
    <3>3. g = Follows' /\ u = iter'.stay /\ back = (iter'.way = "back")
      BY <1>4, <2>5, <2>6, <2>9, <3>1
    <3>4. QED
      BY <3>2, <3>3 DEF Leads
  <2>13. QED
    BY <1>4, <2>2, <2>4, <2>12
<1>16. IterSound'
  BY <1>4, <1>13, <1>14, <1>15 DEF IterSound
<1>17. QED
  BY <1>5, <1>8, <1>9, <1>12, <1>16 DEF OdInv

\* A pop is a deletion of the first or the last key.
LEMMA PopItemDeletes ==
  ASSUME OdInv, NEW last \in BOOLEAN, PopItem(last) PROVE \E k \in DictKeys : DelItem(k)
<1>1. PICK q \in Seq(Nat) : IsList(q)
  BY DEF OdInv
<1>2. PICK l : /\ l = (IF last THEN linkPrev[Root0] ELSE linkNext[Root0])
               /\ Unlink(l) /\ odMap' = Drop(odMap, keyAt[l]) /\ odDict' = Drop(odDict, keyAt[l])
               /\ Leaves(keyAt[l])
  BY DEF PopItem
<1>3. Len(q) # 0
  <2>1. PICK k \in DOMAIN odMap : TRUE
    BY DEF PopItem, OdInv, MapSound
  <2>2. PICK i \in 1 .. Len(q) : q[i] = odMap[k]
    BY <1>1 DEF IsList
  <2>3. QED
    BY <2>2
<1>4. PICK i \in 1 .. Len(q) : l = q[i]
  <2>1. 1 \in 1 .. Len(q) /\ Len(q) \in 1 .. Len(q)
    BY <1>3
  <2>2. l = q[1] \/ l = q[Len(q)]
    BY <1>1, <1>2, <1>3, ListLinks DEF Root0
  <2>3. QED
    BY <2>1, <2>2
<1>5. PICK k : k = keyAt[l]
  OBVIOUS
<1>6. k \in DOMAIN odMap /\ odMap[k] = l
  BY <1>1, <1>4, <1>5 DEF IsList
<1>7. k \in DictKeys /\ k \in DOMAIN odDict
  BY <1>6 DEF OdInv, MapSound
<1>8. DelItem(k)
  BY <1>2, <1>5, <1>6, <1>7 DEF DelItem, PopItem
<1>9. QED
  BY <1>7, <1>8

\* clear() leaves the root alone, and generators without a key to give.
LEMMA ClearKeeps == ASSUME OdInv, Clear PROVE OdInv' /\ IsList(<< >>)'
<1> DEFINE n == LinksMade
<1>1. /\ OdTypeOK /\ LinksMade' = n /\ keyAt' = keyAt /\ n \in Nat
      /\ DOMAIN odMap' = {} /\ DOMAIN odDict' = {}
  BY DEF OdInv, OdTypeOK, LinksMade, Clear
<1>2. /\ linkNext \in [0 .. n -> 0 .. n \cup {Gone}] /\ linkPrev \in [0 .. n -> 0 .. n \cup {Gone}]
  BY <1>1 DEF OdTypeOK
<1>3. /\ linkNext' \in [0 .. n -> 0 .. n \cup {Gone}] /\ linkPrev' \in [0 .. n -> 0 .. n \cup {Gone}]
      /\ linkNext'[0] = 0 /\ linkPrev'[0] = 0
  BY <1>1, <1>2 DEF Clear, Root0
<1>4. /\ iter'.at = iter.at /\ iter'.way = iter.way /\ iter'.given = iter.given /\ iter'.stay = {}
      /\ iter' \in [at : Nat, way : {"none", "forward", "back", "items", "done", "failed"},
                    given : Seq(DictKeys), stay : SUBSET DictKeys]
  BY <1>1 DEF OdTypeOK, Clear
<1>5. OdTypeOK'
  BY <1>1, <1>3, <1>4 DEF OdTypeOK
<1>6. IsFiniteSet({}) /\ Cardinality({}) = 0
  BY FS_EmptySet
<1>7. MapSound'
  BY <1>1, <1>6 DEF MapSound
<1>8. IsList(<< >>)' /\ << >> \in Seq(Nat)
  <2>1. << >> \in Seq(Nat) /\ Len(<< >>) = 0
    OBVIOUS
  <2>2. QED
    BY <1>1, <1>3, <1>6, <2>1 DEF IsList, Linked, Rising, Root0
<1>9. IterSound'
  BY <1>4 DEF IterSound
<1>10. QED
  BY <1>5, <1>7, <1>8, <1>9 DEF OdInv

-----------------------------------------------------------------------------
\* g is the field f with the new link l at the end: the root points back at it,
\* or the last link forward.
PointsToNew(R, back, f, g, l) ==
  \E e \in R : /\ e = 0 \/ back = FALSE
               /\ ~back => f[e] = 0
               /\ \A x \in R : g[x] = IF x = e THEN l ELSE f[x]
               /\ g[l] = IF back THEN f[0] ELSE 0

\* A new link at the end leads on, too.
LEMMA LeadsToNew ==
  ASSUME OdTypeOK, MapSound, NEW k \in DictKeys, k \notin DOMAIN odMap, NEW R, NEW l, l = LinksMade + 1, NEW back \in BOOLEAN,
         NEW f, NEW g, NEW stay \in SUBSET DOMAIN odMap, Leads(R, back, f, stay),
         keyAt' = Append(keyAt, k), odMap' = Put1(odMap, k, l),
         PointsToNew(R, back, f, g, l)
  PROVE  Leads(R \cup {l}, back, g, stay)'
<1> DEFINE n == LinksMade
<1>1. PICK Q : Q = R \cup {l}
  OBVIOUS
<1>2. /\ n \in Nat /\ l \in Nat /\ R \subseteq 0 .. n /\ R \subseteq Nat /\ 0 \in R /\ l # 0
      /\ \A x \in R : x < l /\ x # l
      /\ LinksMade' = l /\ keyAt'[l] = k /\ \A x \in R : x # 0 => keyAt'[x] = keyAt[x]
  BY DEF Leads, OdTypeOK, LinksMade
<1>3. /\ DOMAIN odMap' = DOMAIN odMap \cup {k} /\ odMap'[k] = l
      /\ \A j \in DOMAIN odMap : odMap'[j] = odMap[j] /\ j # k
  BY DEF Put1
<1>4. \A j \in DOMAIN odMap : odMap[j] \in R /\ odMap[j] # 0
  BY DEF Leads, MapSound
<1>5. \A x \in R : f[x] \in R /\ (f[x] # 0 => Ahead(back, x, f[x]))
  BY DEF Leads
<1>6. \A x \in R, j \in stay : Ahead(back, x, odMap[j]) =>
        f[x] # 0 /\ (f[x] = odMap[j] \/ Ahead(back, f[x], odMap[j]))
  BY DEF Leads
<1>7. \A x \in R : x # 0 /\ keyAt[x] \in stay => odMap[keyAt[x]] = x
  BY DEF Leads
<1>8. PICK e \in R : /\ e = 0 \/ back = FALSE
                     /\ ~back => f[e] = 0
                     /\ \A x \in R : g[x] = IF x = e THEN l ELSE f[x]
                     /\ g[l] = IF back THEN f[0] ELSE 0
  BY DEF PointsToNew
<1>9. g[e] = l /\ g[l] = (IF back THEN f[0] ELSE 0) /\ \A x \in R : x # e => g[x] = f[x]
  BY <1>8
<1>10. Q \subseteq 0 .. l /\ 0 \in Q /\ R \subseteq Q /\ l \in Q /\ \A x \in Q : x \in R \/ x = l
  <2>1. /\ R \subseteq Q /\ l \in Q /\ \A x \in Q : x \in R \/ x = l
    BY <1>1
  <2>2. l \in 0 .. l /\ \A x \in 0 .. n : x \in 0 .. l
    BY <1>2
  <2>3. QED
    BY <1>2, <2>1, <2>2
<1> HIDE DEF n
<1>11. ASSUME NEW x \in Q PROVE g[x] \in Q /\ (g[x] # 0 => Ahead(back, x, g[x]))
  <2>1. CASE x = l
    BY <1>2, <1>5, <1>9, <1>10, <2>1 DEF Ahead
  <2>2. CASE x = e
    BY <1>2, <1>9, <1>10, <1>8, <2>2 DEF Ahead
  <2>3. CASE x # l /\ x # e
    BY <1>5, <1>9, <1>10, <2>3
  <2>4. QED
    BY <2>1, <2>2, <2>3
<1>12. ASSUME NEW x \in Q, NEW j \in stay, Ahead(back, x, odMap'[j])
      PROVE  g[x] # 0 /\ (g[x] = odMap'[j] \/ Ahead(back, g[x], odMap'[j]))
  <2>1. odMap'[j] = odMap[j] /\ odMap[j] \in R /\ odMap[j] # 0 /\ odMap[j] < l /\ odMap[j] \in Nat
    BY <1>2, <1>3, <1>4
  <2>2. CASE x = l
    <3>1. CASE back
      <4>1. Ahead(back, 0, odMap[j])
        BY <2>1, <3>1 DEF Ahead
      <4>2. QED
        BY <1>2, <1>6, <1>9, <2>1, <2>2, <3>1, <4>1
    <3>2. CASE ~back
      BY <1>2, <1>12, <2>1, <2>2, <3>2 DEF Ahead
    <3>3. QED
      BY <3>1, <3>2
  <2>3. CASE x = e
    <3>1. CASE back
      BY <1>2, <1>9, <1>8, <2>1, <2>3, <3>1 DEF Ahead
    <3>2. CASE ~back
      BY <1>6, <1>12, <1>8, <2>1, <2>3, <3>2
    <3>3. QED
      BY <3>1, <3>2
  <2>4. CASE x # l /\ x # e
    BY <1>6, <1>9, <1>12, <1>10, <2>1, <2>4
  <2>5. QED
    BY <2>2, <2>3, <2>4
<1>13. \A x \in Q : x # 0 /\ keyAt'[x] \in stay => odMap'[keyAt'[x]] = x
  <2>1. k \notin stay
    OBVIOUS
  <2>2. QED
    BY <1>2, <1>3, <1>7, <1>10, <2>1, ZenonT(60)
<1>14. \A j \in DOMAIN odMap' : odMap'[j] \in Q
  BY <1>3, <1>4, <1>10
<1>15. Leads(Q, back, g, stay)'
  <2>1. Q \subseteq 0 .. LinksMade' /\ 0 \in Q
    BY <1>2, <1>10
  <2>2. \A x \in Q : g[x] \in Q /\ (g[x] # 0 => Ahead(back, x, g[x]))
    BY <1>11
  <2>3. \A x \in Q, j \in stay : Ahead(back, x, odMap'[j]) =>
          g[x] # 0 /\ (g[x] = odMap'[j] \/ Ahead(back, g[x], odMap'[j]))
    BY <1>12
  <2>4. QED
    BY <1>13, <1>14, <2>1, <2>2, <2>3 DEF Leads
<1>16. QED
  BY <1>1, <1>15

\* Setting a key that is there changes its value only.
LEMMA SetOldKeeps ==
  ASSUME OdInv, NEW k \in DictKeys, NEW v, k \in DOMAIN odDict, SetItem(k, v)
  PROVE  OdInv' /\ \A q : IsList(q) => IsList(q)'
<1>1. UNCHANGED <<odMap, linkPrev, linkNext, keyAt, iter>> /\ DOMAIN odDict' = DOMAIN odDict
  BY DEF SetItem, Put1
<1>2. LinksMade' = LinksMade /\ Follows' = Follows
  BY <1>1 DEF LinksMade, Follows
<1>3. \A q : IsList(q) => IsList(q)'
  BY <1>1, <1>2 DEF IsList
<1>4. OdTypeOK'
  BY <1>1, <1>2 DEF OdInv, OdTypeOK
<1>5. MapSound'
  BY <1>1, <1>2 DEF OdInv, MapSound
<1>6. ASSUME NEW R, Leads(R, iter.way = "back", Follows, iter.stay)
      PROVE  Leads(R, iter.way = "back", Follows, iter.stay)'
  BY <1>1, <1>2, <1>6 DEF Leads
<1>7. IterSound'
  BY <1>1, <1>2, <1>6 DEF OdInv, IterSound
<1>8. QED
  BY <1>3, <1>4, <1>5, <1>7 DEF OdInv

\* A new key gets a new link at the end of the list.
LEMMA SetNewKeeps ==
  ASSUME OdInv, NEW k \in DictKeys, NEW v, k \notin DOMAIN odDict, SetItem(k, v), NEW l, l = LinksMade + 1
  PROVE  OdInv' /\ \A q \in Seq(Nat) : IsList(q) => IsList(Append(q, l))' /\ Append(q, l) \in Seq(Nat)
<1> DEFINE n == LinksMade
           e == linkPrev[0]
<1>1. /\ OdTypeOK /\ MapSound /\ IterSound /\ DOMAIN odMap = DOMAIN odDict /\ k \notin DOMAIN odMap
      /\ n \in Nat /\ l \in Nat /\ l = n + 1 /\ l <= MaxLinks /\ keyAt' = Append(keyAt, k) /\ iter' = iter
      /\ odMap' = Put1(odMap, k, l) /\ odDict' = Put1(odDict, k, v)
  BY OrderedDictAssumption DEF OdInv, OdTypeOK, MapSound, LinksMade, SetItem
<1>2. /\ linkPrev' = Put1([linkPrev EXCEPT ![0] = l], l, e)
      /\ linkNext' = Put1([linkNext EXCEPT ![e] = l], l, 0)
  BY <1>1 DEF SetItem, LinkAtEnd, Root0
<1>3. /\ linkNext \in [0 .. n -> 0 .. n \cup {Gone}] /\ linkPrev \in [0 .. n -> 0 .. n \cup {Gone}]
      /\ 0 .. l = 0 .. n \cup {l} /\ 0 .. n \subseteq 0 .. l
  BY <1>1 DEF OdTypeOK
<1>4. LinksMade' = l /\ keyAt' \in Seq(DictKeys) /\ keyAt'[l] = k /\ \A x \in 1 .. n : keyAt'[x] = keyAt[x]
  BY <1>1 DEF OdTypeOK, LinksMade
<1>5. e \in 0 .. n
  <2>1. PICK q \in Seq(Nat) : IsList(q)
    BY DEF OdInv
  <2>2. Len(q) # 0 => Len(q) \in 1 .. Len(q)
    BY <2>1
  <2>3. \A i \in 1 .. Len(q) : q[i] \in 0 .. n
    <3>1. q \in Seq(Nat) /\ \A i \in 1 .. Len(q) : 1 <= q[i] /\ q[i] <= n
      BY <2>1 DEF IsList, Rising
    <3>2. ASSUME NEW i \in 1 .. Len(q) PROVE q[i] \in 0 .. n
      <4>1. q[i] \in Nat /\ q[i] <= n
        BY <3>1
      <4>2. QED
        BY <1>1, <4>1
    <3>3. QED
      BY <3>2
  <2>4. QED
    BY <1>1, <2>1, <2>2, <2>3, ListLinks
<1> HIDE DEF n, e
<1>6. OdTypeOK'
  <2>1. /\ linkNext' \in [0 .. l -> 0 .. l \cup {Gone}] /\ linkPrev' \in [0 .. l -> 0 .. l \cup {Gone}]
    BY <1>1, <1>2, <1>3, <1>5 DEF Put1
  <2>2. iter'.at \in 0 .. l
    BY <1>1, <1>3 DEF OdTypeOK, n
  <2>3. QED
    BY <1>1, <1>4, <2>1, <2>2 DEF OdTypeOK
<1>7. /\ DOMAIN odMap' = DOMAIN odMap \cup {k} /\ odMap'[k] = l
      /\ \A j \in DOMAIN odMap : odMap'[j] = odMap[j] /\ j # k
      /\ DOMAIN odDict' = DOMAIN odDict \cup {k}
  BY <1>1 DEF Put1
<1>8. IsFiniteSet(DOMAIN odDict') /\ Cardinality(DOMAIN odDict') = Cardinality(DOMAIN odDict) + 1
  BY <1>1, <1>7, FS_AddElement DEF MapSound
<1>9. MapSound'
  <2>1. \A j \in DOMAIN odMap : odMap[j] \in 1 .. n /\ keyAt[odMap[j]] = j
    BY <1>1 DEF MapSound, n
  <2>2. l \in 1 .. l /\ \A x \in 1 .. n : x \in 1 .. l
    BY <1>1
  <2>3. \A j \in DOMAIN odMap' : odMap'[j] \in 1 .. l /\ keyAt'[odMap'[j]] = j
    BY <1>4, <1>7, <2>1, <2>2
  <2>4. DOMAIN odMap' = DOMAIN odDict' /\ DOMAIN odDict' \subseteq DictKeys
    BY <1>1, <1>7 DEF MapSound
  <2>5. QED
    BY <1>4, <1>8, <2>3, <2>4 DEF MapSound
<1>10. ASSUME NEW q \in Seq(Nat), IsList(q) PROVE IsList(Append(q, l))' /\ Append(q, l) \in Seq(Nat)
  <2>1. Rising(q, n) /\ Linked(q, linkNext, linkPrev) /\ DOMAIN linkNext = 0 .. n /\ DOMAIN linkPrev = 0 .. n
    BY <1>3, <1>10 DEF IsList, n
  <2> DEFINE r == Append(q, l)
             m == Len(q)
  <2>2. Rising(r, l) /\ Linked(r, linkNext', linkPrev')
    <3>1. LET ny == Put1([linkNext EXCEPT ![linkPrev[Root0]] = n + 1], n + 1, Root0)
              py == Put1([linkPrev EXCEPT ![Root0] = n + 1], n + 1, linkPrev[Root0])
          IN  Rising(Append(q, n + 1), n + 1) /\ Linked(Append(q, n + 1), ny, py)
      BY <1>1, <2>1, LinkedAtEnd
    <3>2. QED
      BY <1>1, <1>2, <3>1 DEF Root0, e
  <2>3. r \in Seq(Nat) /\ Len(r) = m + 1 /\ r[m + 1] = l /\ m \in Nat /\ \A i \in 1 .. m : r[i] = q[i]
    BY <1>1
  <2>4. \A i \in 1 .. m : q[i] \in 1 .. n
    BY <2>1, <1>1 DEF Rising
  <2>5. \A i \in 1 .. m : keyAt[q[i]] \in DOMAIN odMap /\ odMap[keyAt[q[i]]] = q[i]
    BY <1>10 DEF IsList
  <2>6. \A j \in DOMAIN odMap : \E i \in 1 .. m : q[i] = odMap[j]
    BY <1>10 DEF IsList
  <2>7. Len(r) = Cardinality(DOMAIN odDict')
    BY <1>8, <1>10, <2>3 DEF IsList
  <2>8. \A i \in 1 .. m + 1 : i \in 1 .. m \/ i = m + 1
    BY <2>3
  <2>9. m + 1 \in 1 .. m + 1 /\ 1 .. m \subseteq 1 .. m + 1
    BY <2>3
  <2> HIDE DEF r
  <2>10. \A i \in 1 .. m + 1 : keyAt'[r[i]] \in DOMAIN odMap' /\ odMap'[keyAt'[r[i]]] = r[i]
    <3>1. ASSUME NEW i \in 1 .. m PROVE keyAt'[r[i]] \in DOMAIN odMap' /\ odMap'[keyAt'[r[i]]] = r[i]
      <4>1. r[i] = q[i] /\ keyAt'[q[i]] = keyAt[q[i]]
        BY <1>4, <2>3, <2>4
      <4>2. QED
        BY <1>7, <2>5, <4>1
    <3>2. keyAt'[r[m + 1]] \in DOMAIN odMap' /\ odMap'[keyAt'[r[m + 1]]] = r[m + 1]
      BY <1>4, <1>7, <2>3
    <3>3. QED
      BY <2>8, <3>1, <3>2
  <2>11. \A j \in DOMAIN odMap' : \E i \in 1 .. m + 1 : r[i] = odMap'[j]
    BY <1>7, <2>3, <2>6, <2>9
  <2>12. IsList(r)'
    <3>1. Len(r) = m + 1
      BY <2>3
    <3>2. Rising(r, LinksMade') /\ Linked(r, linkNext', linkPrev')
      BY <1>4, <2>2
    <3>3. QED
      BY <2>7, <2>10, <2>11, <3>1, <3>2 DEF IsList
  <2>13. QED
    BY <2>3, <2>12 DEF r
<1>11. (\E q \in Seq(Nat) : IsList(q))'
  BY <1>10 DEF OdInv
<1>12. iter'.stay \subseteq DOMAIN odDict'
  BY <1>1, <1>7 DEF IterSound
<1>13. iter'.way = "done" => \A j \in iter'.stay : Once(iter'.given, j)
  BY <1>1 DEF IterSound
<1>14. ASSUME iter.way \in {"forward", "back", "items"}, iter.stay # {}
       PROVE  /\ \E R \in SUBSET Nat : iter'.at \in R /\ Leads(R, iter.way = "back", Follows, iter.stay)'
              /\ \A j \in iter'.stay : IF Ahead(iter'.way = "back", iter'.at, odMap'[j])
                                       THEN Gave(iter'.given, j) = {} ELSE Once(iter'.given, j)
  <2>1. PICK R \in SUBSET Nat : iter.at \in R /\ Leads(R, iter.way = "back", Follows, iter.stay)
    BY <1>1, <1>14 DEF IterSound
  <2>2. \A j \in iter'.stay : odMap'[j] = odMap[j] /\ j \in iter.stay
    BY <1>1, <1>7 DEF IterSound
  <2>3. \A j \in iter'.stay : IF Ahead(iter'.way = "back", iter'.at, odMap'[j])
                              THEN Gave(iter'.given, j) = {} ELSE Once(iter'.given, j)
    BY <1>1, <1>14, <2>2 DEF IterSound
  <2>4. PICK back, st : back \in BOOLEAN /\ back = (iter.way = "back") /\ st = iter.stay /\ st \in SUBSET DOMAIN odMap
    BY <1>1 DEF IterSound
  <2>5. PICK f, g, a : f = Follows /\ g = Follows' /\ a = IF back THEN 0 ELSE e
    OBVIOUS
  <2>6. PICK S : S = R \cup {l}
    OBVIOUS
  <2>7. Leads(R, back, f, st)
    BY <2>1, <2>4, <2>5
  <2>8. 0 \in R /\ R \subseteq 0 .. n
    BY <2>7 DEF Leads, n
  <2>9. e \in R /\ linkNext[e] = 0
    <3>1. PICK q \in Seq(Nat) : IsList(q)
      BY DEF OdInv
    <3>2. CASE Len(q) = 0
      BY <3>1, <3>2, <2>8, ListLinks DEF e
    <3>3. CASE Len(q) # 0
      <4>1. Len(q) \in 1 .. Len(q) /\ e = q[Len(q)] /\ linkNext[q[Len(q)]] = 0
        BY <3>1, <3>3, ListLinks DEF e
      <4>2. \A j \in DOMAIN odMap : odMap[j] \in R
        BY <2>7 DEF Leads
      <4>3. q[Len(q)] \in R
        BY <3>1, <4>1, <4>2 DEF IsList
      <4>4. QED
        BY <4>1, <4>3
    <3>4. QED
      BY <3>2, <3>3
  <2>10. /\ a \in R /\ (a = 0 \/ back = FALSE) /\ (~back => f[a] = 0)
         /\ \A x \in R : g[x] = IF x = a THEN l ELSE f[x]
         /\ g[l] = IF back THEN f[0] ELSE 0
    <3>1. l \notin 0 .. n
      BY <1>1
    <3>2. CASE back
      <4>1. f = linkPrev /\ g = linkPrev' /\ a = 0 /\ e = f[0]
        BY <1>1, <2>4, <2>5, <3>2 DEF Follows, e
      <4>2. QED
        BY <1>2, <1>3, <2>8, <3>1, <3>2, <4>1 DEF Put1
    <3>3. CASE ~back
      <4>1. f = linkNext /\ g = linkNext' /\ a = e
        BY <1>1, <2>4, <2>5, <3>3 DEF Follows
      <4>2. QED
        BY <1>2, <1>3, <2>8, <2>9, <3>1, <3>3, <4>1 DEF Put1
    <3>4. QED
      BY <3>2, <3>3
  <2>11. Leads(R \cup {l}, back, g, st)'
    <3>1. /\ OdTypeOK /\ MapSound /\ k \notin DOMAIN odMap /\ keyAt' = Append(keyAt, k)
          /\ odMap' = Put1(odMap, k, l)
      BY <1>1
    <3>2. back \in BOOLEAN /\ st \in SUBSET DOMAIN odMap
      BY <2>4
    <3>3. PointsToNew(R, back, f, g, l)
      BY <2>10 DEF PointsToNew
    <3>4. QED
      BY <2>7, <3>1, <3>2, <3>3, LeadsToNew
  <2>12. Leads(S, back, g, st)'
    BY <2>6, <2>11
  <2>13. g = Follows' /\ st = iter'.stay /\ back = (iter'.way = "back")
    BY <1>1, <2>4, <2>5
  <2>14. Leads(S, iter.way = "back", Follows, iter.stay)'
    BY <2>12, <2>13 DEF Leads
  <2>15. S \in SUBSET Nat /\ iter'.at \in S
    BY <1>1, <2>1, <2>6
  <2>16. QED
    BY <2>3, <2>14, <2>15
<1>15. IterSound'
  <2>1. iter' = iter
    BY <1>1
  <2>2. QED
    BY <1>12, <1>13, <1>14, <2>1 DEF IterSound
<1>16. QED
  BY <1>6, <1>9, <1>10, <1>11, <1>15 DEF OdInv

\* What the list, whole, leads to.
LEMMA LeadsFromRoot ==
  ASSUME OdInv, NEW back \in BOOLEAN
  PROVE  \E R \in SUBSET Nat : 0 \in R /\ Leads(R, back, IF back THEN linkPrev ELSE linkNext, DOMAIN odMap)
<1> DEFINE n == LinksMade
<1>1. PICK q \in Seq(Nat) : IsList(q)
  BY DEF OdInv
<1>2. PICK m, Q : m = Len(q) /\ Q = 1 .. m
  OBVIOUS
<1>3. PICK R : R = { q[i] : i \in Q } \cup {0}
  OBVIOUS
<1>4. PICK f : f = IF back THEN linkPrev ELSE linkNext
  OBVIOUS
<1>5. m \in Nat /\ n \in Nat /\ (m # 0 => 1 \in Q /\ m \in Q) /\ \A i \in Q : i \in Nat /\ 1 <= i /\ i <= m
  BY <1>1, <1>2 DEF OdInv, OdTypeOK, LinksMade
<1>6. \A i \in Q : q[i] \in Nat /\ q[i] \in 0 .. n /\ q[i] # 0
  <2>1. \A i \in 1 .. Len(q) : 1 <= q[i] /\ q[i] <= n
    BY <1>1 DEF IsList, Rising
  <2>2. \A i \in Q : q[i] \in Nat
    BY <1>2
  <2>3. QED
    BY <1>2, <1>5, <2>1, <2>2
<1>7. /\ \A i, j \in Q : i < j => q[i] < q[j]
      /\ \A i, j \in Q : q[i] < q[j] => i < j
  <2>1. \A i, j \in Q : i < j => q[i] < q[j]
    BY <1>1, <1>2 DEF IsList, Rising
  <2>2. \A i, j \in Q : i = j \/ i < j \/ j < i
    BY <1>5
  <2>3. \A i, j \in Q : q[i] < q[j] => ~(q[j] < q[i]) /\ q[i] # q[j]
    BY <1>6
  <2>4. QED
    BY <2>1, <2>2, <2>3
<1>8. /\ \A j \in DOMAIN odMap : \E i \in Q : q[i] = odMap[j]
      /\ \A i \in Q : keyAt[q[i]] \in DOMAIN odMap /\ odMap[keyAt[q[i]]] = q[i]
  BY <1>1, <1>2 DEF IsList
<1>9. /\ m = 0 => linkNext[0] = 0 /\ linkPrev[0] = 0
      /\ m # 0 => linkNext[0] = q[1] /\ linkPrev[0] = q[m]
      /\ \A i \in Q : i = m => linkNext[q[i]] = 0
      /\ \A i \in Q : i # m => linkNext[q[i]] = q[i + 1] /\ i + 1 \in Q
      /\ \A i \in Q : i = 1 => linkPrev[q[i]] = 0
      /\ \A i \in Q : i # 1 => linkPrev[q[i]] = q[i - 1] /\ i - 1 \in Q
  <2>1. \A i \in Q : (i # m => i + 1 \in Q) /\ (i # 1 => i - 1 \in Q)
    BY <1>2, <1>5
  <2>2. QED
    BY <1>1, <1>2, <2>1, ListLinks
<1> HIDE DEF n
<1>10. R \in SUBSET Nat /\ R \subseteq 0 .. n /\ 0 \in R /\ \A i \in Q : q[i] \in R
  <2>1. 0 \in 0 .. n
    BY <1>5
  <2>2. QED
    BY <1>3, <1>6, <2>1
<1>11. \A x \in R : x = 0 \/ \E i \in Q : x = q[i]
  BY <1>3
<1>12. ASSUME NEW x \in R PROVE f[x] \in R /\ (f[x] # 0 => Ahead(back, x, f[x]))
  <2>1. CASE x = 0
    <3>1. m = 0 => f[x] = 0
      BY <1>4, <1>9, <2>1
    <3>2. m # 0 => 1 \in Q /\ m \in Q /\ f[x] = IF back THEN q[m] ELSE q[1]
      BY <1>4, <1>5, <1>9, <2>1
    <3>3. QED
      BY <1>6, <1>10, <2>1, <3>1, <3>2 DEF Ahead
  <2>2. CASE x # 0
    <3>1. PICK i \in Q : x = q[i]
      BY <1>11, <2>2
    <3>2. CASE back
      <4>1. i # 1 => i - 1 \in Q /\ f[x] = q[i - 1] /\ i - 1 < i
        BY <1>4, <1>5, <1>9, <3>1, <3>2
      <4>2. i = 1 => f[x] = 0
        BY <1>4, <1>9, <3>1, <3>2
      <4>3. QED
        BY <1>6, <1>7, <1>10, <3>1, <3>2, <4>1, <4>2 DEF Ahead
    <3>3. CASE ~back
      <4>1. i # m => i + 1 \in Q /\ f[x] = q[i + 1] /\ i < i + 1
        BY <1>4, <1>5, <1>9, <3>1, <3>3, SMTT(30)
      <4>2. i = m => f[x] = 0
        BY <1>4, <1>9, <3>1, <3>3
      <4>3. QED
        BY <1>6, <1>7, <1>10, <3>1, <3>3, <4>1, <4>2 DEF Ahead
    <3>4. QED
      BY <3>2, <3>3
  <2>3. QED
    BY <2>1, <2>2
<1>13. ASSUME NEW x \in R, NEW j \in DOMAIN odMap, Ahead(back, x, odMap[j])
       PROVE  f[x] # 0 /\ (f[x] = odMap[j] \/ Ahead(back, f[x], odMap[j]))
  <2>1. PICK y \in Q : odMap[j] = q[y]
    BY <1>8
  <2>2. y \in Nat /\ 1 <= y /\ y <= m /\ m # 0 /\ 1 \in Q /\ m \in Q
    BY <1>5
  <2>3. CASE x = 0
    <3>1. CASE back
      <4>1. f[x] = q[m] /\ (y = m \/ y < m)
        BY <1>4, <1>5, <1>9, <2>2, <2>3, <3>1
      <4>2. QED
        BY <1>6, <1>7, <2>1, <2>2, <3>1, <4>1 DEF Ahead
    <3>2. CASE ~back
      <4>1. f[x] = q[1] /\ (y = 1 \/ 1 < y)
        BY <1>4, <1>5, <1>9, <2>2, <2>3, <3>2
      <4>2. QED
        BY <1>6, <1>7, <2>1, <2>2, <3>2, <4>1 DEF Ahead
    <3>3. QED
      BY <3>1, <3>2
  <2>4. CASE x # 0
    <3>1. PICK i \in Q : x = q[i]
      BY <1>11, <2>4
    <3>2. CASE back
      <4>1. y < i
        BY <1>6, <1>7, <1>13, <2>1, <2>4, <3>1, <3>2 DEF Ahead
      <4>2. i # 1 /\ i - 1 \in Q /\ (y = i - 1 \/ y < i - 1)
        BY <1>5, <1>9, <2>2, <4>1
      <4>3. f[x] = q[i - 1]
        BY <1>4, <1>9, <3>1, <3>2, <4>2
      <4>4. QED
        BY <1>6, <1>7, <2>1, <3>2, <4>2, <4>3 DEF Ahead
    <3>3. CASE ~back
      <4>1. i < y
        BY <1>6, <1>7, <1>13, <2>1, <3>1, <3>3 DEF Ahead
      <4>2. i # m /\ i + 1 \in Q /\ (y = i + 1 \/ i + 1 < y)
        BY <1>5, <1>9, <2>2, <4>1
      <4>3. f[x] = q[i + 1]
        BY <1>4, <1>9, <3>1, <3>3, <4>2
      <4>4. QED
        BY <1>6, <1>7, <2>1, <3>3, <4>2, <4>3 DEF Ahead
    <3>4. QED
      BY <3>2, <3>3
  <2>5. QED
    BY <2>3, <2>4
<1>14. \A x \in R : x # 0 /\ keyAt[x] \in DOMAIN odMap => odMap[keyAt[x]] = x
  BY <1>8, <1>11
<1>15. \A j \in DOMAIN odMap : odMap[j] \in R
  BY <1>8, <1>10
<1>16. Leads(R, back, f, DOMAIN odMap)
  BY <1>10, <1>12, <1>13, <1>14, <1>15 DEF Leads, n
<1>17. QED
  BY <1>4, <1>10, <1>16

\* While only the generator changes, the list stays what it is.
LEMMA IterOnly ==
  ASSUME OdInv, UNCHANGED <<odDict, odMap, linkPrev, linkNext, keyAt>>
  PROVE  /\ LinksMade' = LinksMade /\ MapSound' /\ (\E q \in Seq(Nat) : IsList(q))'
         /\ \A q : IsList(q) => IsList(q)'
         /\ \A R, back, f, stay : Leads(R, back, f, stay) => Leads(R, back, f, stay)'
<1>1. LinksMade' = LinksMade
  BY DEF LinksMade
<1>2. \A q : IsList(q) => IsList(q)'
  BY <1>1 DEF IsList
<1>3. \A R, back, f, stay : Leads(R, back, f, stay) => Leads(R, back, f, stay)'
  BY <1>1 DEF Leads
<1>4. MapSound'
  BY <1>1 DEF OdInv, MapSound
<1>5. QED
  BY <1>1, <1>2, <1>3, <1>4 DEF OdInv

\* A generator starts before all the keys.
LEMMA IterateKeeps ==
  ASSUME OdInv, NEW way \in {"forward", "back", "items"}, Iterate(way) PROVE OdInv'
<1>1. /\ LinksMade' = LinksMade /\ MapSound' /\ (\E q \in Seq(Nat) : IsList(q))'
      /\ \A R, back, f, stay : Leads(R, back, f, stay) => Leads(R, back, f, stay)'
  BY IterOnly DEF Iterate
<1>2. /\ iter'.at = 0 /\ iter'.way = way /\ iter'.given = << >> /\ iter'.stay = DOMAIN odDict
      /\ odMap' = odMap /\ odDict' = odDict
  BY DEF Iterate, NoIter, Root0
<1>3. OdTypeOK /\ DOMAIN odMap = DOMAIN odDict /\ DOMAIN odDict \subseteq DictKeys
      /\ \A k \in DOMAIN odMap : odMap[k] \in 1 .. LinksMade
  BY DEF OdInv, MapSound
<1>4. OdTypeOK'
  <2>1. 0 \in 0 .. LinksMade
    BY <1>3 DEF OdTypeOK, LinksMade
  <2>2. iter' \in [at : Nat, way : {"none", "forward", "back", "items", "done", "failed"},
                    given : Seq(DictKeys), stay : SUBSET DictKeys]
    <3>1. iter' = [at |-> 0, way |-> way, given |-> << >>, stay |-> DOMAIN odDict]
      BY DEF Iterate, NoIter, Root0
    <3>2. << >> \in Seq(DictKeys) /\ way \in {"none", "forward", "back", "items", "done", "failed"} /\ 0 \in Nat
      OBVIOUS
    <3>3. DOMAIN odDict \in SUBSET DictKeys
      BY <1>3
    <3>4. QED
      BY <3>1, <3>2, <3>3
  <2>3. << >> \in Seq(DictKeys)
    OBVIOUS
  <2>4. QED
    BY <1>1, <1>2, <1>3, <2>1, <2>2, <2>3 DEF OdTypeOK, Iterate
<1>5. \E R \in SUBSET Nat : iter'.at \in R /\ Leads(R, iter.way = "back", Follows, iter.stay)'
  <2>1. PICK back \in BOOLEAN : back = (way = "back")
    OBVIOUS
  <2>2. PICK f, st : f = (IF back THEN linkPrev ELSE linkNext) /\ st = DOMAIN odMap
    OBVIOUS
  <2>3. PICK R \in SUBSET Nat : 0 \in R /\ Leads(R, back, f, st)
    BY <2>2, LeadsFromRoot
  <2>4. Leads(R, back, f, st)'
    BY <1>1, <2>3
  <2>5. f = Follows' /\ st = iter'.stay /\ back = (iter'.way = "back")
    BY <1>2, <1>3, <2>1, <2>2 DEF Follows, Iterate
  <2>6. Leads(R, iter.way = "back", Follows, iter.stay)'
    BY <2>4, <2>5 DEF Leads
  <2>7. QED
    BY <1>2, <2>3, <2>6
<1>6. \A k \in iter'.stay : Ahead(iter'.way = "back", iter'.at, odMap'[k]) /\ Gave(iter'.given, k) = {}
  BY <1>2, <1>3 DEF Ahead, Gave
<1>7. IterSound'
  BY <1>2, <1>5, <1>6 DEF IterSound
<1>8. QED
  BY <1>1, <1>4, <1>7 DEF OdInv

\* One key more has been given.
LEMMA GaveMore ==
  ASSUME NEW S, NEW g \in Seq(S), NEW x \in S, NEW k
  PROVE  /\ x # k => Gave(Append(g, x), k) = Gave(g, k)
         /\ x # k /\ Once(g, k) => Once(Append(g, x), k)
         /\ x = k /\ Gave(g, k) = {} => Once(Append(g, x), k)
<1> DEFINE h == Append(g, x)
           n == Len(g)
<1>1. /\ n \in Nat /\ DOMAIN g = 1 .. n /\ DOMAIN h = 1 .. n + 1 /\ h[n + 1] = x
      /\ \A i \in 1 .. n : h[i] = g[i]
  OBVIOUS
<1>2. /\ \A i \in DOMAIN h : i \in DOMAIN g \/ i = n + 1
      /\ n + 1 \in DOMAIN h /\ n + 1 \notin DOMAIN g /\ DOMAIN g \subseteq DOMAIN h
      /\ \A i \in DOMAIN g : h[i] = g[i]
  BY <1>1
<1> HIDE DEF h
<1>3. x # k => Gave(h, k) = Gave(g, k)
  BY <1>1, <1>2 DEF Gave
<1>4. x = k => Gave(h, k) = Gave(g, k) \cup {n + 1}
  BY <1>1, <1>2 DEF Gave
<1>5. QED
  BY <1>2, <1>3, <1>4 DEF Once, h

\* A key that stays is given when the generator reaches its link, and no link
\* of another time holds such a key.
LEMMA IterNextKeeps == ASSUME OdInv, IterNext PROVE OdInv'
<1>1. /\ LinksMade' = LinksMade /\ MapSound' /\ (\E q \in Seq(Nat) : IsList(q))'
      /\ \A R, back, f, stay : Leads(R, back, f, stay) => Leads(R, back, f, stay)'
      /\ UNCHANGED <<odDict, odMap, linkPrev, linkNext, keyAt>>
  BY IterOnly DEF IterNext
<1>2. PICK back \in BOOLEAN : back = (iter.way = "back")
  OBVIOUS
<1>3. PICK f, to, n : f = Follows /\ to = f[iter.at] /\ n = LinksMade
  OBVIOUS
<1>4. /\ OdTypeOK /\ MapSound /\ IterSound /\ n \in Nat /\ DOMAIN odMap = DOMAIN odDict
      /\ \A k \in DOMAIN odMap : odMap[k] \in Nat /\ keyAt[odMap[k]] = k
  BY <1>3 DEF OdInv, OdTypeOK, MapSound, LinksMade
<1>5. to \in 0 .. n \cup {Gone} /\ to = IF iter.way = "back" THEN linkPrev[iter.at] ELSE linkNext[iter.at]
  BY <1>3, <1>4 DEF OdTypeOK, Follows
<1>6. iter.way \in {"forward", "back", "items"}
  BY SMTT(30) DEF IterNext
<1>7. PICK end : /\ end = CASE to = Gone -> "failed"
                            [] to = Root0 -> "done"
                            [] linkNext[to] = Gone -> "failed"
                            [] iter.way = "items" /\ keyAt[to] \notin DOMAIN odDict -> "failed"
                            [] OTHER -> iter.way
                 /\ iter' = IF end \in {"done", "failed"} THEN [iter EXCEPT !.way = end]
                            ELSE [iter EXCEPT !.at = to, !.given = Append(@, keyAt[to])]
  BY <1>5 DEF IterNext
<1>8. Gone # 0 /\ Gone \notin 0 .. n
  BY <1>3, <1>4, OrderedDictAssumption DEF Gone, OdTypeOK
<1>9. \/ end = "failed"
      \/ end = "done" /\ to = 0
      \/ end = iter.way /\ to \in 0 .. n /\ to # 0
  BY <1>5, <1>6, <1>7, <1>8 DEF Root0
<1>10. iter \in [at : Nat, way : {"none", "forward", "back", "items", "done", "failed"},
                 given : Seq(DictKeys), stay : SUBSET DictKeys]
  BY <1>4 DEF OdTypeOK
<1>11. CASE end \in {"failed", "done"}
  <2>1. iter' = [iter EXCEPT !.way = end]
    BY <1>7, <1>11
  <2>2. /\ iter'.at = iter.at /\ iter'.way = end /\ iter'.given = iter.given /\ iter'.stay = iter.stay
        /\ iter' \in [at : Nat, way : {"none", "forward", "back", "items", "done", "failed"},
                      given : Seq(DictKeys), stay : SUBSET DictKeys]
    BY <1>10, <1>11, <2>1
  <2>3. OdTypeOK'
    BY <1>1, <1>4, <2>2 DEF OdTypeOK
  <2>4. ASSUME end = "done", NEW k \in iter.stay PROVE Once(iter.given, k)
    <3>1. to = 0
      BY <1>6, <1>9, <2>4
    <3>2. PICK R \in SUBSET Nat : iter.at \in R /\ Leads(R, iter.way = "back", Follows, iter.stay)
      BY <1>4, <1>6, <2>4 DEF IterSound
    <3>3. ~Ahead(iter.way = "back", iter.at, odMap[k])
      BY <1>3, <2>4, <3>1, <3>2 DEF Leads
    <3>4. QED
      BY <1>4, <1>6, <2>4, <3>3 DEF IterSound
  <2>5. IterSound'
    <3>1. iter'.stay \subseteq DOMAIN odDict'
      BY <1>1, <1>4, <2>2 DEF IterSound
    <3>2. iter'.way = "done" => \A k \in iter'.stay : Once(iter'.given, k)
      BY <2>2, <2>4
    <3>3. iter'.way \notin {"forward", "back", "items"}
      BY <1>11, <2>2
    <3>4. QED
      BY <3>1, <3>2, <3>3 DEF IterSound
  <2>6. QED
    BY <1>1, <2>3, <2>5 DEF OdInv
<1>12. CASE end \notin {"failed", "done"}
  <2>1. iter' = [iter EXCEPT !.at = to, !.given = Append(@, keyAt[to])] /\ to \in 0 .. n /\ to # 0
    BY <1>7, <1>9, <1>12
  <2>2. PICK x : x = keyAt[to]
    OBVIOUS
  <2>3. x \in DictKeys
    <3>1. to \in 1 .. n
      BY <1>4, <2>1
    <3>2. QED
      BY <1>3, <1>4, <2>2, <3>1 DEF OdTypeOK, LinksMade
  <2>4. Append(iter.given, x) \in Seq(DictKeys) /\ iter.given \in Seq(DictKeys) /\ to \in Nat
    BY <1>4, <2>1, <2>3 DEF OdTypeOK
  <2>5. /\ iter'.at = to /\ iter'.way = iter.way /\ iter'.given = Append(iter.given, x) /\ iter'.stay = iter.stay
        /\ iter' \in [at : Nat, way : {"none", "forward", "back", "items", "done", "failed"},
                      given : Seq(DictKeys), stay : SUBSET DictKeys]
    BY <1>10, <2>1, <2>2, <2>4
  <2>6. OdTypeOK'
    BY <1>1, <1>3, <1>4, <2>1, <2>4, <2>5 DEF OdTypeOK
  <2>7. ASSUME iter.stay # {}
        PROVE  /\ \E R \in SUBSET Nat : iter'.at \in R /\ Leads(R, iter.way = "back", Follows, iter.stay)'
               /\ \A k \in iter.stay : IF Ahead(back, to, odMap[k])
                                       THEN Gave(iter'.given, k) = {} ELSE Once(iter'.given, k)
    <3>1. PICK st : st = iter.stay /\ st \subseteq DOMAIN odMap
      BY <1>4 DEF IterSound
    <3>2. PICK R \in SUBSET Nat : iter.at \in R /\ Leads(R, back, f, st)
      BY <1>2, <1>3, <1>4, <1>6, <2>7, <3>1 DEF IterSound
    <3>3. Leads(R, back, f, st)'
      BY <1>1, <3>2
    <3>4. f = Follows' /\ st = iter'.stay /\ back = (iter'.way = "back")
      BY <1>1, <1>2, <1>3, <2>5, <3>1 DEF Follows
    <3>5. Leads(R, iter.way = "back", Follows, iter.stay)'
      BY <3>3, <3>4 DEF Leads
    <3>6. to \in R
      BY <1>3, <3>2 DEF Leads
    <3>7. ASSUME NEW k \in st
          PROVE  IF Ahead(back, to, odMap[k]) THEN Gave(iter'.given, k) = {} ELSE Once(iter'.given, k)
      <4>1. IF Ahead(back, iter.at, odMap[k]) THEN Gave(iter.given, k) = {} ELSE Once(iter.given, k)
        BY <1>2, <1>4, <1>6, <3>1 DEF IterSound
      <4>2. /\ x # k => Gave(iter'.given, k) = Gave(iter.given, k)
            /\ x # k /\ Once(iter.given, k) => Once(iter'.given, k)
            /\ x = k /\ Gave(iter.given, k) = {} => Once(iter'.given, k)
        BY <2>3, <2>4, <2>5, GaveMore
      <4>3. x = k <=> to = odMap[k]
        <5>1. x = k => odMap[k] = to
          BY <2>1, <2>2, <3>2, <3>6 DEF Leads
        <5>2. to = odMap[k] => x = k
          BY <1>4, <2>2, <3>1
        <5>3. QED
          BY <5>1, <5>2
      <4>4. /\ Ahead(back, iter.at, to)
            /\ Ahead(back, iter.at, odMap[k]) => to = odMap[k] \/ Ahead(back, to, odMap[k])
        BY <1>3, <2>1, <3>2 DEF Leads
      <4>5. /\ Ahead(back, to, odMap[k]) => Ahead(back, iter.at, odMap[k])
            /\ to = odMap[k] => Ahead(back, iter.at, odMap[k]) /\ ~Ahead(back, to, odMap[k])
        <5>1. to \in Nat /\ iter.at \in Nat /\ odMap[k] \in Nat
          BY <1>4, <2>4, <3>1, <3>2
        <5>2. QED
          BY <4>4, <5>1, <2>1 DEF Ahead
      <4>6. QED
        BY <4>1, <4>2, <4>3, <4>4, <4>5
    <3>8. QED
      BY <2>5, <3>1, <3>5, <3>6, <3>7
  <2>8. IterSound'
    <3>1. iter'.stay \subseteq DOMAIN odDict'
      BY <1>1, <1>4, <2>5 DEF IterSound
    <3>2. iter'.way # "done"
      BY <1>6, <2>5
    <3>3. iter'.stay # {} => \A k \in iter'.stay : IF Ahead(iter'.way = "back", iter'.at, odMap'[k])
                                                  THEN Gave(iter'.given, k) = {} ELSE Once(iter'.given, k)
      BY <1>1, <1>2, <2>5, <2>7
    <3>4. iter'.stay # {} =>
            \E R \in SUBSET Nat : iter'.at \in R /\ Leads(R, iter.way = "back", Follows, iter.stay)'
      BY <2>5, <2>7
    <3>5. QED
      BY <3>1, <3>2, <3>3, <3>4 DEF IterSound
  <2>9. QED
    BY <1>1, <2>6, <2>8 DEF OdInv
<1>13. QED
  BY <1>11, <1>12

\* Every step keeps the invariant.
LEMMA OdInvNext == ASSUME OdInv, [OdNext]_odVars PROVE OdInv'
<1>1. ASSUME NEW k \in DictKeys, NEW v \in DictValues, SetItem(k, v) PROVE OdInv'
  BY <1>1, SetOldKeeps, SetNewKeeps
<1>2. ASSUME NEW k \in DictKeys, DelItem(k) PROVE OdInv'
  BY <1>2, DelItemKeeps
<1>3. ASSUME NEW last \in BOOLEAN, PopItem(last) PROVE OdInv'
  BY <1>2, <1>3, PopItemDeletes
<1>4. CASE Clear
  BY <1>4, ClearKeeps
<1>5. ASSUME NEW way \in {"forward", "back", "items"}, Iterate(way) PROVE OdInv'
  BY <1>5, IterateKeeps
<1>6. CASE IterNext
  BY <1>6, IterNextKeeps
<1>7. CASE UNCHANGED odVars
  <2>1. /\ LinksMade' = LinksMade /\ MapSound' /\ (\E q \in Seq(Nat) : IsList(q))'
        /\ \A R, back, f, stay : Leads(R, back, f, stay) => Leads(R, back, f, stay)'
    BY <1>7, IterOnly DEF odVars
  <2>2. OdTypeOK'
    BY <1>7, <2>1 DEF odVars, OdTypeOK, OdInv
  <2>3. ASSUME NEW R, Leads(R, iter.way = "back", Follows, iter.stay)
        PROVE  Leads(R, iter.way = "back", Follows, iter.stay)'
    BY <1>7, <2>1, <2>3 DEF odVars, Follows, Leads
  <2>4. IterSound'
    BY <1>7, <2>3 DEF odVars, OdInv, IterSound
  <2>5. QED
    BY <2>1, <2>2, <2>4 DEF OdInv
<1>8. QED
  BY <1>1, <1>2, <1>3, <1>4, <1>5, <1>6, <1>7 DEF OdNext, Update, SetDefault, Pop

\* After a step, too, walking forwards one meets the list.
LEMMA WalksForwardThen ==
  ASSUME NEW q \in Seq(Nat), IsList(q)' PROVE Walk(linkNext)' = [i \in 1 .. Len(q) |-> keyAt'[q[i]]]
<1>1. Linked(q, linkNext', linkPrev') /\ Len(q) = Cardinality(DOMAIN odDict')
  BY DEF IsList
<1>2. Len(q) > 0 => linkNext'[Root0] = q[1]
  BY <1>1 DEF Linked, Root0
<1>3. \A i \in 1 .. Len(q) - 1 : linkNext'[q[i]] = q[i + 1]
  BY <1>1 DEF Linked
<1>4. Along(q, linkNext')
  BY <1>2, <1>3 DEF Along
<1>5. Walked(linkNext', Len(q), keyAt') = KeysAt(q, keyAt')
  BY <1>4, WalkMeets
<1>6. Walk(linkNext)' = Walked(linkNext', Cardinality(DOMAIN odDict'), keyAt')
  BY DEF Walk, Walked
<1>7. QED
  BY <1>1, <1>5, <1>6 DEF KeysAt

\* The keys of the list, as a sequence without repetition.
LEMMA KeysOfList ==
  ASSUME OdInv, NEW q \in Seq(Nat), IsList(q)
  PROVE  /\ KeysOf(q) \in Seq(DictKeys) /\ Len(KeysOf(q)) = Len(q) /\ DOMAIN KeysOf(q) = 1 .. Len(q)
         /\ \A i \in 1 .. Len(q) : KeysOf(q)[i] = keyAt[q[i]] /\ odMap[KeysOf(q)[i]] = q[i]
<1>1. \A i \in 1 .. Len(q) : keyAt[q[i]] \in DOMAIN odMap /\ odMap[keyAt[q[i]]] = q[i]
  BY DEF IsList
<1>2. \A i \in 1 .. Len(q) : keyAt[q[i]] \in DictKeys
  BY <1>1 DEF OdInv, MapSound
<1>3. KeysOf(q) \in [1 .. Len(q) -> DictKeys]
  BY <1>2 DEF KeysOf
<1>4. QED
  BY <1>1, <1>3, SMTT(30) DEF KeysOf

\* The refinement, action by action.
LEMMA MapInit == ASSUME OdInit PROVE OM!OmInit
<1>1. IsList(<< >>) /\ << >> \in Seq(Nat)
  <2>1. << >> \in Seq(Nat) /\ Len(<< >>) = 0
    OBVIOUS
  <2>2. DOMAIN odMap = {} /\ DOMAIN odDict = {} /\ linkNext[0] = 0 /\ linkPrev[0] = 0
    BY DEF OdInit, Root0
  <2>3. Cardinality({}) = 0
    BY FS_EmptySet
  <2>4. QED
    BY <2>1, <2>2, <2>3 DEF IsList, Linked, Rising, Root0
<1>2. Walk(linkNext) = KeysOf(<< >>)
  BY <1>1, WalksForward
<1>3. KeysOf(<< >>) = << >>
  BY DEF KeysOf
<1>4. QED
  BY <1>2, <1>3 DEF OM!OmInit, OdInit

\* A set is a put: the old list, or one key more at its end.
LEMMA PutMaps ==
  ASSUME OdInv, OdInv', NEW k \in DictKeys, NEW v, SetItem(k, v) PROVE OM!Put(k, v)
<1>1. PICK q \in Seq(Nat) : IsList(q)
  BY DEF OdInv
<1>2. Walk(linkNext) = KeysOf(q)
  BY <1>1, WalksForward
<1>3. odDict' = [x \in DOMAIN odDict \cup {k} |-> IF x = k THEN v ELSE odDict[x]]
  BY DEF SetItem, Put1
<1>4. CASE k \in DOMAIN odDict
  <2>1. IsList(q)'
    BY <1>1, <1>4, SetOldKeeps
  <2>2. Walk(linkNext)' = [i \in 1 .. Len(q) |-> keyAt'[q[i]]]
    BY <2>1, WalksForwardThen
  <2>3. keyAt' = keyAt
    BY <1>4 DEF SetItem
  <2>4. Walk(linkNext)' = Walk(linkNext)
    BY <1>2, <2>2, <2>3 DEF KeysOf
  <2>5. QED
    BY <1>3, <1>4, <2>4 DEF OM!Put
<1>5. CASE k \notin DOMAIN odDict
  <2>1. PICK l : l = LinksMade + 1
    OBVIOUS
  <2>2. PICK r : r = Append(q, l)
    OBVIOUS
  <2>3. r \in Seq(Nat) /\ IsList(r)'
    BY <1>1, <1>5, <2>1, <2>2, SetNewKeeps
  <2>4. Walk(linkNext)' = [i \in 1 .. Len(r) |-> keyAt'[r[i]]]
    BY <2>3, WalksForwardThen
  <2>5. /\ l \in Nat /\ keyAt' = Append(keyAt, k) /\ keyAt \in Seq(DictKeys) /\ keyAt'[l] = k
        /\ \A x \in 1 .. LinksMade : keyAt'[x] = keyAt[x]
    <3>1. keyAt' = Append(keyAt, k) /\ keyAt \in Seq(DictKeys) /\ l = Len(keyAt) + 1
      BY <1>5, <2>1 DEF SetItem, OdInv, OdTypeOK, LinksMade
    <3>2. l \in Nat /\ keyAt'[l] = k /\ \A x \in 1 .. Len(keyAt) : keyAt'[x] = keyAt[x]
      BY <3>1
    <3>3. QED
      BY <3>1, <3>2 DEF LinksMade
  <2>6. \A i \in 1 .. Len(q) : q[i] \in 1 .. LinksMade
    BY <1>1 DEF IsList, Rising
  <2>7. Len(r) = Len(q) + 1 /\ r[Len(q) + 1] = l /\ \A i \in 1 .. Len(q) : r[i] = q[i]
    BY <2>2, <2>5
  <2>8. PICK s : s = KeysOf(q)
    OBVIOUS
  <2>9. s \in Seq(DictKeys) /\ Len(s) = Len(q) /\ \A i \in 1 .. Len(q) : s[i] = keyAt[q[i]]
    BY <1>1, <2>8, KeysOfList
  <2>10. Append(s, k) = [i \in 1 .. Len(q) + 1 |-> keyAt'[r[i]]]
    <3>1. \A i \in 1 .. Len(q) + 1 : Append(s, k)[i] = keyAt'[r[i]]
      <4>1. ASSUME NEW i \in 1 .. Len(q) + 1 PROVE Append(s, k)[i] = keyAt'[r[i]]
        <5>1. CASE i = Len(q) + 1
          <6>1. Append(s, k)[Len(q) + 1] = k
            BY <2>9
          <6>2. QED
            BY <2>5, <2>7, <5>1, <6>1
        <5>2. CASE i # Len(q) + 1
          <6>1. i \in 1 .. Len(q)
            BY <5>2
          <6>2. Append(s, k)[i] = s[i]
            BY <2>9, <6>1
          <6>3. QED
            BY <2>5, <2>6, <2>7, <2>9, <6>1, <6>2
        <5>3. QED
          BY <5>1, <5>2
      <4>2. QED
        BY <4>1
    <3>2. Append(s, k) \in Seq(DictKeys) /\ Len(Append(s, k)) = Len(q) + 1
      BY <2>9
    <3>3. QED
      <4>1. PICK w : w = Append(s, k)
        OBVIOUS
      <4>2. w \in Seq(DictKeys) /\ Len(w) = Len(q) + 1
        BY <3>2, <4>1
      <4>3. \A i \in 1 .. Len(q) + 1 : w[i] = keyAt'[r[i]]
        BY <3>1, <4>1
      <4>4. w = [i \in 1 .. Len(q) + 1 |-> keyAt'[r[i]]]
        BY <4>2, <4>3
      <4>5. QED
        BY <4>1, <4>4
  <2>11. Walk(linkNext)' = Append(Walk(linkNext), k)
    BY <1>2, <2>4, <2>7, <2>8, <2>10
  <2>12. QED
    BY <1>3, <1>5, <2>11 DEF OM!Put
<1>6. QED
  BY <1>4, <1>5

\* A deletion is the removal of the key at its place.
LEMMA RemoveMaps ==
  ASSUME OdInv, OdInv', NEW k \in DictKeys, DelItem(k) PROVE OM!RemoveKey(k)
<1>1. PICK q \in Seq(Nat) : IsList(q)
  BY DEF OdInv
<1>2. PICK s : s = Walk(linkNext) /\ s = KeysOf(q)
  BY <1>1, WalksForward
<1>3. /\ s \in Seq(DictKeys) /\ Len(s) = Len(q) /\ DOMAIN s = 1 .. Len(q)
      /\ \A i \in 1 .. Len(q) : s[i] = keyAt[q[i]] /\ odMap[s[i]] = q[i]
  BY <1>1, <1>2, KeysOfList
<1>4. k \in DOMAIN odDict /\ k \in DOMAIN odMap /\ keyAt' = keyAt
      /\ odDict' = [x \in DOMAIN odDict \ {k} |-> odDict[x]]
  BY DEF DelItem, Drop, OdInv, MapSound
<1>5. PICK i : i = CHOOSE j \in DOMAIN s : s[j] = k
  OBVIOUS
<1>6. i \in 1 .. Len(q) /\ s[i] = k
  <2>1. PICK j \in 1 .. Len(q) : q[j] = odMap[k]
    BY <1>1, <1>4 DEF IsList
  <2>2. s[j] = k
    BY <1>3, <1>4, <2>1, ZenonT(60) DEF OdInv, MapSound
  <2>3. \E x \in DOMAIN s : s[x] = k
    BY <1>3, <2>2
  <2>4. QED
    BY <1>3, <1>5, <2>3
<1>7. q[i] = odMap[k]
  BY <1>3, <1>6
<1>8. PICK r : r = RemoveAt(q, i) /\ IsList(r)' /\ r \in Seq(Nat)
  BY <1>1, <1>6, <1>7, DelItemKeeps
<1>9. /\ Len(r) = Len(q) - 1
      /\ \A j \in 1 .. Len(q) - 1 : r[j] = IF j < i THEN q[j] ELSE q[j + 1]
  <2>1. q \in Seq(Nat) /\ i \in 1 .. Len(q) /\ r = RemoveAt(q, i)
    BY <1>6, <1>8
  <2>2. QED
    BY ONLY <2>1, RemovedAt, Zenon
<1>10. PICK t : t = RemoveAt(s, i)
  BY SMTT(30)
<1>11. /\ t \in Seq(DictKeys) /\ Len(t) = Len(q) - 1
       /\ \A j \in 1 .. Len(q) - 1 : t[j] = IF j < i THEN s[j] ELSE s[j + 1]
  <2>1. i \in 1 .. Len(s)
    BY <1>3, <1>6
  <2>2. QED
    BY <1>3, <1>10, <2>1, RemovedAt
<1>12. Walk(linkNext)' = [j \in 1 .. Len(q) - 1 |-> keyAt[r[j]]]
  BY <1>4, <1>8, <1>9, WalksForwardThen
<1>13. t = [j \in 1 .. Len(q) - 1 |-> keyAt[r[j]]]
  <2>1. ASSUME NEW j \in 1 .. Len(q) - 1 PROVE t[j] = keyAt[r[j]]
    <3>1. j \in 1 .. Len(q) /\ j + 1 \in 1 .. Len(q)
      BY <1>1
    <3>2. QED
      BY <1>3, <1>9, <1>11, <3>1
  <2>2. DOMAIN t = 1 .. Len(q) - 1 /\ t = [j \in DOMAIN t |-> t[j]]
    BY <1>11
  <2>3. QED
    BY <2>1, <2>2
<1>14. OM!OrderWithout(k) = t
  BY <1>2, <1>5, <1>10 DEF OM!OrderWithout, OM!RemoveAt, RemoveAt
<1>15. QED
  BY <1>4, <1>12, <1>13, <1>14 DEF OM!RemoveKey

\* clear() empties the map.
LEMMA ClearMaps == ASSUME OdInv, Clear PROVE OM!EmptyMap
<1>1. IsList(<< >>)' /\ << >> \in Seq(Nat) /\ Len(<< >>) = 0
  BY ClearKeeps
<1>2. Walk(linkNext)' = [i \in 1 .. Len(<< >>) |-> keyAt'[<< >>[i]]]
  BY <1>1, WalksForwardThen
<1>3. Walk(linkNext)' = << >>
  BY <1>2
<1>4. QED
  BY <1>3 DEF OM!EmptyMap, Clear

\* Steps of a generator do not touch the map.
LEMMA IterMaps ==
  ASSUME UNCHANGED <<odDict, odMap, linkPrev, linkNext, keyAt>> PROVE UNCHANGED OM!omVars
<1>1. Walk(linkNext)' = Walk(linkNext)
  BY DEF Walk
<1>2. QED
  BY <1>1 DEF OM!omVars

\* Every step is one of the map, or leaves it alone.
LEMMA MapStep ==
  ASSUME OdInv, OdInv', [OdNext]_odVars PROVE [OM!OmNext]_(OM!omVars)
<1>1. ASSUME NEW k \in DictKeys, NEW v \in DictValues, SetItem(k, v) PROVE OM!OmNext
  <2>1. OM!Put(k, v)
    BY <1>1, PutMaps
  <2>2. QED
    BY <2>1 DEF OM!OmNext
<1>2. ASSUME NEW k \in DictKeys, DelItem(k) PROVE OM!OmNext
  <2>1. OM!RemoveKey(k)
    BY <1>2, RemoveMaps
  <2>2. QED
    BY <2>1 DEF OM!OmNext
<1>3. ASSUME NEW last \in BOOLEAN, PopItem(last) PROVE OM!OmNext
  BY <1>2, <1>3, PopItemDeletes
<1>4. CASE Clear
  BY <1>4, ClearMaps DEF OM!OmNext
<1>5. ASSUME NEW way, Iterate(way) PROVE UNCHANGED OM!omVars
  BY <1>5, IterMaps DEF Iterate
<1>6. CASE IterNext
  BY <1>6, IterMaps DEF IterNext
<1>7. CASE UNCHANGED odVars
  BY <1>7, IterMaps DEF odVars
<1>8. QED
  BY <1>1, <1>2, <1>3, <1>4, <1>5, <1>6, <1>7 DEF OdNext, Update, SetDefault, Pop

\* OrderedDict implements a map that remembers insertion order, its list can be
\* walked both ways, and a generator that ends has given each key that was
\* there all the time once, whatever was set, deleted and cleared under it.
THEOREM DictIsOrderedMap == OdSpec => IsOrderedMap
<1>1. OdInit => OdInv /\ OM!OmInit
  BY OdInvInit, MapInit
<1>2. OdInv /\ [OdNext]_odVars => OdInv'
  BY OdInvNext
<1>3. OdInv /\ OdInv' /\ [OdNext]_odVars => [OM!OmNext]_(OM!omVars)
  BY MapStep
<1>4. OdInv => ListIsDoubly /\ StayersAreGiven
  BY InvListIsDoubly, InvStayersAreGiven
<1>5. QED
  BY <1>1, <1>2, <1>3, <1>4, PTL DEF OdSpec, IsOrderedMap, OM!OmSpec

-----------------------------------------------------------------------------
(***************************************************************************)
(* The file system test: what is on the image, in the record and mounted,  *)
(* and which nodes walk() has still to come to.                            *)
(***************************************************************************)

\* The directories above a node are nodes.
TreeIsClosed ==
  /\ DOMAIN tree \subseteq Seq(RandNames) /\ TopLevel \in DOMAIN tree /\ tree[TopLevel] = << "dir" >>
  /\ \A p \in DOMAIN tree : \A i \in 0 .. Len(p) - 1 : IsDir(tree, SubSeq(p, 1, i))

\* Where an exception may be on its way.
ErrorsPass ==
  /\ fsPc \in FsSteps /\ fsError \in BOOLEAN
  /\ fsPc \in {"mkimg", "start", "make", "walk", "passed"} => fsError = FALSE

\* Outside of start() and stop() nothing is mounted, but for what a failing one of
\* their commands leaves, which ends the test.
MountsEnd ==
  /\ setupFault \in {"none", "losetup", "mount", "umount", "detach"}
  /\ fsPc # "failed" => setupFault = "none"
  /\ fsPc \in {"mkimg", "start", "walk", "passed"} => ~mounted /\ ~loop
  /\ fsPc = "failed" => /\ mounted <=> setupFault = "umount"
                        /\ loop <=> setupFault \in {"mount", "umount", "detach"}

\* The driver sees a path as it is on the image.
Same(p) == p \in DOMAIN driver /\ driver[p] = disk[p]

\* A node is the same on both sides, or walk() will come to it or above it.
WalkCovers ==
  fsPc \in {"walk", "checkStop", "passed"} =>
    /\ Same(TopLevel)
    /\ fsError = FALSE => \A p \in DOMAIN tree : Same(p) \/ \E i \in 0 .. Len(p) : SubSeq(p, 1, i) \in toWalk
    /\ fsPc = "passed" => toWalk = {}

\* The inductive invariant of the file system test.
FsInv == TreeIsClosed /\ TreeIsOnDisk /\ ErrorsPass /\ MountsEnd /\ WalkCovers

\* Beginnings of a path.
LEMMA Beginnings ==
  ASSUME NEW S, NEW p \in Seq(S)
  PROVE  /\ SubSeq(p, 1, 0) = << >> /\ SubSeq(p, 1, Len(p)) = p
         /\ \A i \in 0 .. Len(p) : SubSeq(p, 1, i) \in Seq(S) /\ Len(SubSeq(p, 1, i)) = i
         /\ \A i \in 0 .. Len(p) - 1 : /\ SubSeq(p, 1, i + 1) # << >>
                                      /\ Front(SubSeq(p, 1, i + 1)) = SubSeq(p, 1, i)
         /\ \A x \in S : \A i \in 0 .. Len(p) : SubSeq(Append(p, x), 1, i) = SubSeq(p, 1, i)
<1>1. SubSeq(p, 1, 0) = << >> /\ SubSeq(p, 1, Len(p)) = p
  OBVIOUS
<1>2. \A i \in 0 .. Len(p) : /\ SubSeq(p, 1, i) \in Seq(S) /\ Len(SubSeq(p, 1, i)) = i
                             /\ \A j \in 1 .. i : SubSeq(p, 1, i)[j] = p[j]
  OBVIOUS
<1>3. ASSUME NEW i \in 0 .. Len(p) - 1
      PROVE  SubSeq(p, 1, i + 1) # << >> /\ Front(SubSeq(p, 1, i + 1)) = SubSeq(p, 1, i)
  <2>1. PICK s : s = SubSeq(p, 1, i + 1)
    OBVIOUS
  <2>2. s \in Seq(S) /\ Len(s) = i + 1 /\ \A j \in 1 .. i + 1 : s[j] = p[j]
    BY <1>2, <2>1
  <2>3. Front(s) = SubSeq(s, 1, i)
    BY <2>2 DEF Front
  <2>4. SubSeq(s, 1, i) \in Seq(S) /\ Len(SubSeq(s, 1, i)) = i /\ \A j \in 1 .. i : SubSeq(s, 1, i)[j] = s[j]
    BY <2>2
  <2>5. SubSeq(s, 1, i) = SubSeq(p, 1, i)
    BY <1>2, <2>2, <2>4
  <2>6. QED
    BY <2>1, <2>2, <2>3, <2>5
<1>4. ASSUME NEW x \in S, NEW i \in 0 .. Len(p) PROVE SubSeq(Append(p, x), 1, i) = SubSeq(p, 1, i)
  <2>1. PICK s : s = Append(p, x)
    OBVIOUS
  <2>2. s \in Seq(S) /\ Len(s) = Len(p) + 1 /\ \A j \in 1 .. Len(p) : s[j] = p[j]
    BY <2>1
  <2>3. SubSeq(s, 1, i) \in Seq(S) /\ Len(SubSeq(s, 1, i)) = i /\ \A j \in 1 .. i : SubSeq(s, 1, i)[j] = s[j]
    BY <2>2
  <2>4. SubSeq(s, 1, i) = SubSeq(p, 1, i)
    BY <1>2, <2>2, <2>3
  <2>5. QED
    BY <2>1, <2>4
<1>5. QED
  BY <1>1, <1>2, <1>3, <1>4

\* start() from where nothing is mounted, and stop().
LEMMA StartMounts ==
  ASSUME MountsEnd, fsPc \in {"start", "walk"}, NEW o \in StartOutcomes, MountStart(o), Counted(o),
         fsPc' = "failed" <=> o # "done", fsPc' \in {"make", "checkStop", "failed"}
  PROVE  MountsEnd'
<1>1. o \in {"done", "losetup", "mount"} /\ setupFault = "none" /\ ~loop /\ ~mounted
  BY DEF StartOutcomes, MountsEnd
<1>2. /\ loop' = (o # "losetup") /\ mounted' = (o = "done")
      /\ setupFault' = IF o = "done" THEN "none" ELSE o
  BY <1>1 DEF MountStart, Counted
<1>3. QED
  BY <1>1, <1>2 DEF MountsEnd

\* A command of stop() leaves what MountsEnd says, whether it works or fails.
LEMMA StopUnmounts ==
  ASSUME MountsEnd, fsPc \in {"stop", "checkStop"}, NEW o \in StopOutcomes, MountStop(o), Counted(o),
         fsPc' = IF o # "done" \/ fsError THEN "failed" ELSE "walk"
  PROVE  MountsEnd'
<1>1. o \in {"done", "umount", "detach"} /\ setupFault = "none"
  BY DEF StopOutcomes, MountsEnd
<1>2. /\ loop' = (o # "done") /\ mounted' = (o = "umount")
      /\ setupFault' = IF o = "done" THEN "none" ELSE o
  BY <1>1 DEF MountStop, Counted
<1>3. QED
  BY <1>1, <1>2 DEF MountsEnd

\* A freshly made image holds the top directory alone.
LEMMA FsInvInit == ASSUME FsInit PROVE FsInv
<1>1. DOMAIN tree = {<< >>} /\ disk = tree /\ driver = tree /\ tree[<< >>] = << "dir" >>
  BY DEF FsInit, NoNodes, TopLevel
<1>2. << >> \in Seq(RandNames) /\ Len(<< >>) = 0
  OBVIOUS
<1>3. TreeIsClosed
  BY <1>1, <1>2 DEF TreeIsClosed, TopLevel
<1>4. QED
  BY <1>1, <1>3 DEF FsInit, FsInv, TreeIsOnDisk, ErrorsPass, MountsEnd, WalkCovers, FsSteps

\* A node that was made is below a directory, on the image and in the record.
LEMMA MakeKeeps ==
  ASSUME FsInv, NEW d \in DOMAIN tree, NEW x \in RandNames, NEW v, NEW refused,
         IsDir(tree, d), MakeNode(Append(d, x), v, refused),
         IsDir(disk, Append(d, x)) /\ v # << "dir" >> => refused
  PROVE  FsInv'
<1> DEFINE p == Append(d, x)
<1>1. PICK ok \in BOOLEAN : (ok => ~refused) /\ WriteThenRecord(p, v, ok)
  BY DEF MakeNode
<1>2. fsPc = "make" /\ fsError = FALSE /\ UNCHANGED << loop, mounted, driver, toWalk, setupFault >>
  BY DEF MakeNode, FsInv, ErrorsPass
<1>3. CASE ~ok
  <2>1. tree' = tree /\ fsError' = TRUE /\ fsPc' = "stop"
    BY <1>1, <1>3 DEF WriteThenRecord
  <2>2. TreeIsClosed'
    BY <2>1 DEF FsInv, TreeIsClosed
  <2>3. QED
    BY <1>2, <2>1, <2>2 DEF FsInv, TreeIsOnDisk, ErrorsPass, MountsEnd, WalkCovers, FsSteps
<1>4. CASE ok
  <2>1. disk' = PutNode(disk, p, v) /\ tree' = PutNode(tree, p, v) /\ fsError' = FALSE /\ fsPc' = "make"
    BY <1>1, <1>2, <1>4 DEF WriteThenRecord
  <2>2. ~refused
    BY <1>1, <1>4
  <2>3. d \in Seq(RandNames) /\ p \in Seq(RandNames) /\ Len(p) = Len(d) + 1 /\ p # d /\ p # << >>
    BY SMTT(30) DEF FsInv, TreeIsClosed
  <2>4. \A q \in DOMAIN tree : q \in DOMAIN disk /\ disk[q] = tree[q]
    BY <1>2 DEF FsInv, TreeIsOnDisk
  <2> HIDE DEF p
  <2>5. /\ DOMAIN tree' = DOMAIN tree \cup {p} /\ DOMAIN disk' = DOMAIN disk \cup {p}
        /\ tree'[p] = v /\ disk'[p] = v
        /\ \A q \in DOMAIN tree : q # p => tree'[q] = tree[q]
        /\ \A q \in DOMAIN disk : q # p => disk'[q] = disk[q]
    BY <2>1 DEF PutNode
  <2>6. ASSUME NEW q, IsDir(tree, q) PROVE IsDir(tree', q)
    <3>1. CASE q = p
      <4>1. IsDir(disk, p)
        BY <2>4, <2>6, <3>1 DEF IsDir
      <4>2. v = << "dir" >>
        BY <2>2, <4>1 DEF p
      <4>3. QED
        BY <2>5, <3>1, <4>2 DEF IsDir
    <3>2. CASE q # p
      BY <2>5, <2>6, <3>2 DEF IsDir
    <3>3. QED
      BY <3>1, <3>2
  <2>7. TreeIsClosed'
    <3>1. ASSUME NEW q \in DOMAIN tree', NEW i \in 0 .. Len(q) - 1 PROVE IsDir(tree', SubSeq(q, 1, i))
      <4>1. CASE q \in DOMAIN tree
        <5>1. IsDir(tree, SubSeq(q, 1, i))
          BY <4>1 DEF FsInv, TreeIsClosed
        <5>2. QED
          BY <2>6, <5>1
      <4>2. CASE q = p
        <5>1. i \in 0 .. Len(d)
          BY <2>3, <4>2
        <5>2. SubSeq(q, 1, i) = SubSeq(d, 1, i) /\ SubSeq(d, 1, Len(d)) = d
          BY <2>3, <4>2, <5>1, Beginnings DEF p
        <5>3. i # Len(d) => i \in 0 .. Len(d) - 1
          <6>1. Len(d) \in Nat
            BY <2>3
          <6>2. QED
            BY ONLY <5>1, <6>1
        <5>4. IsDir(tree, SubSeq(d, 1, i))
          BY <5>2, <5>3, Zenon DEF FsInv, TreeIsClosed
        <5>5. QED
          BY <2>6, <5>2, <5>4
      <4>3. QED
        BY <2>5, <4>1, <4>2
    <3>2. DOMAIN tree' \subseteq Seq(RandNames) /\ TopLevel \in DOMAIN tree' /\ tree'[TopLevel] = << "dir" >>
      BY <2>3, <2>5 DEF FsInv, TreeIsClosed, TopLevel
    <3>3. QED
      BY <3>1, <3>2 DEF TreeIsClosed
  <2>8. TreeIsOnDisk'
    BY <2>4, <2>5 DEF TreeIsOnDisk
  <2>9. QED
    BY <1>2, <2>1, <2>7, <2>8 DEF FsInv, ErrorsPass, MountsEnd, WalkCovers, FsSteps
<1>5. QED
  BY <1>3, <1>4

\* stop(), and the beginning of the walk: whatever the driver sees, it sees the
\* top level.
LEMMA StopKeeps == ASSUME FsInv, Stop PROVE FsInv'
<1>1. PICK o \in StopOutcomes : /\ MountStop(o) /\ Counted(o)
                               /\ fsPc' = IF o # "done" \/ fsError THEN "failed" ELSE "walk"
  BY DEF Stop
<1>2. fsPc = "stop" /\ driver' \in Views /\ toWalk' = {<< >>} /\ UNCHANGED << disk, tree, fsError >>
  BY DEF Stop, TopLevel
<1>3. TreeIsClosed' /\ TreeIsOnDisk'
  BY <1>2 DEF FsInv, TreeIsClosed, TreeIsOnDisk
<1>4. ErrorsPass'
  BY <1>1, <1>2 DEF FsInv, ErrorsPass, FsSteps
<1>5. MountsEnd'
  BY <1>1, <1>2, StopUnmounts DEF FsInv
<1>6. ASSUME fsPc' = "walk" PROVE WalkCovers'
  <2>1. fsError = FALSE
    BY <1>1, <1>6 DEF FsInv, ErrorsPass
  <2>2. << >> \in DOMAIN disk /\ disk[<< >>] = << "dir" >>
    BY <2>1 DEF FsInv, TreeIsOnDisk, TreeIsClosed, TopLevel
  <2>3. << >> \in DOMAIN driver' /\ driver'[<< >>] = disk'[<< >>]
    BY <1>2, <2>2 DEF Views, IsDir, TopLevel
  <2>4. ASSUME NEW p \in DOMAIN tree' PROVE \E i \in 0 .. Len(p) : SubSeq(p, 1, i) \in toWalk'
    <3>1. p \in Seq(RandNames)
      BY <1>2 DEF FsInv, TreeIsClosed
    <3>2. 0 \in 0 .. Len(p) /\ SubSeq(p, 1, 0) = << >>
      BY <3>1, Beginnings
    <3>3. QED
      BY <1>2, <3>2
  <2>5. QED
    BY <1>6, <2>3, <2>4 DEF WalkCovers, Same, TopLevel
<1>7. WalkCovers'
  BY <1>1, <1>6 DEF WalkCovers
<1>8. QED
  BY <1>3, <1>4, <1>5, <1>7 DEF FsInv

\* A step of the walk, from a node to its children.
LEMMA WalkKeeps == ASSUME FsInv, NEW p \in toWalk, WalkNode(p) PROVE FsInv'
<1>1. /\ fsPc = "walk" /\ fsError = FALSE /\ toWalk' = (toWalk \ {p}) \cup WalkInto(p)
      /\ UNCHANGED << disk, tree, driver >>
  BY DEF WalkNode, FsInv, ErrorsPass
<1>2. TreeIsClosed'
  BY <1>1 DEF FsInv, TreeIsClosed
<1>3. \A q \in DOMAIN tree : q \in DOMAIN disk /\ disk[q] = tree[q]
  BY <1>1 DEF FsInv, TreeIsOnDisk
<1>4. TreeIsOnDisk'
  BY <1>1, <1>3 DEF TreeIsOnDisk
<1>5. \/ p = TopLevel /\ UNCHANGED << loop, mounted, setupFault, fsPc, fsError >>
      \/ p # TopLevel /\ fsPc' = "checkStop" /\ fsError' = (~CrossChecked(p))
      \/ p # TopLevel /\ fsPc' = "failed" /\ fsError' = FALSE
  BY DEF WalkNode
<1>6. ErrorsPass'
  BY <1>1, <1>5 DEF ErrorsPass, FsSteps
<1>7. MountsEnd'
  <2>1. CASE p = TopLevel
    BY <1>1, <1>5, <2>1 DEF FsInv, MountsEnd
  <2>2. CASE p # TopLevel
    <3>1. PICK o \in StartOutcomes : /\ MountStart(o) /\ Counted(o)
                                     /\ fsPc' = IF o = "done" THEN "checkStop" ELSE "failed"
      BY <2>2 DEF WalkNode
    <3>2. QED
      BY <1>1, <3>1, StartMounts DEF FsInv
  <2>3. QED
    BY <2>1, <2>2
<1>8. ASSUME fsError' = FALSE, fsPc' # "failed", NEW q \in DOMAIN tree
      PROVE  Same(q) \/ \E i \in 0 .. Len(q) : SubSeq(q, 1, i) \in toWalk'
  <2>1. Same(q) \/ \E i \in 0 .. Len(q) : SubSeq(q, 1, i) \in toWalk
    BY <1>1 DEF FsInv, WalkCovers
  <2>2. ASSUME NEW i \in 0 .. Len(q), SubSeq(q, 1, i) = p
        PROVE  Same(q) \/ \E j \in 0 .. Len(q) : SubSeq(q, 1, j) \in toWalk'
    <3>1. q \in Seq(RandNames)
      BY DEF FsInv, TreeIsClosed
    <3>2. CASE i = Len(q)
      <4>1. q = p
        BY <2>2, <3>1, <3>2, Beginnings
      <4>2. CASE p = TopLevel
        BY <1>1, <4>1, <4>2 DEF FsInv, WalkCovers
      <4>3. CASE p # TopLevel
        <5>1. CrossChecked(p)
          BY <1>5, <1>8, <4>3
        <5>2. Same(p)
          BY <1>3, <4>1, <5>1 DEF CrossChecked, StatSame, ReadSame, IsDir, Same
        <5>3. QED
          BY <4>1, <5>2
      <4>4. QED
        BY <4>2, <4>3
    <3>3. CASE i # Len(q)
      <4>1. i \in 0 .. Len(q) - 1 /\ i + 1 \in 0 .. Len(q)
        BY <3>1, <3>3
      <4>2. PICK c : c = SubSeq(q, 1, i + 1)
        OBVIOUS
      <4>3. c # << >> /\ Front(c) = p
        BY <2>2, <3>1, <4>1, <4>2, Beginnings, ZenonT(60)
      <4>4. IsDir(tree, p)
        BY <2>2, <4>1 DEF FsInv, TreeIsClosed
      <4>5. c \in DOMAIN tree
        <5>1. CASE i + 1 = Len(q)
          <6>1. SubSeq(q, 1, Len(q)) = q
            BY <3>1, Beginnings
          <6>2. QED
            BY <4>2, <5>1, <6>1
        <5>2. CASE i + 1 # Len(q)
          <6>1. i + 1 \in 0 .. Len(q) - 1
            BY <3>1, <4>1, <5>2
          <6>2. QED
            BY <4>2, <6>1 DEF FsInv, TreeIsClosed, IsDir
        <5>3. QED
          BY <5>1, <5>2
      <4>6. c \in toWalk'
        BY <1>1, <4>3, <4>4, <4>5 DEF WalkInto, Children, TopLevel
      <4>7. QED
        BY <4>1, <4>2, <4>6
    <3>4. QED
      BY <3>2, <3>3
  <2>3. QED
    BY <1>1, <2>1, <2>2
<1>9. WalkCovers'
  BY <1>1, <1>5, <1>8 DEF FsInv, WalkCovers, Same
<1>10. QED
  BY <1>2, <1>4, <1>6, <1>7, <1>9 DEF FsInv

\* Every step of fstest.py keeps the invariant.
LEMMA FsInvNext == ASSUME FsInv, [FsNext]_fsVars PROVE FsInv'
<1>1. ASSUME UNCHANGED << disk, tree, driver, toWalk >> PROVE TreeIsClosed' /\ (fsError' = fsError => TreeIsOnDisk')
  BY <1>1 DEF FsInv, TreeIsClosed, TreeIsOnDisk
<1>2. CASE MkImg \/ MadeAll
  <2>1. UNCHANGED << disk, tree, driver, toWalk, fsError, loop, mounted, setupFault >> /\ fsPc' \in {"start", "failed", "stop"}
    BY <1>2 DEF MkImg, MadeAll
  <2>2. fsPc \in {"mkimg", "make"} /\ (fsPc' # "stop" => fsPc = "mkimg")
    BY <1>2 DEF MkImg, MadeAll
  <2>3. QED
    BY <1>1, <2>1, <2>2 DEF FsInv, ErrorsPass, MountsEnd, WalkCovers, FsSteps
<1>3. CASE StartFilling
  <2>1. /\ UNCHANGED << disk, tree, driver, toWalk, fsError >> /\ fsPc = "start"
        /\ fsPc' \in {"make", "failed"}
    BY <1>3 DEF StartFilling
  <2>2. PICK o \in StartOutcomes : /\ MountStart(o) /\ Counted(o)
                                   /\ fsPc' = IF o = "done" THEN "make" ELSE "failed"
    BY <1>3 DEF StartFilling
  <2>3. MountsEnd'
    BY <2>1, <2>2, StartMounts DEF FsInv
  <2>4. QED
    BY <1>1, <2>1, <2>3 DEF FsInv, ErrorsPass, WalkCovers, FsSteps
<1>4. ASSUME NEW d \in DOMAIN tree, NEW x \in RandNames, MakeDir(d, x) PROVE FsInv'
  <2>1. MakeNode(Append(d, x), << "dir" >>, Append(d, x) \in DOMAIN disk) /\ IsDir(tree, d)
    BY <1>4 DEF MakeDir
  <2>2. QED
    BY <2>1, MakeKeeps
<1>5. ASSUME NEW d \in DOMAIN tree, NEW x \in RandNames, NEW c \in Contents, MakeFile(d, x, c) PROVE FsInv'
  <2>1. MakeNode(Append(d, x), << "file", c >>, IsDir(disk, Append(d, x))) /\ IsDir(tree, d)
    BY <1>5 DEF MakeFile
  <2>2. QED
    BY <2>1, MakeKeeps
<1>6. CASE VisitStop
  <2>1. PICK o \in StopOutcomes : /\ MountStop(o) /\ Counted(o)
                                 /\ fsPc' = IF o # "done" \/ fsError THEN "failed" ELSE "walk"
    BY <1>6 DEF VisitStop
  <2>2. fsPc = "checkStop" /\ UNCHANGED << disk, tree, driver, toWalk, fsError >>
    BY <1>6 DEF VisitStop
  <2>3. ErrorsPass'
    BY <2>1, <2>2 DEF FsInv, ErrorsPass, FsSteps
  <2>4. MountsEnd'
    BY <2>1, <2>2, StopUnmounts DEF FsInv
  <2>5. WalkCovers'
    BY <2>1, <2>2 DEF FsInv, WalkCovers, Same
  <2>6. QED
    BY <1>1, <2>2, <2>3, <2>4, <2>5 DEF FsInv
<1>7. CASE Passed
  <2>1. /\ UNCHANGED << loop, mounted, disk, tree, driver, toWalk, fsError, setupFault >>
        /\ fsPc = "walk" /\ fsPc' = "passed" /\ toWalk = {}
    BY <1>7 DEF Passed
  <2>2. WalkCovers'
    BY <2>1 DEF FsInv, WalkCovers, Same
  <2>3. QED
    BY <1>1, <2>1, <2>2 DEF FsInv, ErrorsPass, MountsEnd, FsSteps
<1>8. CASE UNCHANGED fsVars
  <2>1. WalkCovers'
    BY <1>8 DEF FsInv, WalkCovers, Same, fsVars
  <2>2. ErrorsPass' /\ MountsEnd'
    BY <1>8 DEF FsInv, ErrorsPass, MountsEnd, fsVars
  <2>3. QED
    BY <1>1, <1>8, <2>1, <2>2 DEF FsInv, fsVars
<1>9. QED
  BY <1>2, <1>3, <1>4, <1>5, <1>6, <1>7, <1>8, StopKeeps, WalkKeeps DEF FsNext

\* The verdict of fstest.py: what it recorded is what it made; a test that passes has
\* found every node the same on both sides; and what is left mounted or attached is
\* exactly what the one failing command of start() or stop() leaves.
THEOREM FsTestIsSound == FsSpec => []FsTestSound
<1>1. FsInit => FsInv
  BY FsInvInit
<1>2. FsInv /\ [FsNext]_fsVars => FsInv'
  BY FsInvNext
<1>3. ASSUME FsInv PROVE FsTestSound
  <2>1. PassedMeansSame
    BY <1>3 DEF FsInv, WalkCovers, ErrorsPass, PassedMeansSame, Same
  <2>2. LeftMounted
    BY <1>3 DEF FsInv, MountsEnd, LeftMounted
  <2>3. QED
    BY <1>3, <2>1, <2>2 DEF FsInv, FsTestSound
<1>4. QED
  BY <1>1, <1>2, <1>3, PTL DEF FsSpec

-----------------------------------------------------------------------------
(***************************************************************************)
(* The search for paths: where it has been and where it will go on.        *)
(***************************************************************************)

\* The calls of _recurse().
Frames == [path : Seq(Nodes) \ {<< >>}, left : SUBSET Nodes]

\* The types of graph.py's values, and what is there at which point.
PathTypeOK ==
  /\ graphFile \in GraphFiles /\ graphLine \in Nat \ {0}
  /\ edges \subseteq Nodes \X Nodes
  /\ searching \in Seq(Frames) /\ tried \subseteq Seq(Nodes) \ {<< >>}
  /\ pathPc = "load" => tried = {} /\ searching = << >>
  /\ pathPc \in {"search", "done"} => root \in Nodes
  /\ pathPc = "search" => root # goal /\ searching # << >>
  /\ pathPc = "done" => searching = << >> /\ (root = goal => << root >> \in paths)

\* A call of _recurse() will go on from path t to node n.
Waits(t, n) == \E i \in DOMAIN searching : searching[i].path = t /\ n \in searching[i].left

\* From every path tried the search has gone on to each next node, or will, or
\* has seen a round twice.
TriedGoOn ==
  pathPc \in {"search", "done"} /\ root # goal =>
    /\ \A t \in tried : Last(t) = goal => t \in paths
    /\ \A t \in tried \cup {<< root >>} : Last(t) # goal =>
         \A n \in NextNodes(Last(t)) : Append(t, n) \in tried \/ HasDoubleCycle(t) \/ Waits(t, n)

\* The inductive invariant of the search.
PathInv == PathTypeOK /\ TriedGoOn

\* The least of a set of numbers is one of them, and below all of them.
LEMMA MinIsLeast == ASSUME NEW S, S \subseteq Nat, S # {} PROVE Min(S) \in S /\ \A y \in S : Min(S) <= y
<1> DEFINE R == OpToRel(<, Nat)
<1>1. IsWellFoundedOn(R, Nat)
  BY NatLessThanWellFounded
<1>2. \A i, j \in Nat : i < j => << i, j >> \in R
  BY DEF OpToRel
<1> HIDE DEF R
<1>3. PICK n \in S : \A i \in S : << i, n >> \notin R
  BY <1>1, WFMin
<1>4. ASSUME NEW i \in S PROVE n <= i
  <2>1. i \in Nat /\ n \in Nat /\ ~(i < n)
    BY <1>2, <1>3
  <2>2. QED
    BY <2>1
<1>5. QED
  BY <1>3, <1>4 DEF Min

\* The least of a set of numbers is one of them.
LEMMA MinIsOne == ASSUME NEW S, S \subseteq Nat, S # {} PROVE Min(S) \in S
BY MinIsLeast

\* The stack of calls with its top replaced, and with a call on it.
LEMMA TopReplaced ==
  ASSUME NEW S, NEW s \in Seq(S), s # << >>, NEW x \in S, NEW y \in S
  PROVE  /\ Last(s) = s[Len(s)] /\ Len(s) \in Nat \ {0} /\ DOMAIN s = 1 .. Len(s) /\ s[Len(s)] \in S
         /\ Front(s) \in Seq(S) /\ Len(Front(s)) = Len(s) - 1 /\ \A i \in 1 .. Len(s) - 1 : Front(s)[i] = s[i]
         /\ Append(Front(s), x) \in Seq(S) /\ Len(Append(Front(s), x)) = Len(s)
         /\ Append(Front(s), x)[Len(s)] = x /\ \A i \in 1 .. Len(s) - 1 : Append(Front(s), x)[i] = s[i]
         /\ Append(Append(Front(s), x), y) \in Seq(S) /\ Len(Append(Append(Front(s), x), y)) = Len(s) + 1
         /\ Append(Append(Front(s), x), y)[Len(s)] = x /\ Append(Append(Front(s), x), y)[Len(s) + 1] = y
         /\ \A i \in 1 .. Len(s) - 1 : Append(Append(Front(s), x), y)[i] = s[i]
<1>1. Last(s) = s[Len(s)] /\ Len(s) \in Nat \ {0} /\ DOMAIN s = 1 .. Len(s) /\ s[Len(s)] \in S
  BY DEF Last
<1>2. PICK f : f = Front(s)
  OBVIOUS
<1>3. f \in Seq(S) /\ Len(f) = Len(s) - 1 /\ \A i \in 1 .. Len(s) - 1 : f[i] = s[i]
  <2>1. f = SubSeq(s, 1, Len(s) - 1)
    BY <1>2 DEF Front
  <2>2. QED
    BY <1>1, <2>1
<1>4. /\ Append(f, x) \in Seq(S) /\ Len(Append(f, x)) = Len(s)
      /\ Append(f, x)[Len(s)] = x /\ \A i \in 1 .. Len(s) - 1 : Append(f, x)[i] = s[i]
  <2>1. Append(f, x) \in Seq(S) /\ Len(Append(f, x)) = Len(f) + 1
    BY <1>3
  <2>2. Append(f, x)[Len(f) + 1] = x
    BY <1>3
  <2>3. \A i \in 1 .. Len(f) : Append(f, x)[i] = f[i]
    BY <1>3
  <2>4. QED
    BY <1>1, <1>3, <2>1, <2>2, <2>3
<1>5. PICK g : g = Append(f, x)
  OBVIOUS
<1>6. g \in Seq(S) /\ Len(g) = Len(s) /\ Append(g, y) \in Seq(S) /\ Len(Append(g, y)) = Len(g) + 1
  BY <1>4, <1>5
<1>7. Append(g, y)[Len(g) + 1] = y /\ \A i \in 1 .. Len(g) : Append(g, y)[i] = g[i]
  BY <1>6
<1>8. /\ Append(g, y)[Len(s)] = x /\ Append(g, y)[Len(s) + 1] = y
      /\ \A i \in 1 .. Len(s) - 1 : Append(g, y)[i] = s[i]
  <2>1. \A i \in 1 .. Len(s) : Append(g, y)[i] = g[i]
    BY <1>6, <1>7
  <2>2. Len(s) \in 1 .. Len(s) /\ \A i \in 1 .. Len(s) - 1 : i \in 1 .. Len(s)
    BY <1>1
  <2>3. g[Len(s)] = x /\ \A i \in 1 .. Len(s) - 1 : g[i] = s[i]
    BY <1>4, <1>5
  <2>4. QED
    BY <1>6, <1>7, <2>1, <2>2, <2>3
<1>9. QED
  BY <1>1, <1>2, <1>3, <1>4, <1>5, <1>6, <1>8

\* The call on top, while the search goes on.
LEMMA TopIsFrame ==
  ASSUME PathInv, pathPc = "search"
  PROVE  /\ Len(searching) \in Nat \ {0} /\ DOMAIN searching = 1 .. Len(searching)
         /\ Top = searching[Len(searching)] /\ Top \in Frames
         /\ Top.path \in Seq(Nodes) /\ Top.path # << >> /\ Top.left \subseteq Nodes
         /\ Top.left # {} => Min(Top.left) \in Top.left
         /\ Taken \in Frames /\ Taken.path = Top.path /\ Taken.left = Top.left \ {Min(Top.left)}
<1>1. searching \in Seq(Frames) /\ searching # << >>
  BY DEF PathInv, PathTypeOK
<1>2. /\ Len(searching) \in Nat \ {0} /\ DOMAIN searching = 1 .. Len(searching)
      /\ Top = searching[Len(searching)] /\ Top \in Frames
  <2>1. Top = Last(searching)
    BY DEF Top
  <2>2. Frames # {}
    BY <1>1
  <2>3. QED
    BY <1>1, <2>1 DEF Last
<1>3. Top.path \in Seq(Nodes) /\ Top.path # << >> /\ Top.left \subseteq Nodes
  BY <1>2 DEF Frames
<1>4. Top.left # {} => Min(Top.left) \in Top.left
  BY <1>3, MinIsOne, PathSearchAssumption
<1>5. Taken \in Frames /\ Taken.path = Top.path /\ Taken.left = Top.left \ {Min(Top.left)}
  BY <1>2 DEF Taken, Frames
<1>6. QED
  BY <1>2, <1>3, <1>4, <1>5

\* A path and a node after it.
LEMMA PathGrows ==
  ASSUME NEW t \in Seq(Nodes), NEW n \in Nodes
  PROVE  Append(t, n) \in Seq(Nodes) \ {<< >>} /\ Last(Append(t, n)) = n
<1>1. PICK a : a = Append(t, n)
  OBVIOUS
<1>2. a \in Seq(Nodes) /\ Len(a) = Len(t) + 1 /\ a[Len(a)] = n
  BY <1>1
<1>3. QED
  BY <1>1, <1>2 DEF Last

\* What a new call has still to go on with.
LEMMA FrameOfPath ==
  ASSUME PathInv, NEW t \in Seq(Nodes) \ {<< >>}
  PROVE  Frame(t) \in Frames /\ Frame(t).path = t /\ Frame(t).left = NextNodes(Last(t))
<1>1. NextNodes(Last(t)) \subseteq Nodes
  BY DEF NextNodes, PathInv, PathTypeOK
<1>2. QED
  BY <1>1 DEF Frame, Frames

\* The lines of the file make edges between chapters.
LEMMA LoadKeeps ==
  ASSUME PathInv, ReadEdge \/ ReadFiles \/ SkipBlank \/ RefuseLine PROVE PathInv'
<1>1. Loading /\ pathPc = "load" /\ pathPc' \in {"load", "refused"}
      /\ UNCHANGED << graphFile, searching, tried >> /\ graphLine' \in Nat \ {0}
  <2>1. graphLine \in Nat \ {0}
    BY DEF PathInv, PathTypeOK
  <2>2. CASE ReadEdge
    BY <2>1, <2>2 DEF ReadEdge, Loading
  <2>3. CASE ReadFiles
    BY <2>1, <2>3 DEF ReadFiles, Loading
  <2>4. CASE SkipBlank \/ RefuseLine
    BY <2>1, <2>4 DEF SkipBlank, RefuseLine, Loading, graphVars
  <2>5. QED
    BY <2>2, <2>3, <2>4
<1>2. edges' \subseteq Nodes \X Nodes
  <2>1. CASE ReadEdge
    <3>1. graphFile \in Seq(ToSet(graphFile)) /\ graphLine \in 1 .. Len(graphFile)
      BY <1>1, PathSearchAssumption DEF Loading, PathInv, PathTypeOK
    <3>2. ThisLine \in ToSet(graphFile)
      BY <3>1 DEF ThisLine
    <3>3. ThisLine[2] \in Nodes /\ ThisLine[3] \in Nodes
      BY <2>1, <3>2, PathSearchAssumption DEF ReadEdge, PathInv, PathTypeOK
    <3>4. QED
      BY <2>1, <3>3 DEF ReadEdge, PathInv, PathTypeOK
  <2>2. CASE ~ReadEdge
    BY <2>2 DEF ReadFiles, SkipBlank, RefuseLine, graphVars, PathInv, PathTypeOK
  <2>3. QED
    BY <2>1, <2>2
<1>3. QED
  BY <1>1, <1>2 DEF PathInv, PathTypeOK, TriedGoOn

\* find_paths() starts at the root.
LEMMA FindKeeps ==
  ASSUME PathInv, NEW r \in Nodes, NEW g \in Nodes, FindPaths(r, g) PROVE PathInv'
<1>1. pathPc = "load" /\ tried' = {} /\ root' = r /\ goal' = g /\ UNCHANGED graphVars
  BY DEF FindPaths, PathInv, PathTypeOK
<1>2. << r >> \in Seq(Nodes) \ {<< >>} /\ Last(<< r >>) = r
  BY DEF Last
<1>3. CASE pathPc' = "refused" /\ UNCHANGED << searching, paths >>
  BY <1>1, <1>3 DEF PathInv, PathTypeOK, TriedGoOn, graphVars
<1>4. CASE r = g /\ pathPc' = "done" /\ paths' = {<< r >>} /\ UNCHANGED searching
  <2>1. searching = << >>
    BY <1>1 DEF PathInv, PathTypeOK
  <2>2. QED
    BY <1>1, <1>4, <2>1 DEF PathInv, PathTypeOK, TriedGoOn, graphVars
<1>5. CASE r # g /\ pathPc' = "search" /\ searching' = << Frame(<< r >>) >>
  <2>1. Frame(<< r >>) \in Frames /\ Frame(<< r >>).path = << r >> /\ Frame(<< r >>).left = NextNodes(r)
    BY <1>2, FrameOfPath
  <2>2. searching' \in Seq(Frames) /\ Len(searching') = 1 /\ searching'[1] = Frame(<< r >>) /\ searching' # << >>
    BY <1>5, <2>1
  <2>3. \A n \in NextNodes(r)' : Waits(<< r >>, n)'
    BY <1>1, <2>1, <2>2 DEF Waits, NextNodes, graphVars
  <2>4. TriedGoOn'
    BY <1>1, <1>2, <2>3 DEF TriedGoOn
  <2>5. QED
    BY <1>1, <1>5, <2>2, <2>4 DEF PathInv, PathTypeOK, graphVars
<1>6. QED
  BY <1>3, <1>4, <1>5 DEF FindPaths

\* A call goes on to its next node, without a call of its own for it: the node
\* is no longer left, and the other calls still have what they had.
LEMMA TopTakes ==
  ASSUME PathInv, pathPc = "search", Top.left # {}, tried' \subseteq Seq(Nodes) \ {<< >>},
         UNCHANGED << graphVars, root, goal, pathPc >>,
         NEW t, NEW n, NEW f \in Frames,
         \/ searching' = Append(Front(searching), Taken)
         \/ searching' = Append(Append(Front(searching), Taken), f)
  PROVE  /\ searching' \in Seq(Frames) /\ searching' # << >>
         /\ Waits(t, n) => Waits(t, n)' \/ (t = Top.path /\ n = Min(Top.left))
<1>1. searching \in Seq(Frames) /\ searching # << >> /\ Taken \in Frames
  BY TopIsFrame DEF PathInv, PathTypeOK
<1>2. /\ Len(searching) \in Nat \ {0} /\ DOMAIN searching = 1 .. Len(searching)
      /\ Top = searching[Len(searching)]
      /\ Taken.path = Top.path /\ Taken.left = Top.left \ {Min(Top.left)}
  BY TopIsFrame
<1>3. /\ searching' \in Seq(Frames) /\ Len(searching') >= Len(searching)
      /\ searching'[Len(searching)] = Taken
      /\ \A i \in 1 .. Len(searching) - 1 : searching'[i] = searching[i]
  <2>1. CASE searching' = Append(Front(searching), Taken)
    <3>1. /\ searching' \in Seq(Frames) /\ Len(searching') = Len(searching)
          /\ searching'[Len(searching)] = Taken
          /\ \A i \in 1 .. Len(searching) - 1 : searching'[i] = searching[i]
      BY <1>1, <2>1, TopReplaced
    <3>2. QED
      BY <1>2, <3>1
  <2>2. CASE searching' = Append(Append(Front(searching), Taken), f)
    <3>1. /\ searching' \in Seq(Frames) /\ Len(searching') = Len(searching) + 1
          /\ searching'[Len(searching)] = Taken
          /\ \A i \in 1 .. Len(searching) - 1 : searching'[i] = searching[i]
      BY <1>1, <2>2, TopReplaced
    <3>2. QED
      BY <1>2, <3>1
  <2>3. QED
    BY <2>1, <2>2
<1>4. searching' # << >> /\ \A i \in 1 .. Len(searching) : i \in DOMAIN searching'
  BY <1>2, <1>3
<1>5. ASSUME Waits(t, n), ~(t = Top.path /\ n = Min(Top.left)) PROVE Waits(t, n)'
  <2>1. PICK i \in 1 .. Len(searching) : searching[i].path = t /\ n \in searching[i].left
    BY <1>2, <1>5 DEF Waits
  <2>2. i \in DOMAIN searching' /\ searching'[i].path = t /\ n \in searching'[i].left
    BY <1>2, <1>3, <1>4, <1>5, <2>1
  <2>3. QED
    BY <2>2 DEF Waits
<1>6. QED
  BY <1>3, <1>4, <1>5

\* A node that was tried before, or from a path with a round in it twice, is
\* passed over.
LEMMA SkipKeeps == ASSUME PathInv, Skip PROVE PathInv'
<1>1. /\ pathPc = "search" /\ Top.left # {} /\ searching' = Append(Front(searching), Taken)
      /\ UNCHANGED << graphVars, root, goal, tried, paths, pathPc >>
      /\ Append(Top.path, Min(Top.left)) \in tried \/ HasDoubleCycle(Top.path)
  BY DEF Skip, Going, Tried
<1>2. tried' \subseteq Seq(Nodes) \ {<< >>} /\ Taken \in Frames
  BY <1>1, TopIsFrame DEF PathInv, PathTypeOK
<1>3. searching' \in Seq(Frames) /\ searching' # << >>
  BY <1>1, <1>2, TopTakes
<1>4. \A t, n : Waits(t, n) => Waits(t, n)' \/ (t = Top.path /\ n = Min(Top.left))
  BY <1>1, <1>2, TopTakes
<1>5. \A k : NextNodes(k)' = NextNodes(k)
  BY <1>1 DEF NextNodes, graphVars
<1>6. PathTypeOK'
  BY <1>1, <1>3 DEF PathInv, PathTypeOK, graphVars
<1>7. TriedGoOn'
  BY <1>1, <1>4, <1>5 DEF PathInv, TriedGoOn
<1>8. QED
  BY <1>6, <1>7 DEF PathInv

\* A node that is tried is the goal, or has a call of its own.
LEMMA VisitKeeps == ASSUME PathInv, Visit PROVE PathInv'
<1>0. PICK m, a : m = Min(Top.left) /\ a = Append(Top.path, m)
  OBVIOUS
<1>1. /\ pathPc = "search" /\ Top.left # {} /\ tried' = tried \cup {a}
      /\ UNCHANGED << graphVars, root, goal, pathPc >>
      /\ IF m = goal
         THEN paths' = paths \cup {a} /\ searching' = Append(Front(searching), Taken)
         ELSE searching' = Append(Append(Front(searching), Taken), Frame(a)) /\ UNCHANGED paths
  BY <1>0 DEF Visit, Going, Tried
<1>2. Top.path \in Seq(Nodes) /\ m \in Nodes
  BY <1>0, <1>1, TopIsFrame
<1>3. a \in Seq(Nodes) \ {<< >>} /\ Last(a) = m
  BY <1>0, <1>2, PathGrows
<1>4. tried' \subseteq Seq(Nodes) \ {<< >>}
  BY <1>1, <1>3 DEF PathInv, PathTypeOK
<1>5. Frame(a) \in Frames /\ Frame(a).path = a /\ Frame(a).left = NextNodes(m)
  BY <1>3, FrameOfPath
<1>6. searching' \in Seq(Frames) /\ searching' # << >>
  BY <1>1, <1>4, <1>5, TopTakes
<1>7. \A t, n : Waits(t, n) => Waits(t, n)' \/ (t = Top.path /\ n = m)
  BY <1>0, <1>1, <1>4, <1>5, TopTakes
<1>8. \A k : NextNodes(k)' = NextNodes(k)
  BY <1>1 DEF NextNodes, graphVars
<1>9. ASSUME m # goal, NEW n \in NextNodes(m) PROVE Waits(a, n)'
  <2>1. searching \in Seq(Frames) /\ searching # << >> /\ Taken \in Frames
    BY <1>1, TopIsFrame DEF PathInv, PathTypeOK
  <2>2. /\ Len(searching) \in Nat /\ Len(searching') = Len(searching) + 1
        /\ searching'[Len(searching) + 1] = Frame(a)
    BY <1>1, <1>5, <1>9, <2>1, TopReplaced
  <2>3. Len(searching) + 1 \in DOMAIN searching'
    BY <1>6, <2>2
  <2>4. QED
    BY <1>5, <1>9, <2>2, <2>3 DEF Waits
<1>10. PathTypeOK'
  BY <1>1, <1>4, <1>6 DEF PathInv, PathTypeOK, graphVars
<1>11. TriedGoOn'
  <2>1. ASSUME NEW t \in tried', Last(t) = goal PROVE t \in paths'
    BY <1>1, <1>3, <2>1 DEF PathInv, PathTypeOK, TriedGoOn
  <2>2. ASSUME NEW t \in tried' \cup {<< root >>}, Last(t) # goal, NEW n \in NextNodes(Last(t))
        PROVE  Append(t, n) \in tried' \/ HasDoubleCycle(t) \/ Waits(t, n)'
    <3>1. CASE t = a
      BY <1>3, <1>9, <2>2, <3>1
    <3>2. CASE t # a
      <4>1. t \in tried \cup {<< root >>} /\ root # goal
        BY <1>1, <2>2, <3>2 DEF PathInv, PathTypeOK
      <4>2. Append(t, n) \in tried \/ HasDoubleCycle(t) \/ Waits(t, n)
        BY <1>1, <2>2, <4>1 DEF PathInv, TriedGoOn
      <4>3. t = Top.path /\ n = m => Append(t, n) \in tried'
        BY <1>0, <1>1
      <4>4. QED
        BY <1>1, <1>7, <4>2, <4>3
    <3>3. QED
      BY <3>1, <3>2
  <2>3. QED
    BY <1>1, <1>8, <2>1, <2>2 DEF TriedGoOn
<1>12. QED
  BY <1>10, <1>11 DEF PathInv

\* A call that has no node left returns.
LEMMA ReturnKeeps == ASSUME PathInv, Return PROVE PathInv'
<1>1. /\ pathPc = "search" /\ Top.left = {} /\ searching' = Front(searching)
      /\ pathPc' = IF Len(searching) = 1 THEN "done" ELSE "search"
      /\ UNCHANGED << graphVars, root, goal, tried, paths >>
  BY DEF Return
<1>2. searching \in Seq(Frames) /\ searching # << >> /\ root # goal
  BY <1>1 DEF PathInv, PathTypeOK
<1>3. Len(searching) \in Nat \ {0} /\ DOMAIN searching = 1 .. Len(searching) /\ Top = searching[Len(searching)]
  BY <1>1, TopIsFrame
<1>4. /\ searching' \in Seq(Frames) /\ Len(searching') = Len(searching) - 1
      /\ \A i \in 1 .. Len(searching) - 1 : searching'[i] = searching[i]
  <2>1. Top \in Frames
    BY <1>1, TopIsFrame
  <2>2. QED
    BY <1>1, <1>2, <2>1, TopReplaced
<1>5. DOMAIN searching' = 1 .. Len(searching) - 1 /\ (pathPc' = "done" <=> searching' = << >>)
  BY <1>1, <1>3, <1>4
<1>6. ASSUME NEW t, NEW n, Waits(t, n) PROVE Waits(t, n)'
  <2>1. PICK i \in 1 .. Len(searching) : searching[i].path = t /\ n \in searching[i].left
    BY <1>3, <1>6 DEF Waits
  <2>2. i \in 1 .. Len(searching) - 1
    BY <1>1, <1>3, <2>1
  <2>3. QED
    BY <1>4, <1>5, <2>1, <2>2 DEF Waits
<1>7. \A k : NextNodes(k)' = NextNodes(k)
  BY <1>1 DEF NextNodes, graphVars
<1>8. PathTypeOK'
  BY <1>1, <1>2, <1>4, <1>5 DEF PathInv, PathTypeOK, graphVars
<1>9. TriedGoOn'
  BY <1>1, <1>6, <1>7 DEF PathInv, TriedGoOn
<1>10. QED
  BY <1>8, <1>9 DEF PathInv

\* Every step of graph.py keeps the invariant.
LEMMA PathInvNext == ASSUME PathInv, [PathNext]_pathVars PROVE PathInv'
<1>1. CASE Overflow
  BY <1>1 DEF Overflow, graphVars, PathInv, PathTypeOK, TriedGoOn
<1>2. CASE UNCHANGED pathVars
  BY <1>2 DEF pathVars, graphVars, PathInv, PathTypeOK, TriedGoOn, Waits, NextNodes
<1>3. QED
  BY <1>1, <1>2, LoadKeeps, FindKeeps, SkipKeeps, VisitKeeps, ReturnKeeps DEF PathNext

\* No round is on a path that repeats no node.
LEMMA NoDoubleCycle ==
  ASSUME NEW p \in Seq(Nodes), \A i, j \in 1 .. Len(p) : p[i] = p[j] => i = j
  PROVE  ~HasDoubleCycle(p)
<1> SUFFICES ASSUME NEW n \in ToSet(p), NEW x \in CyclesOn(p, n), NEW y \in CyclesOn(p, n), x # y,
                    SubSeq(p, x[1] + 1, x[2] - 1) = SubSeq(p, y[1] + 1, y[2] - 1)
             PROVE  FALSE
  BY DEF HasDoubleCycle
<1>1. Len(p) \in Nat /\ DOMAIN p = 1 .. Len(p)
  OBVIOUS
<1>2. PICK k \in 1 .. Len(p) : n = p[k]
  BY <1>1 DEF ToSet
<1>3. PICK cut : cut = {0, Len(p) + 1} \cup {i \in DOMAIN p : p[i] = n}
  OBVIOUS
<1>4. cut = {0, k, Len(p) + 1}
  BY <1>1, <1>2, <1>3
<1>5. ASSUME NEW z \in CyclesOn(p, n)
      PROVE  (z = << 0, k >> /\ 1 < k) \/ (z = << k, Len(p) + 1 >> /\ k < Len(p))
  <2>1. z \in cut \X cut /\ z[1] + 1 < z[2] /\ \A c \in cut : c <= z[1] \/ c >= z[2]
    BY <1>3 DEF CyclesOn
  <2>2. PICK u, v : u \in cut /\ v \in cut /\ z = << u, v >>
    BY <2>1
  <2>3. z[1] = u /\ z[2] = v
    BY <2>2
  <2>4. u + 1 < v /\ (k <= u \/ k >= v)
    BY <1>4, <2>1, <2>3
  <2>5. (u = 0 /\ v = k) \/ (u = k /\ v = Len(p) + 1)
    BY <1>1, <1>2, <1>4, <2>2, <2>4
  <2>6. QED
    BY <1>1, <1>2, <2>2, <2>4, <2>5
<1>6. 1 < k /\ k < Len(p) /\ SubSeq(p, 1, k - 1) = SubSeq(p, k + 1, Len(p))
  <2>1. (x = << 0, k >> /\ y = << k, Len(p) + 1 >>) \/ (y = << 0, k >> /\ x = << k, Len(p) + 1 >>)
    BY <1>5
  <2>2. 1 < k /\ k < Len(p)
    BY <1>1, <1>2, <1>5, <2>1
  <2>3. 0 + 1 = 1 /\ Len(p) + 1 - 1 = Len(p)
    BY <1>1
  <2>4. CASE x = << 0, k >> /\ y = << k, Len(p) + 1 >>
    <3>1. x[1] = 0 /\ x[2] = k /\ y[1] = k /\ y[2] = Len(p) + 1
      BY <2>4
    <3>2. SubSeq(p, 0 + 1, k - 1) = SubSeq(p, k + 1, Len(p) + 1 - 1)
      BY <3>1
    <3>3. QED
      BY <2>2, <2>3, <3>2
  <2>5. CASE y = << 0, k >> /\ x = << k, Len(p) + 1 >>
    <3>1. y[1] = 0 /\ y[2] = k /\ x[1] = k /\ x[2] = Len(p) + 1
      BY <2>5
    <3>2. SubSeq(p, k + 1, Len(p) + 1 - 1) = SubSeq(p, 0 + 1, k - 1)
      BY <3>1
    <3>3. QED
      BY <2>2, <2>3, <3>2
  <2>6. QED
    BY <2>1, <2>4, <2>5
<1>7. SubSeq(p, 1, k - 1)[1] = p[1] /\ SubSeq(p, k + 1, Len(p))[1] = p[k + 1]
  BY <1>1, <1>2, <1>6
<1>8. p[1] = p[k + 1]
  BY <1>6, <1>7
<1>9. k + 1 \in 1 .. Len(p) /\ 1 \in 1 .. Len(p) /\ 1 # k + 1
  BY <1>1, <1>2, <1>6
<1>10. QED
  BY <1>8, <1>9

\* A simple path is tried node by node.
LEMMA SimpleIsFound ==
  ASSUME PathInv, pathPc = "done", NEW p \in SimplePaths PROVE p \in paths
<1>1. /\ p \in Seq(Nodes) /\ Len(p) \in Nat \ {0} /\ DOMAIN p = 1 .. Len(p)
      /\ p[1] = root /\ p[Len(p)] = goal
      /\ \A i, j \in 1 .. Len(p) : p[i] = p[j] => i = j
      /\ \A i \in 1 .. Len(p) - 1 : p[i + 1] \in NextNodes(p[i])
  <2>1. Cardinality(Nodes) \in Nat
    BY PathSearchAssumption, FS_CardinalityType
  <2>2. PICK k \in 1 .. Cardinality(Nodes) : p \in [1 .. k -> Nodes]
    BY DEF SimplePaths
  <2>3. k \in Nat \ {0} /\ p \in Seq(Nodes) /\ Len(p) = k /\ DOMAIN p = 1 .. k
    BY <2>1, <2>2
  <2>4. p[1] = root /\ Last(p) = goal /\ IsInjective(p) /\ \A i \in 1 .. Len(p) - 1 : << p[i], p[i + 1] >> \in edges
    BY DEF SimplePaths
  <2>5. p[Len(p)] = goal /\ \A i, j \in 1 .. Len(p) : p[i] = p[j] => i = j
    BY <2>3, <2>4 DEF Last, IsInjective
  <2>6. ASSUME NEW i \in 1 .. Len(p) - 1 PROVE p[i + 1] \in NextNodes(p[i])
    <3>1. PICK e \in edges : e = << p[i], p[i + 1] >>
      BY <2>4
    <3>2. e[1] = p[i] /\ e[2] = p[i + 1]
      BY <3>1
    <3>3. QED
      BY <3>2 DEF NextNodes
  <2>7. QED
    BY <2>3, <2>4, <2>5, <2>6
<1>2. searching = << >> /\ (root = goal => << root >> \in paths)
  BY DEF PathInv, PathTypeOK
<1>3. CASE root = goal
  <2>1. Len(p) = 1
    BY <1>1, <1>3
  <2>2. p = << root >>
    BY <1>1, <2>1
  <2>3. QED
    BY <1>2, <1>3, <2>2
<1>4. CASE root # goal
  <2> DEFINE S == {k \in Nat : k + 1 <= Len(p) => \/ SubSeq(p, 1, k + 1) \in tried
                                               \/ (k = 0 /\ SubSeq(p, 1, k + 1) = << root >>)}
  <2>1. 0 \in S
    <3>1. SubSeq(p, 1, 1) = << p[1] >>
      <4>1. PICK a, b : a = SubSeq(p, 1, 1) /\ b = << p[1] >>
        OBVIOUS
      <4>2. a \in Seq(Nodes) /\ Len(a) = 1 /\ a[1] = p[1]
        BY <1>1, <4>1
      <4>3. b \in Seq(Nodes) /\ Len(b) = 1 /\ b[1] = p[1]
        BY <1>1, <4>1
      <4>4. a = b
        BY <4>2, <4>3
      <4>5. QED
        BY <4>1, <4>4
    <3>2. QED
      BY <1>1, <3>1
  <2>2. ASSUME NEW k \in Nat, k \in S PROVE k + 1 \in S
    <3> SUFFICES ASSUME k + 2 <= Len(p) PROVE SubSeq(p, 1, k + 2) \in tried
      BY <1>1, <2>2
    <3>0. SubSeq(p, 1, k + 1) \in tried \cup {<< root >>}
      BY <1>1, <2>2
    <3> HIDE DEF S
    <3>1. PICK t : t = SubSeq(p, 1, k + 1)
      OBVIOUS
    <3>2. /\ t \in Seq(Nodes) /\ Len(t) = k + 1 /\ \A i \in 1 .. k + 1 : t[i] = p[i]
      <4>1. k + 1 \in 1 .. Len(p)
        BY <1>1
      <4>2. QED
        BY ONLY k \in Nat, <1>1, <3>1, <4>1
    <3>3. t \in tried \cup {<< root >>}
      BY <3>0, <3>1
    <3>4. Last(t) = p[k + 1]
      <4>1. k + 1 \in 1 .. k + 1
        BY ONLY k \in Nat, SMTT(30)
      <4>2. QED
        BY ONLY <3>2, <4>1 DEF Last
    <3>5. Last(t) # goal /\ p[k + 2] \in NextNodes(Last(t))
      <4>1. PICK j : j = k + 1
        OBVIOUS
      <4>2. j \in 1 .. Len(p) - 1 /\ j \in 1 .. Len(p) /\ Len(p) \in 1 .. Len(p) /\ j + 1 = k + 2 /\ j # Len(p)
        <5>1. PICK m : m = Len(p)
          OBVIOUS
        <5>2. m \in Nat /\ k + 2 <= m
          BY <1>1, <5>1, SMTT(30)
        <5>3. QED
          BY ONLY <4>1, <5>1, <5>2, k \in Nat
      <4>3. p[j] # p[Len(p)] /\ p[j + 1] \in NextNodes(p[j])
        BY <1>1, <4>2, Zenon
      <4>4. QED
        BY <1>1, <3>4, <4>1, <4>2, <4>3, Zenon
    <3>6. ~HasDoubleCycle(t)
      <4>1. \A i, j \in 1 .. Len(t) : t[i] = t[j] => i = j
        BY <1>1, <3>2
      <4>2. QED
        BY <3>2, <4>1, NoDoubleCycle, Zenon
    <3>7. ~Waits(t, p[k + 2])
      BY <1>2 DEF Waits
    <3>8. Append(t, p[k + 2]) \in tried
      BY <1>4, <3>3, <3>5, <3>6, <3>7 DEF PathInv, TriedGoOn
    <3>9. SubSeq(p, 1, k + 2) = Append(t, p[k + 2])
      <4>1. PICK a, b : a = Append(t, p[k + 2]) /\ b = SubSeq(p, 1, k + 2)
        OBVIOUS
      <4>2. a \in Seq(Nodes) /\ Len(a) = k + 2 /\ a[k + 2] = p[k + 2] /\ \A i \in 1 .. k + 1 : a[i] = p[i]
        BY <1>1, <3>2, <4>1
      <4>3. b \in Seq(Nodes) /\ Len(b) = k + 2 /\ \A i \in 1 .. k + 2 : b[i] = p[i]
        BY <1>1, <4>1
      <4>4. \A i \in 1 .. k + 2 : a[i] = b[i]
        <5>1. \A i \in 1 .. k + 2 : i = k + 2 \/ i \in 1 .. k + 1
          BY ONLY k \in Nat
        <5>2. k + 2 \in 1 .. k + 2
          BY ONLY k \in Nat
        <5>3. QED
          BY ONLY <4>2, <4>3, <5>1, <5>2, Zenon
      <4>5. Len(a) = Len(b)
        BY ONLY <4>2, <4>3
      <4>6. a = b
        BY ONLY <4>2, <4>3, <4>4, <4>5, k \in Nat
      <4>7. QED
        BY ONLY <4>1, <4>6
    <3>10. QED
      BY <3>8, <3>9
  <2> HIDE DEF S
  <2>3. Nat \subseteq S
    BY <2>1, <2>2, AllNumbers
  <2>4. Len(p) - 1 \in S /\ Len(p) # 1
    BY <1>1, <1>4, <2>3
  <2>5. SubSeq(p, 1, Len(p)) \in tried
    BY <1>1, <2>4 DEF S
  <2>6. p \in tried /\ Last(p) = goal
    <3>1. SubSeq(p, 1, Len(p)) = p
      BY <1>1
    <3>2. Last(p) = p[Len(p)]
      BY DEF Last
    <3>3. QED
      BY <1>1, <2>5, <3>1, <3>2
  <2>7. QED
    BY <1>4, <2>6 DEF PathInv, TriedGoOn
<1>5. QED
  BY <1>3, <1>4

\* Whatever the graph, with rounds or without: when the search of graph.py ends, every
\* path from the root to the goal that repeats no chapter was found.
THEOREM SimplePathsAreFound == PathSpec => []PathsComplete
<1>1. PathInit => PathInv
  BY DEF PathInit, PathInv, PathTypeOK, TriedGoOn
<1>2. PathInv /\ [PathNext]_pathVars => PathInv'
  BY PathInvNext
<1>3. PathInv => PathsComplete
  BY SimpleIsFound DEF PathsComplete
<1>4. QED
  BY <1>1, <1>2, <1>3, PTL DEF PathSpec

-----------------------------------------------------------------------------
(***************************************************************************)
(* The files that scantable.py splices: what lex() has taken at each point. *)
(***************************************************************************)

\* The include at place i of f was taken: its queue is beyond it, or it has returned.
TakenAt(f, i) ==
  /\ i \in 1 .. Len(includes[f])
  /\ \A k \in 1 .. Len(lexCalls) :
       lexCalls[k].file = f => i <= Len(includes[f]) - Len(lexCalls[k].queue)

\* A call of _lex().
Calls == [file : Files, queue : Seq(FileNames)]

\* q is the rest of r.
RestOf(q, r) == Len(q) <= Len(r) /\ \A i \in 1 .. Len(q) : q[i] = r[Len(r) - Len(q) + i]

\* The tokens of the file of c were taken, and the rest of its includes is to come.
CallIs(c) == (\E a \in 1 .. Len(lexed) : lexed[a] = c.file) /\ RestOf(c.queue, includes[c.file])

\* Every call has a rest of the includes of its file, and no file has two calls.
CallsAre ==
  /\ lexCalls \in Seq(Calls) /\ Len(lexCalls) # 0
  /\ \A k \in 1 .. Len(lexCalls) : CallIs(lexCalls[k])
  /\ \A k, l \in 1 .. Len(lexCalls) : lexCalls[k].file = lexCalls[l].file => k = l

\* The files whose tokens were taken: the root first, each once.
LexedAre ==
  /\ includes \in [Files -> Seq(FileNames)] /\ \A f \in Files : Len(includes[f]) <= MaxIncludes
  /\ lexed \in Seq(Files) /\ Len(lexed) # 0 /\ lexed[1] = Root
  /\ \A a, b \in 1 .. Len(lexed) : lexed[a] = lexed[b] => a = b
  /\ scanned = {lexed[a] : a \in 1 .. Len(lexed)} \cup (IF lexing = "unreadable" THEN {Unreadable} ELSE {})

\* A file behind the root was reached from one before it.
HaveParents ==
  \A a \in 2 .. Len(lexed) : \E b \in 1 .. a - 1 : \E i \in Nat :
    TakenAt(lexed[b], i) /\ includes[lexed[b]][i] = lexed[a]

\* What was taken from a file comes behind it.
LeadBehind ==
  lexing \in {"running", "done"} =>
    \A b \in 1 .. Len(lexed) : \A i \in Nat :
      TakenAt(lexed[b], i) => \E a \in b + 1 .. Len(lexed) : includes[lexed[b]][i] = lexed[a]

\* How lex() ends: with nothing left, or at an include of what was read before.
LexEnds ==
  /\ lexing \in {"running", "done", "cyclic", "unreadable"}
  /\ lexing = "done" => Len(lexCalls) = 1 /\ lexCalls[1].queue = << >>
  /\ lexing = "cyclic" =>
       \E b, c \in 1 .. Len(lexed) : \E j \in 1 .. Len(includes[lexed[b]]) :
         ~TakenAt(lexed[b], j) /\ includes[lexed[b]][j] = lexed[c]

LexInv == CallsAre /\ LexedAre /\ HaveParents /\ LeadBehind /\ LexEnds

\* What a call is, and what it becomes.
LEMMA CallParts == ASSUME NEW c \in Calls PROVE c.file \in Files /\ c.queue \in Seq(FileNames)
BY DEF Calls
\* What a call is made of.
LEMMA CallMade ==
  ASSUME NEW f \in Files, NEW q \in Seq(FileNames), NEW c, c = [file |-> f, queue |-> q]
  PROVE  c \in Calls /\ c.file = f /\ c.queue = q
BY DEF Calls
\* A call that goes on with the rest of its includes.
LEMMA CallGoesOn ==
  ASSUME NEW c \in Calls, NEW q \in Seq(FileNames), NEW d, d = [c EXCEPT !.queue = q]
  PROVE  d \in Calls /\ d.file = c.file /\ d.queue = q
BY DEF Calls

\* What is behind the first.
LEMMA TailIs ==
  ASSUME NEW T, NEW s \in Seq(T), s # << >>
  PROVE  /\ Tail(s) \in Seq(T) /\ Len(Tail(s)) = Len(s) - 1
         /\ \A i \in 1 .. Len(Tail(s)) : Tail(s)[i] = s[i + 1]
OBVIOUS

\* The calls with the last replaced, and with one more.
LEMMA LastReplaced ==
  ASSUME NEW T, NEW s \in Seq(T), NEW x \in T, s # << >>, NEW y, NEW r,
         r = Append([s EXCEPT ![Len(s)] = y], x), y \in T
  PROVE  /\ r \in Seq(T) /\ Len(r) = Len(s) + 1 /\ r[Len(s) + 1] = x /\ r[Len(s)] = y
         /\ \A k \in 1 .. Len(s) - 1 : r[k] = s[k]
<1>1. PICK t : t = [s EXCEPT ![Len(s)] = y]
  OBVIOUS
<1>2. Len(s) \in 1 .. Len(s) /\ Len(s) \in Nat
  OBVIOUS
<1>3. /\ t \in Seq(T) /\ Len(t) = Len(s) /\ t[Len(s)] = y
      /\ \A k \in 1 .. Len(s) - 1 : t[k] = s[k]
  BY <1>1, <1>2
<1>4. r = Append(t, x)
  BY <1>1
<1>5. QED
  BY <1>2, <1>3, <1>4

\* Before an include was taken.
LEMMA LexInvInit == ASSUME LexInit PROVE LexInv
<1>1. /\ includes \in [Files -> Seq(FileNames)] /\ \A f \in Files : Len(includes[f]) <= MaxIncludes
  <2>1. includes \in [Files -> UNION {[1..n -> FileNames] : n \in 0..MaxIncludes}]
    BY DEF LexInit
  <2>2. ASSUME NEW f \in Files PROVE includes[f] \in Seq(FileNames) /\ Len(includes[f]) <= MaxIncludes
    <3>1. PICK n \in 0 .. MaxIncludes : includes[f] \in [1 .. n -> FileNames]
      BY <2>1
    <3>2. n \in Nat /\ n <= MaxIncludes
      BY LexerAssumption
    <3>3. QED
      BY <3>1, <3>2
  <2>3. QED
    BY <2>1, <2>2
<1>2. Root \in Files
  BY LexerAssumption
<1>3. /\ lexCalls = << [file |-> Root, queue |-> includes[Root]] >>
      /\ scanned = {Root} /\ lexed = << Root >> /\ lexing = "running"
  BY DEF LexInit
<1>4. /\ Len(lexCalls) = 1 /\ lexCalls[1].file = Root /\ lexCalls[1].queue = includes[Root]
      /\ lexCalls \in Seq(Calls)
      /\ Len(lexed) = 1 /\ lexed[1] = Root /\ lexed \in Seq(Files)
      /\ includes[Root] \in Seq(FileNames) /\ Len(includes[Root]) \in Nat
  <2>1. PICK c : c = [file |-> Root, queue |-> includes[Root]]
    OBVIOUS
  <2>2. c \in Calls /\ c.file = Root /\ c.queue = includes[Root]
    BY <1>1, <1>2, <2>1, CallMade
  <2>3. lexCalls = << c >> /\ includes[Root] \in Seq(FileNames)
    BY <1>1, <1>2, <1>3, <2>1
  <2>4. QED
    BY <1>2, <1>3, <2>2, <2>3
<1>5. CallsAre
  <2>1. CallIs(lexCalls[1])
    BY <1>4 DEF CallIs, RestOf
  <2>2. QED
    BY <1>4, <2>1 DEF CallsAre
<1>6. LexedAre
  BY <1>1, <1>3, <1>4 DEF LexedAre
<1>7. \A i \in Nat : ~TakenAt(Root, i)
  BY <1>4 DEF TakenAt
<1>8. HaveParents /\ LeadBehind /\ LexEnds
  BY <1>3, <1>4, <1>7 DEF HaveParents, LeadBehind, LexEnds
<1>9. QED
  BY <1>5, <1>6, <1>8 DEF LexInv

\* The include that is taken next.
LEMMA NextInclude ==
  ASSUME LexInv, LexInclude
  PROVE  \E top, f, b, j, g :
           /\ top = Len(lexCalls) /\ top \in 1 .. Len(lexCalls) /\ f = lexCalls[top].file /\ f \in Files
           /\ b \in 1 .. Len(lexed) /\ lexed[b] = f
           /\ j \in 1 .. Len(includes[f]) /\ j = Len(includes[f]) - Len(lexCalls[top].queue) + 1
           /\ g = includes[f][j] /\ g = Head(lexCalls[top].queue) /\ g \in FileNames
           /\ ~TakenAt(f, j) /\ lexCalls[top].queue \in Seq(FileNames)
           /\ lexCalls[top].queue # << >>
<1>1. /\ lexCalls \in Seq(Calls) /\ Len(lexCalls) # 0
      /\ \A k \in 1 .. Len(lexCalls) : CallIs(lexCalls[k])
  BY DEF LexInv, CallsAre
<1>2. PICK top, f, q : top = Len(lexCalls) /\ f = lexCalls[top].file /\ q = lexCalls[top].queue
  OBVIOUS
<1>3. top \in 1 .. Len(lexCalls) /\ f \in Files /\ q \in Seq(FileNames) /\ CallIs(lexCalls[top])
  <2>1. top \in 1 .. Len(lexCalls)
    BY <1>1, <1>2
  <2>2. lexCalls[top] \in Calls
    BY <1>1, <2>1
  <2>3. QED
    BY <1>1, <1>2, <2>1, <2>2, CallParts
<1>4. q # << >>
  BY <1>2 DEF LexInclude, TopQueue
<1>5. includes[f] \in Seq(FileNames)
  BY <1>3 DEF LexInv, LexedAre
<1>6. PICK b \in 1 .. Len(lexed) : lexed[b] = f
  BY <1>2, <1>3 DEF CallIs
<1>7. PICK n, m \in Nat : n = Len(includes[f]) /\ m = Len(q)
  BY <1>3, <1>5
<1>8. m <= n /\ m >= 1 /\ Head(q) = q[1] /\ q[1] = includes[f][n - m + 1] /\ q[1] \in FileNames
  <2>1. m <= n /\ \A i \in 1 .. m : q[i] = includes[f][n - m + i]
    BY <1>2, <1>3, <1>7 DEF CallIs, RestOf
  <2>2. m >= 1 /\ Head(q) = q[1] /\ q[1] \in FileNames
    BY <1>3, <1>4, <1>7
  <2>3. QED
    BY <2>1, <2>2
<1>9. n - m + 1 \in 1 .. n
  BY <1>8
<1>10. ~TakenAt(f, n - m + 1)
  <2>1. SUFFICES ASSUME TakenAt(f, n - m + 1) PROVE FALSE
    OBVIOUS
  <2>2. n - m + 1 <= n - m
    BY <1>2, <1>3, <1>7, <2>1 DEF TakenAt
  <2>3. QED
    BY <1>7, <2>2
<1>11. QED
  BY <1>2, <1>3, <1>4, <1>6, <1>7, <1>8, <1>9, <1>10

\* When nothing is taken, and lex() ends.
LEMMA NothingTaken ==
  ASSUME LexInv, lexing = "running",
         UNCHANGED << includes, lexCalls, lexed >>, LexEnds', lexing' \in {"done", "cyclic", "unreadable"},
         scanned' = IF lexing' = "unreadable" THEN scanned \cup {Unreadable} ELSE scanned
  PROVE  LexInv'
<1>1. \A f, i : TakenAt(f, i)' <=> TakenAt(f, i)
  BY DEF TakenAt
<1>2. CallsAre'
  BY DEF LexInv, CallsAre, CallIs
<1>3. LexedAre'
  <2>1. scanned = {lexed[a] : a \in 1 .. Len(lexed)}
    BY DEF LexInv, LexedAre
  <2>2. QED
    BY <2>1 DEF LexInv, LexedAre
<1>4. HaveParents'
  BY <1>1 DEF LexInv, HaveParents
<1>5. LeadBehind'
  BY <1>1 DEF LexInv, LeadBehind
<1>6. QED
  BY <1>2, <1>3, <1>4, <1>5 DEF LexInv

\* An include of a file that was not read before.
LEMMA FileTaken ==
  ASSUME LexInv, LexInclude, Head(TopQueue) \notin scanned, Head(TopQueue) # Unreadable PROVE LexInv'
<1>1. PICK top, f, b, j, g :
           /\ top = Len(lexCalls) /\ top \in 1 .. Len(lexCalls) /\ f = lexCalls[top].file /\ f \in Files
           /\ b \in 1 .. Len(lexed) /\ lexed[b] = f
           /\ j \in 1 .. Len(includes[f]) /\ j = Len(includes[f]) - Len(lexCalls[top].queue) + 1
           /\ g = includes[f][j] /\ g = Head(lexCalls[top].queue) /\ g \in FileNames
           /\ ~TakenAt(f, j) /\ lexCalls[top].queue \in Seq(FileNames)
           /\ lexCalls[top].queue # << >>
  BY NextInclude
<1>2. /\ lexing = "running" /\ includes' = includes /\ lexing' = lexing /\ scanned' = scanned \cup {g}
      /\ lexed' = Append(lexed, g)
      /\ lexCalls' = Append([lexCalls EXCEPT ![top].queue = Tail(@)], [file |-> g, queue |-> includes[g]])
      /\ g \notin scanned /\ g \in Files
  BY <1>1 DEF LexInclude, ScanFile, TopQueue, FileNames
<1>3. PICK n \in Nat : n = Len(lexed) /\ n >= 1 /\ lexed \in Seq(Files) /\ lexed[1] = Root
  BY DEF LexInv, LexedAre
<1>4. /\ lexed' \in Seq(Files) /\ Len(lexed') = n + 1 /\ lexed'[n + 1] = g
      /\ \A a \in 1 .. n : lexed'[a] = lexed[a] /\ lexed[a] # g
  BY <1>2, <1>3 DEF LexInv, LexedAre
<1>5. /\ includes[g] \in Seq(FileNames) /\ includes[f] \in Seq(FileNames)
  BY <1>1, <1>2 DEF LexInv, LexedAre
<1>6. /\ lexCalls \in Seq(Calls) /\ top \in Nat
      /\ \A k \in 1 .. top : lexCalls[k] \in Calls /\ CallIs(lexCalls[k])
  BY <1>1 DEF LexInv, CallsAre
<1>7. PICK q : /\ q = Tail(lexCalls[top].queue) /\ q \in Seq(FileNames) /\ Len(q) = Len(lexCalls[top].queue) - 1
               /\ \A i \in 1 .. Len(q) : q[i] = lexCalls[top].queue[i + 1]
  <2>1. PICK s : s = lexCalls[top].queue /\ s \in Seq(FileNames) /\ s # << >>
    BY <1>1
  <2>2. /\ Tail(s) \in Seq(FileNames) /\ Len(Tail(s)) = Len(s) - 1
        /\ \A i \in 1 .. Len(Tail(s)) : Tail(s)[i] = s[i + 1]
    BY <2>1, TailIs
  <2>3. QED
    BY <2>1, <2>2
<1>8. PICK call, inner : call = [lexCalls[top] EXCEPT !.queue = q] /\ inner = [file |-> g, queue |-> includes[g]]
  OBVIOUS
<1>9. call \in Calls /\ call.file = f /\ call.queue = q
  <2>1. lexCalls[top] \in Calls
    BY <1>1, <1>6
  <2>2. q \in Seq(FileNames)
    BY <1>7
  <2>3. call \in Calls /\ call.file = lexCalls[top].file /\ call.queue = q
    BY <1>8, <2>1, <2>2, CallGoesOn
  <2>4. QED
    BY <1>1, <2>3
<1>10. inner \in Calls /\ inner.file = g /\ inner.queue = includes[g]
  BY <1>2, <1>5, <1>8, CallMade
<1>11. /\ lexCalls' \in Seq(Calls) /\ Len(lexCalls') = top + 1
       /\ lexCalls'[top + 1].file = g /\ lexCalls'[top + 1].queue = includes[g]
       /\ lexCalls'[top].file = f /\ lexCalls'[top].queue = q
       /\ \A k \in 1 .. top - 1 : lexCalls'[k] = lexCalls[k]
  <2>1. lexCalls' = Append([lexCalls EXCEPT ![Len(lexCalls)] = call], inner)
    BY <1>1, <1>2, <1>7, <1>8
  <2>2. lexCalls # << >>
    BY <1>1
  <2>3. /\ lexCalls' \in Seq(Calls) /\ Len(lexCalls') = top + 1 /\ lexCalls'[top + 1] = inner /\ lexCalls'[top] = call
        /\ \A k \in 1 .. top - 1 : lexCalls'[k] = lexCalls[k]
    BY <1>1, <1>6, <1>9, <1>10, <2>1, <2>2, LastReplaced
  <2>4. QED
    BY <1>9, <1>10, <2>3
<1>12. \A k, l \in 1 .. top : lexCalls[k].file = lexCalls[l].file => k = l
  BY <1>1 DEF LexInv, CallsAre
<1>13. \A k \in 1 .. top : lexCalls[k].file # g /\ \E a \in 1 .. n : lexed[a] = lexCalls[k].file
  BY <1>3, <1>4, <1>6 DEF CallIs
<1>14. CallsAre'
  <2>1. ASSUME NEW k \in 1 .. top + 1 PROVE CallIs(lexCalls[k])'
    <3>1. CASE k = top + 1
      <4>1. n + 1 \in 1 .. Len(lexed') /\ lexed'[n + 1] = lexCalls'[k].file
        BY <1>3, <1>4, <1>11, <3>1
      <4>2. RestOf(includes[g], includes[g])
        BY <1>5 DEF RestOf
      <4>3. QED
        <5>1. RestOf(lexCalls'[k].queue, includes'[lexCalls'[k].file])
          BY <1>2, <1>11, <3>1, <4>2
        <5>2. QED
          BY <4>1, <5>1 DEF CallIs
    <3>2. CASE k \in 1 .. top - 1
      <4>1. k \in 1 .. top /\ CallIs(lexCalls[k])
        BY <1>6, <3>2
      <4>2. PICK a \in 1 .. n : lexed[a] = lexCalls[k].file
        BY <1>13, <4>1
      <4>3. a \in 1 .. Len(lexed') /\ lexed'[a] = lexCalls'[k].file
        BY <1>3, <1>4, <1>11, <3>2, <4>2
      <4>4. RestOf(lexCalls'[k].queue, includes'[lexCalls'[k].file])
        BY <1>2, <1>11, <3>2, <4>1 DEF CallIs
      <4>5. QED
        BY <4>3, <4>4 DEF CallIs
    <3>3. CASE k = top
      <4>1. PICK r, s : r = lexCalls[top].queue /\ s = includes[f]
        OBVIOUS
      <4>2. /\ Len(r) <= Len(s) /\ \A i \in 1 .. Len(r) : r[i] = s[Len(s) - Len(r) + i]
        <5>1. CallIs(lexCalls[top])
          BY <1>1, <1>6
        <5>2. RestOf(lexCalls[top].queue, includes[lexCalls[top].file])
          BY <5>1 DEF CallIs
        <5>3. lexCalls[top].file = f
          BY <1>1
        <5>4. RestOf(r, s)
          BY <4>1, <5>2, <5>3
        <5>5. QED
          BY <5>4 DEF RestOf
      <4>3. Len(r) \in Nat /\ Len(s) \in Nat /\ Len(q) = Len(r) - 1 /\ Len(q) \in Nat
        <5>1. r \in Seq(FileNames) /\ s \in Seq(FileNames)
          BY <1>1, <1>5, <4>1
        <5>2. Len(q) = Len(r) - 1 /\ q \in Seq(FileNames)
          BY <1>7, <4>1
        <5>3. QED
          BY <5>1, <5>2
      <4>4. \A i \in 1 .. Len(q) : q[i] = s[Len(s) - Len(q) + i]
        <5>1. ASSUME NEW i \in 1 .. Len(q) PROVE q[i] = s[Len(s) - Len(q) + i]
          <6>1. q[i] = r[i + 1]
            BY <1>7, <4>1
          <6>2. i + 1 \in 1 .. Len(r) /\ Len(s) - Len(r) + (i + 1) = Len(s) - Len(q) + i
            BY <4>3
          <6>3. QED
            BY <4>2, <6>1, <6>2
        <5>2. QED
          BY <5>1
      <4>5. b \in 1 .. Len(lexed') /\ lexed'[b] = lexCalls'[k].file
        BY <1>1, <1>3, <1>4, <1>11, <3>3
      <4>6. RestOf(lexCalls'[k].queue, includes'[lexCalls'[k].file])
        <5>1. RestOf(q, s)
          BY <4>2, <4>3, <4>4 DEF RestOf
        <5>2. QED
          BY <1>2, <1>11, <3>3, <4>1, <5>1
      <4>7. QED
        BY <4>5, <4>6 DEF CallIs
    <3>4. k = top + 1 \/ k = top \/ k \in 1 .. top - 1
      BY <1>6
    <3>5. QED
      BY <3>1, <3>2, <3>3, <3>4
  <2>2. ASSUME NEW k \in 1 .. top + 1, NEW l \in 1 .. top + 1, lexCalls'[k].file = lexCalls'[l].file PROVE k = l
    <3>1. ASSUME NEW m \in 1 .. top PROVE lexCalls'[m].file = lexCalls[m].file
      <4>1. m = top \/ m \in 1 .. top - 1
        BY <1>6
      <4>2. QED
        BY <1>1, <1>11, <4>1
    <3>2. \A m \in 1 .. top + 1 : m \in 1 .. top \/ m = top + 1
      BY <1>6
    <3>3. CASE k \in 1 .. top /\ l \in 1 .. top
      BY <1>12, <2>2, <3>1, <3>3
    <3>4. CASE k = top + 1 /\ l \in 1 .. top
      BY <1>11, <1>13, <2>2, <3>1, <3>4
    <3>5. CASE l = top + 1 /\ k \in 1 .. top
      BY <1>11, <1>13, <2>2, <3>1, <3>5
    <3>6. QED
      BY <3>2, <3>3, <3>4, <3>5
  <2>3. Len(lexCalls') # 0
    BY <1>6, <1>11
  <2>4. QED
    BY <1>11, <2>1, <2>2, <2>3 DEF CallsAre
\* Only the include that is taken is new.
<1>15. ASSUME NEW h \in Files, NEW i \in Nat
       PROVE  /\ TakenAt(h, i)' => TakenAt(h, i) \/ (h = f /\ i = j)
              /\ h # g => (TakenAt(h, i) => TakenAt(h, i)')
              /\ ~TakenAt(g, i)'
  <2>1. Len(includes[h]) \in Nat /\ Len(q) \in Nat /\ Len(includes[f]) \in Nat /\ Len(includes[g]) \in Nat
    BY <1>5, <1>7 DEF LexInv, LexedAre
  <2>2. ~TakenAt(g, i)'
    <3>1. SUFFICES ASSUME TakenAt(g, i)' PROVE FALSE
      OBVIOUS
    <3>2. top + 1 \in 1 .. Len(lexCalls') /\ i \in 1 .. Len(includes[g])
      BY <1>2, <1>6, <1>11, <3>1 DEF TakenAt
    <3>3. i <= Len(includes[g]) - Len(includes[g])
      BY <1>2, <1>11, <3>1, <3>2 DEF TakenAt
    <3>4. QED
      BY <2>1, <3>2, <3>3
  <2>3. ASSUME TakenAt(h, i)' PROVE TakenAt(h, i) \/ (h = f /\ i = j)
    <3>1. i \in 1 .. Len(includes[h])
      BY <1>2, <2>3 DEF TakenAt
    <3>2. CASE h = f
      <4>1. i <= Len(includes[f]) - Len(q)
        <5>1. top \in 1 .. Len(lexCalls')
          BY <1>6, <1>11, <1>1
        <5>2. QED
          BY <1>2, <1>11, <2>3, <3>2, <5>1 DEF TakenAt
      <4>2. i <= j
        <5>1. PICK x, y, z : x = Len(includes[f]) /\ y = Len(lexCalls[top].queue) /\ z = Len(q)
          OBVIOUS
        <5>2. x \in Nat /\ z \in Nat /\ i <= x - z
          BY <2>1, <4>1, <5>1
        <5>3. z = y - 1 /\ y \in Nat
          BY <1>1, <1>7, <5>1
        <5>4. j = x - y + 1
          BY <1>1, <5>1
        <5>5. QED
          BY <5>2, <5>3, <5>4
      <4>3. CASE i # j
        <5>1. Len(lexCalls[top].queue) \in Nat
          BY <1>1
        <5>2. i <= Len(includes[f]) - Len(lexCalls[top].queue)
          <6>1. j = Len(includes[f]) - Len(lexCalls[top].queue) + 1
            BY <1>1
          <6>2. QED
            BY <2>1, <4>2, <4>3, <5>1, <6>1
        <5>3. \A k \in 1 .. Len(lexCalls) : lexCalls[k].file = f => k = top
          BY <1>1, <1>12
        <5>4. QED
          BY <1>1, <3>1, <3>2, <5>2, <5>3 DEF TakenAt
      <4>4. QED
        BY <3>2, <4>3
    <3>3. CASE h # f
      <4>1. ASSUME NEW k \in 1 .. Len(lexCalls), lexCalls[k].file = h
            PROVE  i <= Len(includes[h]) - Len(lexCalls[k].queue)
        <5>1. k \in 1 .. top - 1 /\ k \in 1 .. top + 1
          BY <1>1, <1>6, <3>3, <4>1
        <5>2. QED
          BY <1>2, <1>11, <2>3, <4>1, <5>1 DEF TakenAt
      <4>2. QED
        BY <3>1, <4>1 DEF TakenAt
    <3>4. QED
      BY <3>2, <3>3
  <2>4. ASSUME h # g, TakenAt(h, i) PROVE TakenAt(h, i)'
    <3>1. ASSUME NEW k \in 1 .. top + 1, lexCalls'[k].file = h
          PROVE  i <= Len(includes[h]) - Len(lexCalls'[k].queue)
      <4>1. k # top + 1
        BY <1>11, <2>4, <3>1
      <4>2. CASE k = top
        <5>1. h = f /\ i <= Len(includes[f]) - Len(lexCalls[top].queue)
          BY <1>1, <1>11, <2>4, <3>1, <4>2 DEF TakenAt
        <5>2. Len(lexCalls[top].queue) \in Nat
          BY <1>1
        <5>3. Len(lexCalls'[k].queue) = Len(lexCalls[top].queue) - 1
          BY <1>7, <1>11, <4>2
        <5>4. QED
          BY <2>1, <5>1, <5>2, <5>3
      <4>3. CASE k \in 1 .. top - 1
        <5>1. k \in 1 .. Len(lexCalls) /\ lexCalls'[k] = lexCalls[k]
          BY <1>1, <1>6, <1>11, <4>3
        <5>2. QED
          BY <2>4, <3>1, <5>1 DEF TakenAt
      <4>4. QED
        BY <1>6, <4>1, <4>2, <4>3
    <3>2. QED
      BY <1>2, <1>11, <2>4, <3>1 DEF TakenAt
  <2>5. QED
    BY <2>2, <2>3, <2>4
<1>16. TakenAt(f, j)'
  <2>1. Len(includes[f]) \in Nat /\ Len(lexCalls[top].queue) \in Nat
    BY <1>1, <1>5
  <2>2. ASSUME NEW k \in 1 .. top + 1, lexCalls'[k].file = f PROVE j <= Len(includes[f]) - Len(lexCalls'[k].queue)
    <3>1. f # g
      BY <1>1, <1>13
    <3>2. k = top
      <4>1. k # top + 1
        BY <1>11, <2>2, <3>1
      <4>2. ASSUME k \in 1 .. top - 1 PROVE FALSE
        <5>1. k \in 1 .. top /\ lexCalls[k].file = f
          BY <1>6, <1>11, <2>2, <4>2
        <5>2. k = top
          BY <1>1, <1>12, <5>1
        <5>3. QED
          BY <1>6, <4>2, <5>2
      <4>3. QED
        BY <1>6, <4>1, <4>2
    <3>3. Len(lexCalls'[k].queue) = Len(lexCalls[top].queue) - 1
      BY <1>7, <1>11, <3>2
    <3>4. j = Len(includes[f]) - Len(lexCalls[top].queue) + 1
      BY <1>1
    <3>5. QED
      BY <2>1, <3>3, <3>4
  <2>3. QED
    BY <1>1, <1>2, <1>11, <2>2 DEF TakenAt
<1>17. LexedAre'
  <2>1. scanned' = {lexed'[a] : a \in 1 .. n + 1}
    <3>1. scanned = {lexed[a] : a \in 1 .. n}
      BY <1>2, <1>3 DEF LexInv, LexedAre
    <3>2. \A a \in 1 .. n + 1 : a \in 1 .. n \/ a = n + 1
      BY <1>3
    <3>3. n + 1 \in 1 .. n + 1 /\ \A a \in 1 .. n : a \in 1 .. n + 1
      BY <1>3
    <3>4. QED
      BY <1>2, <1>4, <3>1, <3>2, <3>3
  <2>2. \A a, c \in 1 .. n + 1 : lexed'[a] = lexed'[c] => a = c
    <3>1. \A a, c \in 1 .. n : lexed[a] = lexed[c] => a = c
      BY <1>3 DEF LexInv, LexedAre
    <3>2. \A a \in 1 .. n + 1 : a \in 1 .. n \/ a = n + 1
      BY <1>3
    <3>3. QED
      BY <1>4, <3>1, <3>2
  <2>3. lexed'[1] = Root /\ n + 1 # 0
    BY <1>3, <1>4
  <2>4. /\ includes' \in [Files -> Seq(FileNames)] /\ \A h \in Files : Len(includes'[h]) <= MaxIncludes
    BY <1>2 DEF LexInv, LexedAre
  <2>5. lexing' # "unreadable"
    BY <1>2
  <2>6. QED
    BY <1>4, <2>1, <2>2, <2>3, <2>4, <2>5 DEF LexedAre
<1>18. HaveParents'
  <2>1. ASSUME NEW a \in 2 .. n + 1
        PROVE  \E c \in 1 .. a - 1 : \E i \in Nat : TakenAt(lexed[c], i)' /\ includes'[lexed'[c]][i] = lexed'[a]
    <3>1. CASE a = n + 1
      <4>1. b \in 1 .. a - 1 /\ lexed'[b] = f /\ lexed'[a] = g /\ j \in Nat
        BY <1>1, <1>3, <1>4, <3>1
      <4>2. includes'[lexed'[b]][j] = lexed'[a]
        BY <1>1, <1>2, <4>1
      <4>3. TakenAt(lexed[b], j)'
        BY <1>16, <4>1 DEF TakenAt
      <4>4. QED
        BY <4>1, <4>2, <4>3
    <3>2. CASE a # n + 1
      <4>1. a \in 2 .. n
        BY <1>3, <3>2
      <4>2. PICK c \in 1 .. a - 1 : \E i \in Nat : TakenAt(lexed[c], i) /\ includes[lexed[c]][i] = lexed[a]
        BY <1>3, <4>1 DEF LexInv, HaveParents
      <4>3. PICK i \in Nat : TakenAt(lexed[c], i) /\ includes[lexed[c]][i] = lexed[a]
        BY <4>2
      <4>4. c \in 1 .. n /\ a \in 1 .. n
        BY <1>3, <4>1, <4>2
      <4>5. lexed'[c] = lexed[c] /\ lexed'[a] = lexed[a] /\ lexed[c] # g /\ lexed[c] \in Files
        BY <1>3, <1>4, <4>4
      <4>6. TakenAt(lexed[c], i)'
        <5>1. PICK h : h = lexed[c]
          OBVIOUS
        <5>2. TakenAt(h, i)'
          BY <1>15, <4>3, <4>5, <5>1
        <5>3. QED
          BY <4>5, <5>1, <5>2 DEF TakenAt
      <4>7. includes'[lexed'[c]][i] = lexed'[a]
        BY <1>2, <4>3, <4>5
      <4>8. QED
        BY <4>2, <4>3, <4>6, <4>7
    <3>3. QED
      BY <3>1, <3>2
  <2>2. QED
    BY <1>4, <2>1 DEF HaveParents
<1>19. LeadBehind'
  <2>1. ASSUME NEW c \in 1 .. n + 1, NEW i \in Nat, TakenAt(lexed[c], i)'
        PROVE  \E a \in c + 1 .. n + 1 : includes'[lexed'[c]][i] = lexed'[a]
    <3>0. PICK h : h = lexed'[c] /\ TakenAt(h, i)'
      BY <2>1 DEF TakenAt
    <3>1. c # n + 1
      BY <1>2, <1>4, <1>15, <3>0
    <3>2. c \in 1 .. n /\ lexed'[c] = lexed[c] /\ lexed[c] \in Files
      BY <1>3, <1>4, <3>1
    <3>3. CASE TakenAt(lexed[c], i)
      <4>1. PICK a \in c + 1 .. n : includes[lexed[c]][i] = lexed[a]
        BY <1>2, <1>3, <3>2, <3>3 DEF LexInv, LeadBehind
      <4>2. a \in c + 1 .. n + 1 /\ a \in 1 .. n
        BY <1>3, <3>2, <4>1
      <4>3. QED
        BY <1>2, <1>4, <3>2, <4>1, <4>2
    <3>4. CASE lexed[c] = f /\ i = j
      <4>1. n + 1 \in c + 1 .. n + 1
        BY <1>3, <3>2
      <4>2. QED
        BY <1>1, <1>2, <1>4, <3>2, <3>4, <4>1
    <3>5. TakenAt(lexed[c], i) \/ (lexed[c] = f /\ i = j)
      BY <1>15, <3>0, <3>2
    <3>6. QED
      BY <3>3, <3>4, <3>5
  <2>2. QED
    BY <1>4, <2>1 DEF LeadBehind
<1>20. LexEnds'
  BY <1>2 DEF LexInv, LexEnds
<1>21. QED
  BY <1>14, <1>17, <1>18, <1>19, <1>20 DEF LexInv

\* _lex() returns.
LEMMA LexReturnKeeps == ASSUME LexInv, LexReturn PROVE LexInv'
<1>1. PICK top \in Nat : top = Len(lexCalls) /\ top # 0 /\ lexCalls \in Seq(Calls)
  BY DEF LexInv, CallsAre
<1>2. lexing = "running" /\ lexCalls[top].queue = << >> /\ UNCHANGED << includes, scanned, lexed >>
  BY <1>1 DEF LexReturn, TopQueue
<1>3. CASE top = 1
  <2>1. lexing' = "done" /\ lexCalls' = lexCalls
    BY <1>1, <1>3 DEF LexReturn
  <2>2. LexEnds'
    BY <1>1, <1>2, <1>3, <2>1 DEF LexEnds
  <2>3. QED
    BY <1>2, <2>1, <2>2, NothingTaken
<1>4. CASE top # 1
  <2>1. lexing' = "running" /\ lexCalls' = SubSeq(lexCalls, 1, top - 1)
    BY <1>1, <1>2, <1>4 DEF LexReturn
  <2>2. /\ lexCalls' \in Seq(Calls) /\ Len(lexCalls') = top - 1 /\ top - 1 # 0
        /\ \A k \in 1 .. top - 1 : lexCalls'[k] = lexCalls[k] /\ k \in 1 .. top
    BY <1>1, <1>4, <2>1
  <2>3. \A k \in 1 .. top : CallIs(lexCalls[k]) /\ \A l \in 1 .. top : lexCalls[k].file = lexCalls[l].file => k = l
    BY <1>1 DEF LexInv, CallsAre
  <2>4. CallsAre'
    <3>1. ASSUME NEW k \in 1 .. top - 1 PROVE CallIs(lexCalls[k])'
      BY <1>2, <2>2, <2>3 DEF CallIs
    <3>2. QED
      BY <2>2, <2>3, <3>1 DEF CallsAre
  <2>5. ASSUME NEW f \in Files, NEW i \in Nat PROVE TakenAt(f, i)' <=> TakenAt(f, i)
    <3>1. ASSUME TakenAt(f, i) PROVE TakenAt(f, i)'
      BY <1>1, <1>2, <2>2, <3>1 DEF TakenAt
    <3>2. ASSUME TakenAt(f, i)' PROVE TakenAt(f, i)
      <4>1. i \in 1 .. Len(includes[f])
        BY <1>2, <3>2 DEF TakenAt
      <4>2. ASSUME NEW k \in 1 .. top, lexCalls[k].file = f PROVE i <= Len(includes[f]) - Len(lexCalls[k].queue)
        <5>1. CASE k = top
          <6>1. Len(lexCalls[k].queue) = 0 /\ Len(includes[f]) \in Nat
            BY <1>2, <5>1 DEF LexInv, LexedAre
          <6>2. QED
            BY <4>1, <6>1
        <5>2. CASE k # top
          <6>1. k \in 1 .. top - 1
            BY <1>1, <5>2
          <6>2. QED
            BY <1>2, <2>2, <3>2, <4>2, <6>1 DEF TakenAt
        <5>3. QED
          BY <5>1, <5>2
      <4>3. QED
        BY <1>1, <4>1, <4>2 DEF TakenAt
    <3>3. QED
      BY <3>1, <3>2
  <2>6. LexedAre'
    BY <1>2, <2>1 DEF LexInv, LexedAre
  <2>7. Len(lexed) \in Nat /\ \A a \in 1 .. Len(lexed) : lexed[a] \in Files
    BY DEF LexInv, LexedAre
  <2>8. HaveParents'
    <3>1. ASSUME NEW a \in 2 .. Len(lexed)
          PROVE  \E b \in 1 .. a - 1 : \E i \in Nat : TakenAt(lexed[b], i)' /\ includes'[lexed'[b]][i] = lexed'[a]
      <4>1. PICK b \in 1 .. a - 1, i \in Nat : TakenAt(lexed[b], i) /\ includes[lexed[b]][i] = lexed[a]
        BY <3>1 DEF LexInv, HaveParents
      <4>2. PICK h \in Files : h = lexed[b]
        BY <2>7, <4>1
      <4>3. TakenAt(h, i)'
        BY <2>5, <4>1, <4>2
      <4>4. TakenAt(lexed[b], i)'
        BY <1>2, <4>2, <4>3 DEF TakenAt
      <4>5. QED
        BY <1>2, <4>1, <4>4
    <3>2. QED
      BY <1>2, <3>1 DEF HaveParents
  <2>9. LeadBehind'
    <3>1. ASSUME NEW b \in 1 .. Len(lexed), NEW i \in Nat, TakenAt(lexed[b], i)'
          PROVE  \E a \in b + 1 .. Len(lexed) : includes[lexed[b]][i] = lexed[a]
      <4>1. PICK h \in Files : h = lexed[b]
        BY <2>7
      <4>2. TakenAt(h, i)'
        BY <1>2, <3>1, <4>1 DEF TakenAt
      <4>3. TakenAt(lexed[b], i)
        BY <2>5, <4>1, <4>2
      <4>4. QED
        BY <1>2, <4>3 DEF LexInv, LeadBehind
    <3>2. QED
      BY <1>2, <3>1 DEF LeadBehind
  <2>10. LexEnds'
    BY <2>1 DEF LexEnds
  <2>11. QED
    BY <2>4, <2>6, <2>8, <2>9, <2>10 DEF LexInv
<1>5. QED
  BY <1>3, <1>4

\* An include is taken.
LEMMA LexIncludeKeeps == ASSUME LexInv, LexInclude PROVE LexInv'
<1>1. lexing = "running" /\ includes' = includes /\ ScanFile(Head(TopQueue))
  BY DEF LexInclude
<1>2. CASE Head(TopQueue) \in scanned
  <2>1. lexing' = "cyclic" /\ UNCHANGED << scanned, lexed, lexCalls >>
    BY <1>1, <1>2 DEF ScanFile
  <2>2. PICK f, b, j, g :
             /\ b \in 1 .. Len(lexed) /\ lexed[b] = f /\ j \in 1 .. Len(includes[f])
             /\ g = includes[f][j] /\ g = Head(TopQueue) /\ ~TakenAt(f, j)
    <3>1. PICK top, f, b, j, g :
               /\ top = Len(lexCalls) /\ top \in 1 .. Len(lexCalls) /\ f = lexCalls[top].file /\ f \in Files
               /\ b \in 1 .. Len(lexed) /\ lexed[b] = f
               /\ j \in 1 .. Len(includes[f]) /\ j = Len(includes[f]) - Len(lexCalls[top].queue) + 1
               /\ g = includes[f][j] /\ g = Head(lexCalls[top].queue) /\ g \in FileNames
               /\ ~TakenAt(f, j) /\ lexCalls[top].queue \in Seq(FileNames)
               /\ lexCalls[top].queue # << >>
      BY NextInclude
    <3>2. g = Head(TopQueue)
      BY <3>1 DEF TopQueue
    <3>3. QED
      BY <3>1, <3>2
  <2>3. PICK c \in 1 .. Len(lexed) : lexed[c] = g
    BY <1>1, <1>2, <2>2 DEF LexInv, LexedAre
  <2>4. ~TakenAt(lexed[b], j)'
    BY <1>1, <2>1, <2>2 DEF TakenAt
  <2>5. LexEnds'
    BY <1>1, <2>1, <2>2, <2>3, <2>4 DEF LexEnds
  <2>6. QED
    BY <1>1, <2>1, <2>5, NothingTaken
<1>3. CASE Head(TopQueue) \notin scanned /\ Head(TopQueue) = Unreadable
  <2>1. lexing' = "unreadable" /\ UNCHANGED << lexed, lexCalls >> /\ scanned' = scanned \cup {Unreadable}
    BY <1>1, <1>3 DEF ScanFile
  <2>2. LexEnds'
    BY <2>1 DEF LexEnds
  <2>3. QED
    BY <1>1, <2>1, <2>2, NothingTaken
<1>4. CASE Head(TopQueue) \notin scanned /\ Head(TopQueue) # Unreadable
  BY <1>4, FileTaken
<1>5. QED
  BY <1>2, <1>3, <1>4

\* The invariant holds throughout.
LEMMA LexReached == LexSpec => []LexInv
<1>1. LexInit => LexInv
  BY LexInvInit
<1>2. LexInv /\ [LexNext]_lexVars => LexInv'
  <2>1. SUFFICES ASSUME LexInv, [LexNext]_lexVars PROVE LexInv'
    OBVIOUS
  <2>2. CASE UNCHANGED lexVars
    <3>1. UNCHANGED << includes, lexCalls, scanned, lexed, lexing >>
      BY <2>2 DEF lexVars
    <3>2. CallsAre'
      BY <2>1, <3>1 DEF LexInv, CallsAre, CallIs
    <3>3. LexedAre'
      BY <2>1, <3>1 DEF LexInv, LexedAre
    <3>4. HaveParents' /\ LeadBehind'
      BY <2>1, <3>1 DEF LexInv, HaveParents, LeadBehind, TakenAt
    <3>5. LexEnds'
      BY <2>1, <3>1 DEF LexInv, LexEnds, TakenAt
    <3>6. QED
      BY <3>2, <3>3, <3>4, <3>5 DEF LexInv
  <2>3. QED
    BY <2>1, <2>2, LexIncludeKeeps, LexReturnKeeps DEF LexNext
<1>3. QED
  BY <1>1, <1>2, PTL DEF LexSpec

-----------------------------------------------------------------------------
\* Three loops, as recursive functions: a round of each.
NextFiles(X) == {g \in FileNames : \E f \in X \ {Unreadable} : Includes(f, g)}
Round(r, w) ==
  IF r[1] = "reach" THEN w \cup NextFiles(w)
  ELSE IF r[1] = "pack" THEN PackNext(r[2], w) ELSE WalkNext(r[2], r[3], w)

\* What the first n rounds give.
RoundsTo(F, r, w, n) == F = [k \in 0 .. n |-> IF k = 0 THEN w ELSE Round(r, F[k - 1])]

\* They are what each round makes of the one before.
LEMMA RoundsToAt ==
  ASSUME NEW F, NEW r, NEW w, NEW n, RoundsTo(F, r, w, n)
  PROVE  \A k \in 0 .. n : F[k] = IF k = 0 THEN w ELSE Round(r, F[k - 1])
BY DEF RoundsTo

\* There are such rounds, as many as one likes.
LEMMA RoundsExist ==
  ASSUME NEW r, NEW w PROVE \A n \in Nat : \E F : RoundsTo(F, r, w, n)
<1> DEFINE G == {n \in Nat : \E F : RoundsTo(F, r, w, n)}
<1>1. 0 \in G
  <2>1. PICK F : F = [k \in 0 .. 0 |-> w]
    OBVIOUS
  <2>2. F = [k \in 0 .. 0 |-> IF k = 0 THEN w ELSE Round(r, F[k - 1])]
    BY <2>1
  <2>3. QED
    BY <2>2 DEF RoundsTo
<1>2. ASSUME NEW n \in Nat, n \in G PROVE n + 1 \in G
  <2>1. SUFFICES \E F : RoundsTo(F, r, w, n + 1)
    OBVIOUS
  <2>2. PICK F : RoundsTo(F, r, w, n)
    BY <1>2
  <2> DEFINE H == [k \in 0 .. n + 1 |-> IF k = 0 THEN w ELSE Round(r, F[k - 1])]
  <2>3. ASSUME NEW k \in 0 .. n PROVE H[k] = F[k]
    <3>1. F[k] = IF k = 0 THEN w ELSE Round(r, F[k - 1])
      BY <2>2, RoundsToAt
    <3>2. k \in 0 .. n + 1
      OBVIOUS
    <3>3. H[k] = IF k = 0 THEN w ELSE Round(r, F[k - 1])
      BY <3>2
    <3> HIDE DEF H
    <3>4. QED
      BY <3>1, <3>3
  <2>4. ASSUME NEW k \in 0 .. n + 1
        PROVE  H[k] = IF k = 0 THEN w ELSE Round(r, H[k - 1])
    <3>1. CASE k = 0
      BY <3>1
    <3>2. CASE k # 0
      <4>1. k - 1 \in 0 .. n
        BY <3>2
      <4>2. H[k - 1] = F[k - 1]
        BY <2>3, <4>1
      <4>3. H[k] = Round(r, F[k - 1])
        BY <3>2
      <4> HIDE DEF H
      <4>4. QED
        BY <3>2, <4>2, <4>3
    <3>3. QED
      BY <3>1, <3>2
  <2>5. PICK K : K = H
    OBVIOUS
  <2>6. K = [k \in 0 .. n + 1 |-> IF k = 0 THEN w ELSE Round(r, K[k - 1])]
    <3>1. K = [k \in 0 .. n + 1 |-> H[k]]
      BY <2>5
    <3> HIDE DEF H
    <3>2. QED
      BY <2>4, <2>5, <3>1
  <2>7. QED
    BY <2>6 DEF RoundsTo
<1>3. QED
  BY <1>1, <1>2, AllNumbers

\* The files that can be reached in each number of includes.
GrowsTo(F, S, n) ==
  F = [k \in 0 .. n |-> IF k = 0 THEN S ELSE F[k - 1] \cup {g \in FileNames : \E f \in F[k - 1] \ {Unreadable} : Includes(f, g)}]

\* Reach() is the last of the rounds that each add the files included next.
LEMMA ReachIs ==
  ASSUME NEW S
  PROVE  /\ Cardinality(Files) \in Nat
         /\ \E F : /\ Reach(S) = F[Cardinality(Files)] /\ F[0] = S
                   /\ \A k \in 1 .. Cardinality(Files) : F[k] = F[k - 1] \cup NextFiles(F[k - 1])
<1>1. PICK n \in Nat : n = Cardinality(Files)
  BY LexerAssumption, FS_CardinalityType
<1>2. PICK F : F = CHOOSE H : GrowsTo(H, S, n)
  OBVIOUS
<1>3. \E H : GrowsTo(H, S, n)
  <2>1. PICK H : RoundsTo(H, << "reach" >>, S, n)
    BY <1>1, RoundsExist
  <2>2. H = [k \in 0 .. n |-> IF k = 0 THEN S ELSE Round(<< "reach" >>, H[k - 1])]
    BY <2>1 DEF RoundsTo
  <2>3. \A X : Round(<< "reach" >>, X) = X \cup {g \in FileNames : \E f \in X \ {Unreadable} : Includes(f, g)}
    BY DEF Round, NextFiles
  <2>4. GrowsTo(H, S, n)
    BY <2>2, <2>3 DEF GrowsTo
  <2>5. QED
    BY <2>4
<1>4. GrowsTo(F, S, n)
  BY <1>2, <1>3
<1>5. Reach(S) = F[n]
  BY <1>1, <1>2 DEF Reach, GrowsTo
<1>6. \A k \in 0 .. n : F[k] = IF k = 0 THEN S ELSE F[k - 1] \cup NextFiles(F[k - 1])
  BY <1>4 DEF GrowsTo, NextFiles
<1>7. F[0] = S /\ \A k \in 1 .. n : F[k] = F[k - 1] \cup NextFiles(F[k - 1])
  <2>1. 0 \in 0 .. n /\ \A k \in 1 .. n : k \in 0 .. n /\ k # 0
    BY <1>1
  <2>2. QED
    BY <1>6, <2>1
<1>8. QED
  BY <1>1, <1>5, <1>7

\* A set that includes nothing beyond it has all that is reached from it.
LEMMA ReachInside ==
  ASSUME NEW S, NEW T, S \subseteq T, NextFiles(T) \subseteq T PROVE Reach(S) \subseteq T
<1>1. PICK n \in Nat : n = Cardinality(Files)
  BY ReachIs
<1>2. PICK F : /\ Reach(S) = F[n] /\ F[0] = S
               /\ \A k \in 1 .. n : F[k] = F[k - 1] \cup NextFiles(F[k - 1])
  BY <1>1, ReachIs
<1> DEFINE G == {k \in Nat : k <= n => F[k] \subseteq T}
<1>3. 0 \in G
  BY <1>2
<1>4. ASSUME NEW k \in Nat, k \in G PROVE k + 1 \in G
  <2>1. SUFFICES ASSUME k + 1 <= n PROVE F[k + 1] \subseteq T
    OBVIOUS
  <2>2. F[k] \subseteq T /\ F[k + 1] = F[k] \cup NextFiles(F[k])
    BY <1>2, <1>4, <2>1
  <2>3. NextFiles(F[k]) \subseteq NextFiles(T)
    BY <2>2 DEF NextFiles
  <2>4. QED
    BY <2>2, <2>3
<1>5. n \in G
  BY <1>3, <1>4, AllNumbers
<1>6. QED
  BY <1>2, <1>5

\* The includes of a file are what is at its places.
LEMMA IncludesAt ==
  ASSUME LexInv, NEW f \in Files, NEW g
  PROVE  Includes(f, g) <=> \E i \in 1 .. Len(includes[f]) : includes[f][i] = g
<1>1. includes[f] \in Seq(FileNames)
  BY DEF LexInv, LexedAre
<1>2. DOMAIN includes[f] = 1 .. Len(includes[f])
  BY <1>1
<1>3. QED
  BY <1>2 DEF Includes

\* No more files are read than there are.
LEMMA LexedAreFew == ASSUME LexInv PROVE Len(lexed) <= Cardinality(Files) /\ Cardinality({lexed[i] : i \in 1 .. Len(lexed)}) = Len(lexed)
<1>1. PICK n \in Nat : n = Len(lexed) /\ n >= 1 /\ lexed \in Seq(Files) /\ \A a, b \in 1 .. n : lexed[a] = lexed[b] => a = b
  <2>1. LexedAre
    BY DEF LexInv
  <2>2. lexed \in Seq(Files) /\ Len(lexed) # 0 /\ \A a, b \in 1 .. Len(lexed) : lexed[a] = lexed[b] => a = b
    BY <2>1 DEF LexedAre
  <2>3. Len(lexed) \in Nat /\ Len(lexed) >= 1
    BY <2>2
  <2>4. QED
    BY <2>2, <2>3
<1>2. IsFiniteSet(1 .. n) /\ Cardinality(1 .. n) = n
  <2>1. /\ IsFiniteSet(1 .. n) /\ Cardinality(1 .. n) = IF 1 > n THEN 0 ELSE n - 1 + 1
    BY <1>1, FS_Interval
  <2>2. QED
    BY <1>1, <2>1
<1>3. IsFiniteSet(Files)
  BY LexerAssumption
<1>4. PICK S : S = {lexed[i] : i \in 1 .. n}
  OBVIOUS
<1>5. lexed \in [1 .. n -> S] /\ S \subseteq Files
  BY <1>1, <1>4
<1>6. lexed \in Bijection(1 .. n, S)
  <2>1. \A a, b \in 1 .. n : lexed[a] = lexed[b] => a = b
    BY <1>1
  <2>2. \A x \in S : \E a \in 1 .. n : lexed[a] = x
    BY <1>4
  <2>3. QED
    BY <1>5, <2>1, <2>2 DEF Bijection, Injection, Surjection, IsInjective
<1>7. ExistsBijection(1 .. n, S)
  BY <1>6 DEF ExistsBijection
<1>8. Cardinality(S) = n
  BY <1>2, <1>7, FS_Bijection
<1>9. Cardinality(S) <= Cardinality(Files)
  BY <1>3, <1>5, FS_Subset
<1>10. QED
  BY <1>1, <1>4, <1>8, <1>9

\* What was read can be reached from the root.
LEMMA LexedIsReached == ASSUME LexInv, NEW a \in 1 .. Len(lexed) PROVE lexed[a] \in Reach({Root})
<1>1. PICK n \in Nat : n = Cardinality(Files)
  BY ReachIs
<1>2. PICK F : /\ Reach({Root}) = F[n] /\ F[0] = {Root}
               /\ \A k \in 1 .. n : F[k] = F[k - 1] \cup NextFiles(F[k - 1])
  <2>1. PICK S : S = {Root}
    OBVIOUS
  <2>2. \E F : /\ Reach(S) = F[n] /\ F[0] = S
               /\ \A k \in 1 .. n : F[k] = F[k - 1] \cup NextFiles(F[k - 1])
    <3>1. \E F : /\ Reach(S) = F[Cardinality(Files)] /\ F[0] = S
                 /\ \A k \in 1 .. Cardinality(Files) : F[k] = F[k - 1] \cup NextFiles(F[k - 1])
      BY ReachIs
    <3>2. QED
      BY <1>1, <3>1
  <2>3. QED
    BY <2>1, <2>2
<1>3. PICK m \in Nat : m = Len(lexed) /\ m <= n /\ m >= 1 /\ lexed[1] = Root /\ \A b \in 1 .. m : lexed[b] \in Files
  BY <1>1, LexedAreFew DEF LexInv, LexedAre
<1> DEFINE G == {k \in Nat : k <= n => \A b \in 1 .. m : b <= k + 1 => lexed[b] \in F[k]}
<1>4. 0 \in G
  <2>1. \A b \in 1 .. m : b <= 0 + 1 => b = 1
    BY <1>3
  <2>2. QED
    BY <1>2, <1>3, <2>1
<1>5. ASSUME NEW k \in Nat, k \in G PROVE k + 1 \in G
  <2>1. SUFFICES ASSUME k + 1 <= n, NEW b \in 1 .. m, b <= (k + 1) + 1 PROVE lexed[b] \in F[k + 1]
    OBVIOUS
  <2>2. F[k + 1] = F[k] \cup NextFiles(F[k])
    BY <1>2, <2>1
  <2>3. CASE b <= k + 1
    BY <1>5, <2>1, <2>2, <2>3
  <2>4. CASE b = k + 2
    <3>1. PICK c \in 1 .. b - 1, i \in Nat : TakenAt(lexed[c], i) /\ includes[lexed[c]][i] = lexed[b]
      <4>1. b \in 2 .. Len(lexed)
        BY <1>3, <2>4
      <4>2. QED
        BY <4>1 DEF LexInv, HaveParents
    <3>2. c \in 1 .. m /\ c <= k + 1
      BY <2>4, <3>1
    <3>3. lexed[c] \in F[k] /\ lexed[c] \in Files /\ lexed[c] # Unreadable /\ lexed[b] \in FileNames
      BY <1>3, <1>5, <2>1, <3>2, LexerAssumption DEF FileNames
    <3>4. Includes(lexed[c], lexed[b])
      BY <3>1, <3>3, IncludesAt DEF TakenAt
    <3>5. lexed[b] \in NextFiles(F[k])
      BY <3>3, <3>4 DEF NextFiles
    <3>6. QED
      BY <2>2, <3>5
  <2>5. QED
    BY <2>1, <2>3, <2>4
<1>6. \A k \in Nat : k \in G
  BY <1>4, <1>5, AllNumbers
<1>7. n \in G
  BY <1>6
<1>8. a <= n + 1 /\ a \in 1 .. m
  BY <1>3
<1>9. QED
  BY <1>2, <1>7, <1>8

\* When lex() is done, a file includes only files that were read behind it.
LEMMA DoneLeadsBehind ==
  ASSUME LexInv, lexing = "done", NEW b \in 1 .. Len(lexed), NEW g, Includes(lexed[b], g)
  PROVE  \E a \in b + 1 .. Len(lexed) : g = lexed[a]
<1>1. lexed[b] \in Files
  BY DEF LexInv, LexedAre
<1>2. PICK i \in 1 .. Len(includes[lexed[b]]) : includes[lexed[b]][i] = g
  BY <1>1, IncludesAt
<1>3. Len(lexCalls) = 1 /\ Len(lexCalls[1].queue) = 0
  BY DEF LexInv, LexEnds
<1>4. Len(includes[lexed[b]]) \in Nat
  BY <1>1 DEF LexInv, LexedAre
<1>5. TakenAt(lexed[b], i) /\ i \in Nat
  BY <1>2, <1>3, <1>4 DEF TakenAt
<1>6. QED
  BY <1>2, <1>5 DEF LexInv, LeadBehind

\* A file that is accepted.
LEMMA LexAccepts == ASSUME LexInv PROVE AcceptedIsComplete
<1>1. SUFFICES ASSUME lexing = "done"
               PROVE  /\ ~Cyclic /\ Unreadable \notin Reach({Root})
                      /\ {lexed[i] : i \in DOMAIN lexed} = Reach({Root})
                      /\ Cardinality(Reach({Root})) = Len(lexed)
  BY DEF AcceptedIsComplete
<1>2. PICK n \in Nat : n = Len(lexed) /\ n >= 1 /\ lexed \in Seq(Files) /\ lexed[1] = Root /\ DOMAIN lexed = 1 .. n
                       /\ \A a, b \in 1 .. n : lexed[a] = lexed[b] => a = b
  <2>1. LexedAre
    BY DEF LexInv
  <2>2. /\ lexed \in Seq(Files) /\ Len(lexed) # 0 /\ lexed[1] = Root
        /\ \A a, b \in 1 .. Len(lexed) : lexed[a] = lexed[b] => a = b
    BY <2>1 DEF LexedAre
  <2>3. Len(lexed) \in Nat /\ Len(lexed) >= 1 /\ DOMAIN lexed = 1 .. Len(lexed)
    BY <2>2
  <2>4. QED
    BY <2>2, <2>3
<1>3. ASSUME NEW b \in 0 .. n, NEW T, T = {lexed[a] : a \in b + 1 .. n} PROVE NextFiles(T) \subseteq T
  <2>1. SUFFICES ASSUME NEW f \in T, NEW g, Includes(f, g) PROVE g \in T
    BY DEF NextFiles
  <2>2. PICK a \in b + 1 .. n : f = lexed[a]
    BY <1>3
  <2>3. a \in 1 .. n
    BY <2>2
  <2>4. PICK c \in a + 1 .. n : g = lexed[c]
    BY <1>1, <1>2, <2>1, <2>2, <2>3, DoneLeadsBehind
  <2>5. c \in b + 1 .. n
    BY <2>2, <2>4
  <2>6. QED
    BY <1>3, <2>4, <2>5
<1>4. Reach({Root}) = {lexed[i] : i \in 1 .. n}
  <2>1. PICK T : T = {lexed[i] : i \in 1 .. n}
    OBVIOUS
  <2>2. NextFiles(T) \subseteq T
    <3>1. 0 \in 0 .. n /\ T = {lexed[a] : a \in 0 + 1 .. n}
      BY <2>1
    <3>2. QED
      BY <1>3, <3>1
  <2>3. {Root} \subseteq T
    BY <1>2, <2>1
  <2>4. Reach({Root}) \subseteq T
    BY <2>2, <2>3, ReachInside
  <2>5. T \subseteq Reach({Root})
    <3>1. \A i \in 1 .. Len(lexed) : lexed[i] \in Reach({Root})
      BY <1>1, LexedIsReached
    <3>2. \A i \in 1 .. n : lexed[i] \in Reach({Root})
      BY <1>2, <3>1
    <3>3. QED
      BY <2>1, <3>2
  <2>6. QED
    BY <2>1, <2>4, <2>5
<1>5. ~Cyclic
  <2>1. SUFFICES ASSUME NEW f \in Reach({Root}), f \in Reach({g \in FileNames : Includes(f, g)}) PROVE FALSE
    BY DEF Cyclic
  <2>2. PICK b \in 1 .. n : f = lexed[b]
    BY <1>4
  <2>3. PICK T : T = {lexed[a] : a \in b + 1 .. n}
    OBVIOUS
  <2>4. {g \in FileNames : Includes(f, g)} \subseteq T
    BY <1>1, <1>2, <2>2, <2>3, DoneLeadsBehind
  <2>5. NextFiles(T) \subseteq T
    <3>1. b \in 0 .. n
      OBVIOUS
    <3>2. QED
      BY <1>3, <2>3, <3>1
  <2>6. f \in T
    BY <2>1, <2>4, <2>5, ReachInside
  <2>7. PICK a \in b + 1 .. n : lexed[a] = lexed[b]
    BY <2>2, <2>3, <2>6
  <2>8. a \in 1 .. n /\ a # b
    BY <2>7
  <2>9. QED
    BY <1>2, <2>7, <2>8
<1>6. Unreadable \notin Reach({Root})
  <2>1. \A i \in 1 .. n : lexed[i] \in Files
    BY <1>2
  <2>2. QED
    BY <1>4, <2>1, LexerAssumption
<1>7. QED
  BY <1>2, <1>4, <1>5, <1>6, LexedAreFew

\* A file that is refused for a cycle.
LEMMA LexRefuses == ASSUME LexInv PROVE RefusedIsReachedTwice
<1> DEFINE Occurs(f) == {p \in (Files \X (1..MaxIncludes)) :
                           /\ p[1] \in Reach({Root}) /\ p[2] \in DOMAIN includes[p[1]]
                           /\ includes[p[1]][p[2]] = f}
<1>1. SUFFICES ASSUME lexing = "cyclic"
               PROVE  \/ \E f \in Files \ {Root} : Cardinality(Occurs(f)) > 1
                      \/ Occurs(Root) # {}
  BY DEF RefusedIsReachedTwice
<1>2. PICK b, c \in 1 .. Len(lexed) : \E j \in 1 .. Len(includes[lexed[b]]) :
         ~TakenAt(lexed[b], j) /\ includes[lexed[b]][j] = lexed[c]
  BY <1>1 DEF LexInv, LexEnds
<1>3. PICK j \in 1 .. Len(includes[lexed[b]]) : ~TakenAt(lexed[b], j) /\ includes[lexed[b]][j] = lexed[c]
  BY <1>2
<1>4. /\ \A a \in 1 .. Len(lexed) : lexed[a] \in Files /\ Len(includes[lexed[a]]) <= MaxIncludes
                                    /\ Len(includes[lexed[a]]) \in Nat /\ DOMAIN includes[lexed[a]] = 1 .. Len(includes[lexed[a]])
      /\ MaxIncludes \in Nat /\ Len(lexed) \in Nat /\ lexed[1] = Root
  BY LexerAssumption DEF LexInv, LexedAre
<1>5. ASSUME NEW a \in 1 .. Len(lexed), NEW i \in 1 .. Len(includes[lexed[a]]), NEW f, includes[lexed[a]][i] = f
      PROVE  << lexed[a], i >> \in Occurs(f)
  <2>1. i \in 1 .. MaxIncludes
    BY <1>4
  <2>2. QED
    BY <1>4, <1>5, <2>1, LexedIsReached
<1>6. << lexed[b], j >> \in Occurs(lexed[c])
  BY <1>3, <1>5
<1> HIDE DEF Occurs
<1>7. CASE c = 1
  BY <1>4, <1>6, <1>7
<1>8. CASE c # 1
  <2>1. c \in 2 .. Len(lexed)
    BY <1>4, <1>8
  <2>2. PICK d \in 1 .. c - 1, i \in Nat : TakenAt(lexed[d], i) /\ includes[lexed[d]][i] = lexed[c]
    BY <2>1 DEF LexInv, HaveParents
  <2>3. d \in 1 .. Len(lexed) /\ i \in 1 .. Len(includes[lexed[d]])
    BY <1>4, <2>1, <2>2 DEF TakenAt
  <2>4. << lexed[d], i >> \in Occurs(lexed[c])
    BY <1>5, <2>2, <2>3
  <2>5. << lexed[d], i >> # << lexed[b], j >>
    BY <1>3, <2>2
  <2>6. IsFiniteSet(Occurs(lexed[c]))
    <3>1. IsFiniteSet(Files) /\ IsFiniteSet(1 .. MaxIncludes)
      BY <1>4, LexerAssumption, FS_Interval
    <3>2. IsFiniteSet(Files \X (1 .. MaxIncludes))
      BY <3>1, FS_Product
    <3>3. Occurs(lexed[c]) \subseteq Files \X (1 .. MaxIncludes)
      BY DEF Occurs
    <3>4. QED
      BY <3>2, <3>3, FS_Subset
  <2>7. Cardinality({<< lexed[d], i >>, << lexed[b], j >>}) = 2 /\ IsFiniteSet({<< lexed[d], i >>, << lexed[b], j >>})
    <3>1. PICK x, y : x = << lexed[d], i >> /\ y = << lexed[b], j >> /\ x # y
      BY <2>5
    <3>2. IsFiniteSet({x}) /\ Cardinality({x}) = 1
      BY FS_Singleton
    <3>3. IsFiniteSet({x} \cup {y}) /\ Cardinality({x} \cup {y}) = 2
      <4>1. y \notin {x}
        BY <3>1
      <4>2. /\ IsFiniteSet({x} \cup {y})
            /\ Cardinality({x} \cup {y}) = IF y \in {x} THEN Cardinality({x}) ELSE Cardinality({x}) + 1
        BY <3>2, FS_AddElement
      <4>3. PICK k, m : k = Cardinality({x} \cup {y}) /\ m = Cardinality({x})
        OBVIOUS
      <4>4. m = 1
        BY <3>2, <4>3
      <4>5. k = m + 1
        BY <4>1, <4>2, <4>3
      <4>6. k = 2
        BY <4>4, <4>5
      <4>7. QED
        BY <4>2, <4>3, <4>6
    <3>4. {x} \cup {y} = {x, y}
      OBVIOUS
    <3>5. QED
      BY <3>1, <3>3, <3>4
  <2>8. Cardinality(Occurs(lexed[c])) >= 2
    <3>1. {<< lexed[d], i >>, << lexed[b], j >>} \subseteq Occurs(lexed[c])
      BY <1>6, <2>4
    <3>2. Cardinality({<< lexed[d], i >>, << lexed[b], j >>}) <= Cardinality(Occurs(lexed[c]))
      BY <2>6, <3>1, FS_Subset
    <3>3. QED
      BY <2>6, <2>7, <3>2, FS_CardinalityType
  <2>9. lexed[c] \in Files \ {Root}
    <3>1. \A x, y \in 1 .. Len(lexed) : lexed[x] = lexed[y] => x = y
      BY DEF LexInv, LexedAre
    <3>2. 1 \in 1 .. Len(lexed)
      BY <1>4, <2>1
    <3>3. QED
      BY <1>4, <1>8, <3>1, <3>2
  <2>10. QED
    BY <2>6, <2>8, <2>9, FS_CardinalityType
<1>9. QED
  BY <1>7, <1>8

\* The invariant gives the three properties.
LEMMA LexGives == LexInv => LexTypeOK /\ AcceptedIsComplete /\ RefusedIsReachedTwice
<1>1. SUFFICES ASSUME LexInv PROVE LexTypeOK /\ AcceptedIsComplete /\ RefusedIsReachedTwice
  OBVIOUS
<1>2. lexing \in {"running", "done", "cyclic", "unreadable"}
  BY <1>1 DEF LexInv, LexEnds
<1>3. scanned \subseteq FileNames /\ lexed \in Seq(Files)
  <2>1. lexed \in Seq(Files) /\ Len(lexed) \in Nat
    BY <1>1 DEF LexInv, LexedAre
  <2>2. scanned \subseteq {lexed[a] : a \in 1 .. Len(lexed)} \cup {Unreadable}
    BY <1>1 DEF LexInv, LexedAre
  <2>3. QED
    BY <2>1, <2>2 DEF FileNames
<1>4. lexCalls # << >>
  BY <1>1 DEF LexInv, CallsAre
<1>5. QED
  BY <1>1, <1>2, <1>3, <1>4, LexedAreFew, LexAccepts, LexRefuses, Zenon DEF LexTypeOK

-----------------------------------------------------------------------------
(***************************************************************************)
(* The packed tables, and what the kernel finds in them.                   *)
(***************************************************************************)

\* A table of scan codes.
IsTable(table) == table \in [0..(Cells - 1) -> Strings \cup {None}]

\* The cells without an entry end with a cell that has one, or with the table.
LEMMA ZeroesAre ==
  ASSUME NEW table, IsTable(table), NEW i \in 0..(Cells - 1), NEW z, z = Zeroes(table, i)
  PROVE  /\ z \in 0 .. Cells - i /\ \A j \in i .. i + z - 1 : table[j] = None
         /\ i + z = Cells \/ table[i + z] # None
<1>1. Cells \in Nat /\ Cells > i /\ i \in Nat
  BY ScanAssumption
<1>2. PICK S : S = {n \in 0 .. Cells - i : i + n = Cells \/ table[i + n] # None}
  OBVIOUS
<1>3. Cells - i \in S /\ S \subseteq Nat
  BY <1>1, <1>2
<1>4. PICK n : n = Min(S)
  OBVIOUS
<1>5. n \in S /\ \A m \in S : n <= m
  BY <1>3, <1>4, MinIsLeast
<1>6. n \in 0 .. Cells - i /\ (i + n = Cells \/ table[i + n] # None)
  BY <1>2, <1>5
<1>7. \A j \in i .. i + n - 1 : table[j] = None
  <2>1. SUFFICES ASSUME NEW j \in i .. i + n - 1, table[j] # None PROVE FALSE
    OBVIOUS
  <2>2. j - i \in 0 .. Cells - i /\ i + (j - i) = j /\ j - i < n
    BY <1>1, <1>6
  <2>3. j - i \in S
    BY <1>2, <2>1, <2>2
  <2>4. n <= j - i
    BY <1>5, <2>3
  <2>5. QED
    BY <1>1, <1>6, <2>2, <2>4
<1>8. z \in {m \in 0 .. Cells - i : /\ \A j \in i .. i + m - 1 : table[j] = None
                                    /\ i + m = Cells \/ table[i + m] # None}
  BY <1>6, <1>7 DEF Zeroes
<1>9. QED
  BY <1>8

\* The rounds of generate_table().
PacksTo(F, table) ==
  F = [k \in 0..Cells |-> IF k = 0 THEN [i |-> 0, t |-> << >>] ELSE PackNext(table, F[k - 1])]
PackedBy(F, table) ==
  /\ Pack(table) = F[Cells].t /\ F[0] = [i |-> 0, t |-> << >>]
  /\ \A k \in 1 .. Cells : F[k] = PackNext(table, F[k - 1])

\* There are such rounds, and Pack() takes the last.
LEMMA PackIs == ASSUME NEW table PROVE \E F : PackedBy(F, table)
<1>1. Cells \in Nat
  BY ScanAssumption
<1>2. PICK F : F = CHOOSE H : PacksTo(H, table)
  OBVIOUS
<1>3. \E H : PacksTo(H, table)
  <2>1. PICK w : w = [i |-> 0, t |-> << >>]
    OBVIOUS
  <2>2. PICK H : RoundsTo(H, << "pack", table >>, w, Cells)
    BY <1>1, RoundsExist
  <2>3. H = [k \in 0 .. Cells |-> IF k = 0 THEN w ELSE Round(<< "pack", table >>, H[k - 1])]
    BY <2>2 DEF RoundsTo
  <2>4. \A p : Round(<< "pack", table >>, p) = PackNext(table, p)
    BY DEF Round
  <2>5. PacksTo(H, table)
    BY <2>1, <2>3, <2>4 DEF PacksTo
  <2>6. QED
    BY <2>5
<1>4. PacksTo(F, table)
  BY <1>2, <1>3
<1>5. Pack(table) = F[Cells].t
  BY <1>2 DEF Pack, PacksTo
<1>6. \A k \in 0 .. Cells : F[k] = IF k = 0 THEN [i |-> 0, t |-> << >>] ELSE PackNext(table, F[k - 1])
  BY <1>4 DEF PacksTo
<1>7. 0 \in 0 .. Cells /\ \A k \in 1 .. Cells : k \in 0 .. Cells /\ k # 0
  BY <1>1
<1>8. QED
  BY <1>5, <1>6, <1>7 DEF PackedBy

\* The rounds of lookup_table().
LooksTo(F, t, n) ==
  F = [k \in 0..Len(t) |-> IF k = 0 THEN [idx |-> 1, i |-> 0, end |-> FALSE, s |-> None] ELSE WalkNext(t, n, F[k - 1])]
LookedBy(F, t, n) ==
  /\ LookUp(t, n) = F[Len(t)].s /\ F[0] = [idx |-> 1, i |-> 0, end |-> FALSE, s |-> None]
  /\ \A k \in 1 .. Len(t) : F[k] = WalkNext(t, n, F[k - 1])

\* There are such rounds, and the look-up gives what the last has found.
LEMMA LookIs == ASSUME NEW t, Len(t) \in Nat, NEW n PROVE \E F : LookedBy(F, t, n)
<1>2. PICK F : F = CHOOSE H : LooksTo(H, t, n)
  OBVIOUS
<1>3. \E H : LooksTo(H, t, n)
  <2>1. PICK w : w = [idx |-> 1, i |-> 0, end |-> FALSE, s |-> None]
    OBVIOUS
  <2>2. PICK H : RoundsTo(H, << "look", t, n >>, w, Len(t))
    BY RoundsExist
  <2>3. H = [k \in 0 .. Len(t) |-> IF k = 0 THEN w ELSE Round(<< "look", t, n >>, H[k - 1])]
    BY <2>2 DEF RoundsTo
  <2>4. \A p : Round(<< "look", t, n >>, p) = WalkNext(t, n, p)
    BY DEF Round
  <2>5. LooksTo(H, t, n)
    BY <2>1, <2>3, <2>4 DEF LooksTo
  <2>6. QED
    BY <2>5
<1>4. LooksTo(F, t, n)
  BY <1>2, <1>3
<1>5. LookUp(t, n) = F[Len(t)].s
  BY <1>2 DEF LookUp, LooksTo
<1>6. \A k \in 0 .. Len(t) : F[k] = IF k = 0 THEN [idx |-> 1, i |-> 0, end |-> FALSE, s |-> None] ELSE WalkNext(t, n, F[k - 1])
  BY <1>4 DEF LooksTo
<1>7. 0 \in 0 .. Len(t) /\ \A k \in 1 .. Len(t) : k \in 0 .. Len(t) /\ k # 0
  OBVIOUS
<1>8. QED
  BY <1>5, <1>6, <1>7 DEF LookedBy

\* The bytes of x are the first of y.
FrontOf(x, y) == Len(x) <= Len(y) /\ \A j \in 1 .. Len(x) : y[j] = x[j]

\* What generate_table() has packed.
IsPacked(p) == p.i \in 0 .. Cells /\ p.t \in Seq(Nat)

\* A round packs a gap, or a string with its NUL.
GapPacked(table, p, r) ==
  LET z == r.i - p.i IN
  /\ z \in 1 .. Cells - p.i /\ \A j \in p.i .. p.i + z - 1 : table[j] = None
  /\ Len(r.t) = Len(p.t) + 2 /\ r.t[Len(p.t) + 1] = 0 /\ r.t[Len(p.t) + 2] = z
  /\ r.i = Cells \/ table[r.i] # None
StringPacked(table, p, r) ==
  LET q == table[p.i] IN
  /\ q # None /\ r.i = p.i + 1
  /\ Len(r.t) = Len(p.t) + Len(q) + 1 /\ r.t[Len(p.t) + Len(q) + 1] = 0
  /\ \A j \in 1 .. Len(q) : r.t[Len(p.t) + j] = q[j]

\* An entry of a table.
LEMMA EntryIsString ==
  ASSUME NEW table, IsTable(table), NEW i \in 0..(Cells - 1), table[i] # None
  PROVE  table[i] \in Seq(1..(Cells - 1)) /\ Len(table[i]) \in Nat \ {0}
<1>1. table[i] \in Strings
  BY DEF IsTable
<1>2. table[i] \in Seq(1..(Cells - 1)) /\ table[i] # << >>
  BY <1>1, ScanAssumption
<1>3. QED
  BY <1>2

\* What one sequence behind the other has.
LEMMA BehindEach ==
  ASSUME NEW T, NEW x \in Seq(T), NEW y \in Seq(T), NEW z, z = x \o y
  PROVE  /\ z \in Seq(T) /\ Len(z) = Len(x) + Len(y) /\ Len(x) \in Nat /\ Len(y) \in Nat
         /\ \A j \in 1 .. Len(x) : z[j] = x[j]
         /\ \A j \in 1 .. Len(y) : z[Len(x) + j] = y[j]
OBVIOUS

\* A round of generate_table().
LEMMA PackRound ==
  ASSUME NEW table, IsTable(table), NEW p, IsPacked(p), NEW r, r = PackNext(table, p)
  PROVE  /\ IsPacked(r) /\ FrontOf(p.t, r.t)
         /\ p.i = Cells => r = p
         /\ p.i # Cells => r.i > p.i /\ Len(r.t) >= Len(p.t) + 2
         /\ p.i # Cells /\ table[p.i] = None => GapPacked(table, p, r)
         /\ p.i # Cells /\ table[p.i] # None => StringPacked(table, p, r)
<1>1. Cells \in Nat /\ p.i \in 0 .. Cells /\ p.t \in Seq(Nat) /\ Len(p.t) \in Nat
  BY ScanAssumption DEF IsPacked
<1>2. CASE p.i = Cells
  <2>1. r = p
    BY <1>2 DEF PackNext
  <2>2. QED
    BY <1>1, <1>2, <2>1 DEF IsPacked, FrontOf
<1>3. CASE p.i # Cells /\ table[p.i] = None
  <2>1. PICK z : z = Zeroes(table, p.i)
    OBVIOUS
  <2>2. p.i \in 0 .. Cells - 1
    BY <1>1, <1>3
  <2>3. /\ z \in 0 .. Cells - p.i /\ \A j \in p.i .. p.i + z - 1 : table[j] = None
        /\ p.i + z = Cells \/ table[p.i + z] # None
    BY <2>1, <2>2, ZeroesAre
  <2>4. z # 0
    BY <1>1, <1>3, <2>3
  <2>5. r.i = p.i + z /\ r.t = p.t \o << 0, z >>
    BY <1>3, <2>1 DEF PackNext
  <2>6. << 0, z >> \in Seq(Nat) /\ Len(<< 0, z >>) = 2 /\ << 0, z >>[1] = 0 /\ << 0, z >>[2] = z
    BY <1>1, <2>3
  <2>7. PICK g : g = << 0, z >>
    OBVIOUS
  <2>8. /\ r.t \in Seq(Nat) /\ Len(r.t) = Len(p.t) + 2
        /\ \A j \in 1 .. Len(p.t) : r.t[j] = p.t[j]
        /\ \A j \in 1 .. 2 : r.t[Len(p.t) + j] = g[j]
    BY <1>1, <2>5, <2>6, <2>7, BehindEach
  <2>9. r.t[Len(p.t) + 1] = 0 /\ r.t[Len(p.t) + 2] = z
    BY <2>6, <2>7, <2>8
  <2>10. IsPacked(r)
    BY <1>1, <2>3, <2>5, <2>8 DEF IsPacked
  <2>11. r.i - p.i = z /\ z \in 1 .. Cells - p.i /\ r.i > p.i
    BY <1>1, <2>3, <2>4, <2>5
  <2>12. GapPacked(table, p, r)
    <3>1. r.i = Cells \/ table[r.i] # None
      BY <2>3, <2>5
    <3>2. QED
      BY <2>3, <2>8, <2>9, <2>11, <3>1 DEF GapPacked
  <2>13. FrontOf(p.t, r.t)
    <3>1. Len(p.t) <= Len(r.t)
      BY <1>1, <2>8
    <3>2. QED
      BY <2>8, <3>1 DEF FrontOf
  <2>14. QED
    BY <1>1, <1>3, <2>8, <2>10, <2>11, <2>12, <2>13
<1>4. CASE p.i # Cells /\ table[p.i] # None
  <2>1. p.i \in 0 .. Cells - 1
    BY <1>1, <1>4
  <2>2. PICK q : q = table[p.i]
    OBVIOUS
  <2>3. q \in Seq(Nat) /\ Len(q) \in Nat \ {0} /\ q # None
    <3>1. q \in Seq(1..(Cells - 1)) /\ Len(q) \in Nat \ {0}
      BY <1>4, <2>1, <2>2, EntryIsString
    <3>2. QED
      BY <1>1, <1>4, <2>2, <3>1
  <2>4. r.i = p.i + 1 /\ r.t = (p.t \o q) \o << 0 >>
    BY <1>4, <2>2 DEF PackNext
  <2>5. PICK u : u = p.t \o q
    OBVIOUS
  <2>6. /\ u \in Seq(Nat) /\ Len(u) = Len(p.t) + Len(q)
        /\ \A j \in 1 .. Len(p.t) : u[j] = p.t[j]
        /\ \A j \in 1 .. Len(q) : u[Len(p.t) + j] = q[j]
    BY <1>1, <2>3, <2>5, BehindEach
  <2>7. /\ r.t \in Seq(Nat) /\ Len(r.t) = Len(u) + 1
        /\ \A j \in 1 .. Len(u) : r.t[j] = u[j]
        /\ r.t[Len(u) + 1] = 0
    BY <2>4, <2>5, <2>6
  <2>8. IsPacked(r)
    BY <1>1, <2>1, <2>4, <2>7 DEF IsPacked
  <2>9. \A j \in 1 .. Len(p.t) : r.t[j] = p.t[j]
    <3>1. ASSUME NEW j \in 1 .. Len(p.t) PROVE r.t[j] = p.t[j]
      <4>1. j \in 1 .. Len(u)
        BY <1>1, <2>3, <2>6
      <4>2. QED
        BY <2>6, <2>7, <4>1
    <3>2. QED
      BY <3>1
  <2>10. \A j \in 1 .. Len(q) : r.t[Len(p.t) + j] = q[j]
    <3>1. ASSUME NEW j \in 1 .. Len(q) PROVE r.t[Len(p.t) + j] = q[j]
      <4>1. Len(p.t) + j \in 1 .. Len(u)
        BY <1>1, <2>3, <2>6
      <4>2. QED
        BY <2>6, <2>7, <4>1
    <3>2. QED
      BY <3>1
  <2>11. Len(r.t) = Len(p.t) + Len(q) + 1 /\ r.t[Len(p.t) + Len(q) + 1] = 0
    BY <2>6, <2>7
  <2>12. StringPacked(table, p, r)
    BY <2>2, <2>3, <2>4, <2>10, <2>11 DEF StringPacked
  <2>13. FrontOf(p.t, r.t)
    <3>1. Len(p.t) \in Nat /\ Len(q) \in Nat
      BY <1>1, <2>3
    <3>2. Len(p.t) <= Len(r.t)
      BY <2>11, <3>1
    <3>3. QED
      BY <2>9, <3>2 DEF FrontOf
  <2>14. r.i > p.i /\ Len(r.t) >= Len(p.t) + 2
    BY <1>1, <2>3, <2>4, <2>11
  <2>15. QED
    BY <1>4, <2>8, <2>12, <2>13, <2>14
<1>5. QED
  BY <1>2, <1>3, <1>4

\* All rounds of generate_table(), and the last: it has come to the end.
LEMMA PackRounds ==
  ASSUME NEW table, IsTable(table), NEW F, PackedBy(F, table)
  PROVE  /\ \A k \in 0 .. Cells :
              /\ IsPacked(F[k]) /\ F[k].i >= k /\ (F[k].i # Cells => Len(F[k].t) >= k)
              /\ FrontOf(F[k].t, Pack(table))
         /\ F[Cells].i = Cells /\ Pack(table) \in Seq(Nat)
<1>1. Cells \in Nat
  BY ScanAssumption
<1>2. /\ Pack(table) = F[Cells].t /\ F[0] = [i |-> 0, t |-> << >>]
      /\ \A k \in 1 .. Cells : F[k] = PackNext(table, F[k - 1])
  BY DEF PackedBy
<1> DEFINE G == {k \in Nat : k <= Cells => IsPacked(F[k]) /\ F[k].i >= k /\ (F[k].i # Cells => Len(F[k].t) >= k)}
<1>3. 0 \in G
  <2>1. F[0].i = 0 /\ F[0].t = << >>
    BY <1>2
  <2>2. << >> \in Seq(Nat)
    OBVIOUS
  <2>3. IsPacked(F[0])
    BY <1>1, <2>1, <2>2 DEF IsPacked
  <2>4. Len(F[0].t) = 0
    BY <2>1
  <2>5. QED
    BY <2>1, <2>3, <2>4
<1>4. ASSUME NEW k \in Nat, k \in G PROVE k + 1 \in G
  <2>1. SUFFICES ASSUME k + 1 <= Cells
                 PROVE  IsPacked(F[k + 1]) /\ F[k + 1].i >= k + 1 /\ (F[k + 1].i # Cells => Len(F[k + 1].t) >= k + 1)
    OBVIOUS
  <2>2. IsPacked(F[k]) /\ F[k].i >= k /\ (F[k].i # Cells => Len(F[k].t) >= k)
    BY <1>1, <1>4, <2>1
  <2>3. F[k + 1] = PackNext(table, F[k])
    <3>1. k + 1 \in 1 .. Cells /\ (k + 1) - 1 = k
      BY <1>1, <2>1
    <3>2. QED
      BY <1>2, <3>1
  <2>4. PICK p, r : p = F[k] /\ r = F[k + 1]
    OBVIOUS
  <2>5. /\ IsPacked(r) /\ (p.i = Cells => r = p)
        /\ p.i # Cells => r.i > p.i /\ Len(r.t) >= Len(p.t) + 2
    BY <2>2, <2>3, <2>4, PackRound
  <2>6. p.i \in 0 .. Cells /\ r.i \in 0 .. Cells /\ Len(p.t) \in Nat /\ Len(r.t) \in Nat /\ p.i >= k
    BY <2>2, <2>4, <2>5 DEF IsPacked
  <2>7. r.i >= k + 1
    BY <1>1, <2>1, <2>5, <2>6
  <2>8. r.i # Cells => Len(r.t) >= k + 1
    BY <2>2, <2>4, <2>5, <2>6
  <2>9. QED
    BY <2>4, <2>5, <2>7, <2>8
<1>5. \A k \in 0 .. Cells : IsPacked(F[k]) /\ F[k].i >= k /\ (F[k].i # Cells => Len(F[k].t) >= k)
  <2>1. \A k \in Nat : k \in G
    BY <1>3, <1>4, AllNumbers
  <2>2. QED
    BY <1>1, <2>1
<1> HIDE DEF G
<1>6. IsPacked(F[Cells]) /\ F[Cells].i >= Cells
  BY <1>1, <1>5
<1>7. F[Cells].i = Cells /\ Pack(table) \in Seq(Nat)
  BY <1>1, <1>2, <1>6 DEF IsPacked
<1> DEFINE B == {d \in Nat : d <= Cells => FrontOf(F[Cells - d].t, Pack(table))}
<1>8. 0 \in B
  BY <1>1, <1>2, <1>7 DEF FrontOf
<1>9. ASSUME NEW d \in Nat, d \in B PROVE d + 1 \in B
  <2>1. SUFFICES ASSUME d + 1 <= Cells PROVE FrontOf(F[Cells - (d + 1)].t, Pack(table))
    OBVIOUS
  <2>2. PICK k : k = Cells - (d + 1) /\ k \in 0 .. Cells /\ k + 1 \in 1 .. Cells /\ k + 1 = Cells - d
    BY <1>1, <2>1
  <2>3. FrontOf(F[k + 1].t, Pack(table))
    BY <1>1, <1>9, <2>1, <2>2
  <2>4. F[k + 1] = PackNext(table, F[k]) /\ IsPacked(F[k]) /\ IsPacked(F[k + 1])
    BY <1>2, <1>5, <2>2
  <2>5. FrontOf(F[k].t, F[k + 1].t)
    BY <2>4, PackRound
  <2>6. F[k].t \in Seq(Nat) /\ F[k + 1].t \in Seq(Nat)
    BY <2>4 DEF IsPacked
  <2>7. PICK x, y, u : x = F[k].t /\ y = F[k + 1].t /\ u = Pack(table)
    OBVIOUS
  <2>8. FrontOf(x, u)
    <3>1. FrontOf(x, y) /\ FrontOf(y, u) /\ x \in Seq(Nat) /\ y \in Seq(Nat) /\ u \in Seq(Nat)
      BY <1>7, <2>3, <2>5, <2>6, <2>7
    <3>2. Len(x) \in Nat /\ Len(y) \in Nat /\ Len(u) \in Nat
      BY <3>1
    <3>3. Len(x) <= Len(y) /\ Len(y) <= Len(u)
      BY <3>1 DEF FrontOf
    <3>4. ASSUME NEW j \in 1 .. Len(x) PROVE u[j] = x[j]
      <4>1. j \in 1 .. Len(y)
        BY <3>2, <3>3
      <4>2. QED
        BY <3>1, <4>1 DEF FrontOf
    <3>5. QED
      BY <3>2, <3>3, <3>4 DEF FrontOf
  <2>9. QED
    BY <2>2, <2>7, <2>8
<1>10. \A k \in 0 .. Cells : FrontOf(F[k].t, Pack(table))
  <2>1. \A d \in Nat : d \in B
    BY <1>8, <1>9, AllNumbers
  <2>2. ASSUME NEW k \in 0 .. Cells PROVE FrontOf(F[k].t, Pack(table))
    <3>1. Cells - k \in Nat /\ Cells - k <= Cells /\ Cells - (Cells - k) = k
      BY <1>1
    <3>2. Cells - k \in B
      BY <2>1, <3>1
    <3>3. QED
      BY <3>1, <3>2
  <2>3. QED
    BY <2>2
<1>11. QED
  BY <1>5, <1>7, <1>10

\* The string at a place of the table, and its length.
LEMMA StringAt ==
  ASSUME NEW t \in Seq(Nat), NEW q \in Seq(1..(Cells - 1)), NEW o \in Nat,
         o + Len(q) + 1 <= Len(t), t[o + Len(q) + 1] = 0, \A j \in 1 .. Len(q) : t[o + j] = q[j]
  PROVE  StrLen(t, o + 1) = Len(q) /\ SubSeq(t, o + 1, o + 1 + Len(q) - 1) = q
<1>1. Cells \in Nat /\ Len(q) \in Nat /\ Len(t) \in Nat
  BY ScanAssumption
<1>2. PICK l \in Nat : l = Len(q) /\ o + l + 1 <= Len(t) /\ t[o + l + 1] = 0
  BY <1>1
<1>3. \A j \in o + 1 .. o + l : t[j] # 0
  <2>1. ASSUME NEW j \in o + 1 .. o + l PROVE t[j] # 0
    <3>1. j - o \in 1 .. l /\ o + (j - o) = j
      BY <1>2
    <3>2. q[j - o] \in 1..(Cells - 1)
      <4>1. \A x \in 1 .. Len(q) : q[x] \in 1..(Cells - 1)
        BY <1>1
      <4>2. QED
        BY <1>2, <3>1, <4>1
    <3>4. t[j] = q[j - o]
      <4>1. t[o + (j - o)] = q[j - o]
        BY <1>2, <3>1
      <4>2. QED
        BY <3>1, <4>1
    <3>3. QED
      BY <1>1, <3>2, <3>4
  <2>2. QED
    BY <2>1
<1>4. PICK n : n = StrLen(t, o + 1)
  OBVIOUS
<1>5. l \in 0 .. Len(t) /\ (\A j \in o + 1 .. (o + 1 + l - 1) : t[j] # 0) /\ t[o + 1 + l] = 0
  <2>1. o + 1 + l - 1 = o + l /\ o + 1 + l = o + l + 1
    BY <1>2
  <2>2. QED
    BY <1>1, <1>2, <1>3, <2>1
<1>6. n \in 0 .. Len(t) /\ (\A j \in o + 1 .. (o + 1 + n - 1) : t[j] # 0) /\ (o + 1 + n > Len(t) \/ t[o + 1 + n] = 0)
  BY <1>4, <1>5 DEF StrLen
<1>7. ~(l < n)
  <2>1. SUFFICES ASSUME l < n PROVE FALSE
    OBVIOUS
  <2>2. o + 1 + l \in o + 1 .. (o + 1 + n - 1)
    BY <1>2, <1>6, <2>1
  <2>3. QED
    BY <1>5, <1>6, <2>2
<1>8. ~(n < l)
  <2>1. SUFFICES ASSUME n < l PROVE FALSE
    OBVIOUS
  <2>2. o + 1 + n \in o + 1 .. o + l /\ o + 1 + n <= Len(t)
    BY <1>1, <1>2, <1>6, <2>1
  <2>3. QED
    BY <1>3, <1>6, <2>2
<1>9. n = l
  BY <1>2, <1>6, <1>7, <1>8
<1>10. SubSeq(t, o + 1, o + l) = q
  <2>1. PICK u : u = SubSeq(t, o + 1, o + l)
    OBVIOUS
  <2>2. o + 1 \in 1 .. Len(t) + 1 /\ o + l \in 0 .. Len(t)
    BY <1>1, <1>2
  <2>3. u \in Seq(Nat) /\ Len(u) = l /\ \A j \in 1 .. l : u[j] = t[o + 1 + j - 1]
    <3>1. Len(t) \in Nat /\ t \in Seq(Nat)
      BY <1>1
    <3>2. (o + l) - (o + 1) + 1 = l /\ o + 1 >= 1 /\ o + l <= Len(t)
      BY <1>2, <2>2
    <3>3. u \in Seq(Nat) /\ Len(u) = (IF o + 1 <= o + l THEN (o + l) - (o + 1) + 1 ELSE 0)
      BY <2>1, <2>2, <3>1, SubSeqProperties
    <3>4. \A j \in 1 .. l : u[j] = t[o + 1 + j - 1]
      BY <2>1, <3>1, <3>2
    <3>5. Len(u) = l
      BY <1>2, <3>2, <3>3
    <3>6. QED
      BY <3>3, <3>4, <3>5
  <2>4. \A j \in 1 .. l : u[j] = q[j]
    <3>1. ASSUME NEW j \in 1 .. l PROVE u[j] = q[j]
      <4>1. o + 1 + j - 1 = o + j /\ u[j] = t[o + 1 + j - 1]
        BY <1>2, <2>3
      <4>2. t[o + j] = q[j]
        BY <1>2
      <4>3. QED
        BY <4>1, <4>2
    <3>2. QED
      BY <3>1
  <2>5. u = [j \in 1 .. l |-> u[j]] /\ q = [j \in 1 .. l |-> q[j]]
    <3>1. \A s \in Seq(Nat) : s = [j \in 1 .. Len(s) |-> s[j]]
      OBVIOUS
    <3>2. q \in Seq(Nat)
      BY <1>1
    <3>3. QED
      BY <1>2, <2>3, <3>1, <3>2
  <2>6. QED
    BY <2>1, <2>4, <2>5
<1>11. o + 1 + Len(q) - 1 = o + l
  BY <1>2
<1>12. QED
  BY <1>2, <1>4, <1>9, <1>10, <1>11

\* Where the look-up is when it has come to what generate_table() packed next.
WalkAt(p) == [idx |-> Len(p.t) + 1, i |-> p.i, end |-> FALSE, s |-> None]

\* The fields of a look-up that has ended.
LEMMA EndHasString ==
  ASSUME NEW v, NEW x, NEW y, NEW u, v = [idx |-> x, i |-> y, end |-> TRUE, s |-> u], NEW q, u = q
  PROVE  v.end /\ v.s = q
<1>1. v.end
  OBVIOUS
<1>2. v.s = q
  OBVIOUS
<1>3. QED
  BY <1>1, <1>2

\* A round of the look-up finds the entry, or goes on as the packing went on.
LEMMA LookRound ==
  ASSUME NEW table, IsTable(table), NEW p, IsPacked(p), NEW r, r = PackNext(table, p),
         NEW t \in Seq(Nat), FrontOf(r.t, t), NEW n \in 0..(Cells - 1), p.i <= n,
         NEW v, v = WalkNext(t, n, WalkAt(p))
  PROVE  (v.end /\ v.s = table[n]) \/ (v = WalkAt(r) /\ r.i <= n)
<1>1. /\ Cells \in Nat /\ p.i \in 0 .. Cells - 1 /\ p.t \in Seq(Nat) /\ Len(p.t) \in Nat /\ n \in Nat /\ p.i # Cells
      /\ r.t \in Seq(Nat) /\ Len(r.t) \in Nat /\ Len(t) \in Nat /\ r.i \in Nat /\ Len(r.t) >= Len(p.t) + 2
  <2>1. Cells \in Nat /\ p.i \in 0 .. Cells /\ p.t \in Seq(Nat)
    BY ScanAssumption DEF IsPacked
  <2>2. p.i \in 0 .. Cells - 1 /\ p.i # Cells
    BY <2>1
  <2>3. IsPacked(r) /\ Len(r.t) >= Len(p.t) + 2
    BY <2>2, PackRound
  <2>4. r.t \in Seq(Nat) /\ r.i \in Nat
    BY <2>1, <2>3 DEF IsPacked
  <2>5. QED
    BY <2>1, <2>2, <2>3, <2>4
<1>2. PICK o \in Nat : o = Len(p.t)
  BY <1>1
<1>3. Len(r.t) <= Len(t) /\ \A j \in 1 .. Len(r.t) : t[j] = r.t[j]
  BY DEF FrontOf
<1>4. PICK w : w = WalkAt(p) /\ w.idx = o + 1 /\ w.i = p.i /\ ~w.end /\ w.s = None /\ w.idx <= Len(t)
               /\ w = [idx |-> o + 1, i |-> p.i, end |-> FALSE, s |-> None]
  <2>1. o + 1 <= Len(t)
    BY <1>1, <1>2, <1>3
  <2>2. QED
    BY <1>2, <2>1 DEF WalkAt
<1>5. CASE table[p.i] = None
  <2>1. GapPacked(table, p, r)
    BY <1>1, <1>5, PackRound
  <2>2. PICK z : z = r.i - p.i
    OBVIOUS
  <2>3. /\ z \in 1 .. Cells - p.i /\ (\A j \in p.i .. p.i + z - 1 : table[j] = None)
        /\ Len(r.t) = o + 2 /\ r.t[o + 1] = 0 /\ r.t[o + 2] = z
    BY <1>2, <2>1, <2>2 DEF GapPacked
  <2>4. t[o + 1] = 0 /\ t[o + 1 + 1] = z
    <3>1. o + 1 \in 1 .. Len(r.t) /\ o + 2 \in 1 .. Len(r.t) /\ o + 1 + 1 = o + 2
      BY <2>3
    <3>2. QED
      BY <1>3, <2>3, <3>1
  <2>5. v = [idx |-> w.idx + 2, i |-> p.i + z, end |-> GapBefore(n, p.i + z), s |-> w.s]
    <3>1. ~(w.end \/ w.idx > Len(t)) /\ t[w.idx] = 0 /\ w.i + t[w.idx + 1] = p.i + z
      BY <1>1, <1>4, <2>4
    <3>2. QED
      BY <1>4, <3>1 DEF WalkNext
  <2>6. v = [idx |-> o + 3, i |-> p.i + z, end |-> GapBefore(n, p.i + z), s |-> None]
    <3>1. w.idx + 2 = o + 3
      BY <1>4
    <3>2. QED
      BY <1>4, <2>5, <3>1
  <2>7. p.i + z = r.i
    BY <1>1, <2>2
  <2>8. CASE n < p.i + z
    <3>1. v.end /\ v.s = None
      <4>1. GapBefore(n, p.i + z) = TRUE
        BY <2>8 DEF GapBefore
      <4>2. v = [idx |-> o + 3, i |-> p.i + z, end |-> TRUE, s |-> None]
        BY <2>6, <4>1
      <4>3. QED
        BY <4>2
    <3>2. n \in p.i .. p.i + z - 1
      BY <1>1, <2>3, <2>8
    <3>3. QED
      BY <2>3, <3>1, <3>2
  <2>9. CASE ~(n < p.i + z)
    <3>1. GapBefore(n, p.i + z) = FALSE
      BY <2>9 DEF GapBefore
    <3>2. v = WalkAt(r)
      <4>1. Len(r.t) + 1 = o + 3
        BY <2>3
      <4>2. QED
        BY <2>6, <2>7, <3>1, <4>1 DEF WalkAt
    <3>3. QED
      BY <1>1, <2>7, <2>9, <3>2
  <2>10. QED
    BY <2>8, <2>9
<1>6. CASE table[p.i] # None
  <2>1. StringPacked(table, p, r)
    BY <1>1, <1>6, PackRound
  <2>2. PICK q : q = table[p.i]
    OBVIOUS
  <2>3. q \in Seq(1..(Cells - 1)) /\ Len(q) \in Nat \ {0}
    BY <1>1, <1>6, <2>2, EntryIsString
  <2>4. /\ r.i = p.i + 1 /\ Len(r.t) = o + Len(q) + 1 /\ r.t[o + Len(q) + 1] = 0
        /\ \A j \in 1 .. Len(q) : r.t[o + j] = q[j]
    BY <1>2, <2>1, <2>2 DEF StringPacked
  <2>5. o + Len(q) + 1 <= Len(t) /\ t[o + Len(q) + 1] = 0
    <3>1. o + Len(q) + 1 \in 1 .. Len(r.t)
      BY <2>3, <2>4
    <3>2. QED
      BY <1>1, <1>3, <2>4, <3>1
  <2>6. \A j \in 1 .. Len(q) : t[o + j] = q[j]
    <3>1. ASSUME NEW j \in 1 .. Len(q) PROVE t[o + j] = q[j]
      <4>1. o + j \in 1 .. Len(r.t)
        BY <2>3, <2>4
      <4>2. QED
        BY <1>3, <2>4, <4>1
    <3>2. QED
      BY <3>1
  <2>7. StrLen(t, o + 1) = Len(q) /\ SubSeq(t, o + 1, o + 1 + Len(q) - 1) = q
    BY <2>3, <2>5, <2>6, StringAt
  <2>8. t[o + 1] # 0
    <3>1. 1 \in 1 .. Len(q) /\ q[1] \in 1..(Cells - 1)
      <4>1. 1 \in 1 .. Len(q)
        BY <2>3
      <4>2. \A j \in 1 .. Len(q) : q[j] \in 1..(Cells - 1)
        <5>1. PICK S : S = 1..(Cells - 1)
          OBVIOUS
        <5>2. q \in Seq(S)
          BY <2>3, <5>1
        <5>3. \A j \in 1 .. Len(q) : q[j] \in S
          BY <5>2
        <5>4. QED
          BY <5>1, <5>3
      <4>3. QED
        BY <4>1, <4>2
    <3>2. t[o + 1] = q[1]
      BY <2>6, <3>1
    <3>3. QED
      BY <1>1, <3>1, <3>2
  <2>9. ~(w.end \/ w.idx > Len(t)) /\ t[w.idx] # 0 /\ w.i = p.i /\ StrLen(t, w.idx) = Len(q)
    BY <1>1, <1>4, <2>7, <2>8
  <2>10. CASE p.i = n
    <3>1. v = [idx |-> w.idx, i |-> w.i, end |-> TRUE, s |-> SubSeq(t, w.idx, w.idx + StrLen(t, w.idx) - 1)]
      BY <1>4, <2>9, <2>10 DEF WalkNext
    <3>2. v.end /\ v.s = SubSeq(t, o + 1, o + 1 + Len(q) - 1)
      <4>1. SubSeq(t, w.idx, w.idx + StrLen(t, w.idx) - 1) = SubSeq(t, o + 1, o + 1 + Len(q) - 1)
        BY <1>4, <2>9
      <4>2. QED
        BY ONLY <3>1, <4>1, EndHasString
    <3>3. QED
      BY <2>2, <2>7, <2>10, <3>2
  <2>11. CASE p.i # n
    <3>1. v = [idx |-> w.idx + StrLen(t, w.idx) + 1, i |-> w.i + 1, end |-> FALSE, s |-> w.s]
      BY <1>4, <2>9, <2>11 DEF WalkNext
    <3>2. v = [idx |-> (o + 1) + Len(q) + 1, i |-> p.i + 1, end |-> FALSE, s |-> None]
      <4>1. w.idx + StrLen(t, w.idx) + 1 = (o + 1) + Len(q) + 1
        BY <1>4, <2>9
      <4>2. w.i + 1 = p.i + 1 /\ w.s = None
        BY <1>4
      <4>3. QED
        BY <3>1, <4>1, <4>2
    <3>3. Len(r.t) + 1 = (o + 1) + Len(q) + 1 /\ r.i = p.i + 1 /\ r.i <= n
      <4>1. PICK x \in Nat, y \in Nat, z \in Nat : x = Len(q) /\ y = p.i /\ z = n /\ y # z /\ y <= z
        BY <1>1, <2>3, <2>11
      <4>2. Len(r.t) = o + x + 1 /\ r.i = y + 1
        BY <2>4, <4>1
      <4>3. QED
        BY <4>1, <4>2
    <3>4. QED
      BY <3>2, <3>3 DEF WalkAt
  <2>12. QED
    BY <2>10, <2>11
<1>7. QED
  BY <1>5, <1>6

\* What is looked up in a packed table is what the table has.
LEMMA PackedIsFound ==
  ASSUME NEW table, IsTable(table), NEW n \in 0..(Cells - 1) PROVE LookUp(Pack(table), n) = table[n]
<1>1. PICK t : t = Pack(table)
  OBVIOUS
<1>2. PICK F : PackedBy(F, table)
  BY PackIs
<1>3. /\ \A k \in 0 .. Cells :
           /\ IsPacked(F[k]) /\ F[k].i >= k /\ (F[k].i # Cells => Len(F[k].t) >= k)
           /\ FrontOf(F[k].t, t)
      /\ t \in Seq(Nat)
  BY <1>1, <1>2, PackRounds
<1>4. /\ F[0] = [i |-> 0, t |-> << >>]
      /\ \A k \in 1 .. Cells : F[k] = PackNext(table, F[k - 1])
  BY <1>2 DEF PackedBy
<1>5. Len(t) \in Nat /\ Cells \in Nat /\ n \in Nat /\ n < Cells
  BY <1>3, ScanAssumption
<1>6. PICK W : LookedBy(W, t, n)
  BY <1>5, LookIs
<1>7. /\ LookUp(t, n) = W[Len(t)].s /\ W[0] = [idx |-> 1, i |-> 0, end |-> FALSE, s |-> None]
      /\ \A k \in 1 .. Len(t) : W[k] = WalkNext(t, n, W[k - 1])
  BY <1>6 DEF LookedBy
<1> DEFINE Found(k) == W[k].end /\ W[k].s = table[n]
           GoesOn(k) == k < Cells /\ W[k] = WalkAt(F[k]) /\ F[k].i <= n
           G == {k \in Nat : k <= Len(t) => Found(k) \/ GoesOn(k)}
<1>8. 0 \in G
  <2>1. F[0].i = 0 /\ F[0].t = << >> /\ Len(F[0].t) = 0
    BY <1>4
  <2>2. W[0] = WalkAt(F[0])
    BY <1>7, <2>1 DEF WalkAt
  <2>3. QED
    BY <1>5, <2>1, <2>2
<1>9. ASSUME NEW k \in Nat, k \in G PROVE k + 1 \in G
  <2>1. SUFFICES ASSUME k + 1 <= Len(t) PROVE Found(k + 1) \/ GoesOn(k + 1)
    OBVIOUS
  <2>2. W[k + 1] = WalkNext(t, n, W[k])
    <3>1. k + 1 \in 1 .. Len(t) /\ (k + 1) - 1 = k
      BY <1>5, <2>1
    <3>2. QED
      BY <1>7, <3>1
  <2>3. CASE Found(k)
    <3>1. W[k + 1] = W[k]
      BY <2>2, <2>3 DEF WalkNext
    <3>2. QED
      BY <2>3, <3>1
  <2>4. CASE GoesOn(k)
    <3>1. k \in 0 .. Cells /\ k + 1 \in 1 .. Cells /\ k + 1 \in 0 .. Cells /\ (k + 1) - 1 = k
      BY <1>5, <2>4
    <3>2. PICK p, r : p = F[k] /\ r = F[k + 1]
      OBVIOUS
    <3>3. IsPacked(p) /\ r = PackNext(table, p) /\ FrontOf(r.t, t) /\ p.i <= n
      BY <1>3, <1>4, <2>4, <3>1, <3>2
    <3>4. PICK v : v = W[k + 1] /\ v = WalkNext(t, n, WalkAt(p))
      BY <2>2, <2>4, <3>2
    <3>5. (v.end /\ v.s = table[n]) \/ (v = WalkAt(r) /\ r.i <= n)
      BY <1>3, <3>3, <3>4, LookRound
    <3>6. CASE v = WalkAt(r) /\ r.i <= n
      <4>1. r.i >= k + 1 /\ r.i \in 0 .. Cells
        BY <1>3, <3>1, <3>2 DEF IsPacked
      <4>2. k + 1 < Cells
        BY <1>5, <3>6, <4>1
      <4>3. QED
        BY <3>2, <3>4, <3>6, <4>2
    <3>7. QED
      BY <3>4, <3>5, <3>6
  <2>5. QED
    BY <1>5, <1>9, <2>1, <2>3, <2>4
<1>10. Found(Len(t)) \/ GoesOn(Len(t))
  <2>1. \A k \in Nat : k \in G
    BY <1>8, <1>9, AllNumbers
  <2>2. Len(t) \in G
    BY <1>5, <2>1
  <2>3. QED
    BY <1>5, <2>2
\* All the bytes cannot have been taken before the last cell.
<1>11. ~GoesOn(Len(t))
  <2>1. SUFFICES ASSUME GoesOn(Len(t)) PROVE FALSE
    OBVIOUS
  <2>2. PICK k \in Nat : k = Len(t) /\ k < Cells /\ F[k].i <= n
    BY <1>5, <2>1
  <2>3. k \in 0 .. Cells /\ k + 1 \in 1 .. Cells /\ k + 1 \in 0 .. Cells /\ (k + 1) - 1 = k
    BY <1>5, <2>2
  <2>4. PICK p, r : p = F[k] /\ r = F[k + 1]
    OBVIOUS
  <2>5. /\ IsPacked(p) /\ r = PackNext(table, p) /\ FrontOf(r.t, t) /\ IsPacked(r) /\ p.i # Cells
        /\ (p.i # Cells => Len(p.t) >= k)
    BY <1>3, <1>4, <1>5, <2>2, <2>3, <2>4
  <2>6. Len(r.t) >= Len(p.t) + 2
    BY <2>5, PackRound
  <2>7. Len(r.t) <= Len(t) /\ Len(p.t) \in Nat /\ Len(r.t) \in Nat
    BY <2>5 DEF FrontOf, IsPacked
  <2>8. QED
    BY <2>2, <2>5, <2>6, <2>7
<1>12. QED
  BY <1>1, <1>7, <1>10, <1>11

\* The bytes of a table are bytes.
LEMMA BytesAreSmall ==
  ASSUME NEW table, IsTable(table), NEW c \in 0..(Cells - 1), table[c] # None PROVE Packable(table)
<1>1. Cells \in Nat /\ c \in Nat /\ c < Cells
  BY ScanAssumption
<1>2. PICK F : PackedBy(F, table)
  BY PackIs
<1>3. /\ \A k \in 0 .. Cells : IsPacked(F[k])
      /\ F[Cells].i = Cells /\ Pack(table) \in Seq(Nat)
  BY <1>2, PackRounds
<1>4. /\ Pack(table) = F[Cells].t /\ F[0] = [i |-> 0, t |-> << >>]
      /\ \A k \in 1 .. Cells : F[k] = PackNext(table, F[k - 1])
  BY <1>2 DEF PackedBy
<1> DEFINE Small(t) == \A j \in 1 .. Len(t) : t[j] < Cells
           G == {k \in Nat : k <= Cells => Small(F[k].t)}
<1>5. 0 \in G
  <2>1. F[0].t = << >> /\ Len(F[0].t) = 0
    BY <1>4
  <2>2. QED
    BY <2>1
<1>6. ASSUME NEW k \in Nat, k \in G PROVE k + 1 \in G
  <2>1. SUFFICES ASSUME k + 1 <= Cells PROVE Small(F[k + 1].t)
    OBVIOUS
  <2>2. k \in 0 .. Cells /\ k + 1 \in 0 .. Cells /\ k + 1 \in 1 .. Cells /\ (k + 1) - 1 = k
    BY <1>1, <2>1
  <2>3. PICK p, r : p = F[k] /\ r = F[k + 1]
    OBVIOUS
  <2>4. IsPacked(p) /\ IsPacked(r) /\ r = PackNext(table, p) /\ Small(p.t)
    BY <1>1, <1>3, <1>4, <1>6, <2>1, <2>2, <2>3
  <2>5. /\ FrontOf(p.t, r.t)
        /\ p.i = Cells => r = p
        /\ p.i # Cells /\ table[p.i] = None => GapPacked(table, p, r)
        /\ p.i # Cells /\ table[p.i] # None => StringPacked(table, p, r)
    BY <2>4, PackRound
  <2>6. p.i \in 0 .. Cells /\ Len(p.t) \in Nat /\ Len(r.t) \in Nat
    BY <2>4 DEF IsPacked
  <2>7. PICK o \in Nat, m \in Nat : o = Len(p.t) /\ m = Len(r.t)
    BY <2>6
  <2>8. \A j \in 1 .. o : r.t[j] < Cells
    <3>1. ASSUME NEW j \in 1 .. o PROVE r.t[j] < Cells
      <4>1. r.t[j] = p.t[j]
        BY <2>5, <2>7 DEF FrontOf
      <4>2. p.t[j] < Cells
        BY <2>4, <2>7
      <4>3. QED
        BY <4>1, <4>2
    <3>2. QED
      BY <3>1
  <2>9. CASE p.i = Cells
    BY <2>3, <2>4, <2>5, <2>9
  <2>10. CASE p.i # Cells /\ table[p.i] = None
    <3>1. GapPacked(table, p, r)
      BY <2>5, <2>10
    <3>2. PICK z : z = r.i - p.i
      OBVIOUS
    <3>3. /\ z \in 1 .. Cells - p.i /\ (\A j \in p.i .. p.i + z - 1 : table[j] = None)
          /\ m = o + 2 /\ r.t[o + 1] = 0 /\ r.t[o + 2] = z
      BY <2>7, <3>1, <3>2 DEF GapPacked
    <3>4. z < Cells
      <4>1. SUFFICES ASSUME z >= Cells PROVE FALSE
        BY <1>1, <2>6, <3>3
      <4>2. c \in p.i .. p.i + z - 1
        BY <1>1, <2>6, <3>3, <4>1
      <4>3. QED
        BY <3>3, <4>2
    <3>5. ASSUME NEW j \in 1 .. m PROVE r.t[j] < Cells
      <4>1. j \in 1 .. o \/ j = o + 1 \/ j = o + 2
        BY <3>3
      <4>2. 0 < Cells
        BY <1>1
      <4>3. QED
        BY <2>8, <3>3, <3>4, <4>1, <4>2
    <3>6. QED
      BY <2>3, <2>7, <3>5
  <2>11. CASE p.i # Cells /\ table[p.i] # None
    <3>1. StringPacked(table, p, r)
      BY <2>5, <2>11
    <3>2. PICK q : q = table[p.i]
      OBVIOUS
    <3>3. q \in Seq(1..(Cells - 1)) /\ Len(q) \in Nat
      <4>1. p.i \in 0..(Cells - 1)
        BY <1>1, <2>6, <2>11
      <4>2. QED
        BY <2>11, <3>2, <4>1, EntryIsString
    <3>4. PICK l \in Nat : l = Len(q)
      BY <3>3
    <3>5. /\ m = o + l + 1 /\ r.t[o + l + 1] = 0
          /\ \A j \in 1 .. l : r.t[o + j] = q[j]
      BY <2>7, <3>1, <3>2, <3>4 DEF StringPacked
    <3>6. \A j \in 1 .. l : q[j] \in 1..(Cells - 1)
      BY <1>1, <3>3, <3>4
    <3>7. ASSUME NEW j \in 1 .. m PROVE r.t[j] < Cells
      <4>1. CASE j \in 1 .. o
        BY <2>8, <4>1
      <4>2. CASE j = o + l + 1
        BY <1>1, <3>5, <4>2
      <4>3. CASE j \in o + 1 .. o + l
        <5>1. j - o \in 1 .. l /\ o + (j - o) = j
          BY <4>3
        <5>2. r.t[o + (j - o)] = q[j - o] /\ q[j - o] \in 1..(Cells - 1)
          BY <3>5, <3>6, <5>1
        <5>3. QED
          BY <1>1, <5>1, <5>2
      <4>4. j \in 1 .. o \/ j \in o + 1 .. o + l \/ j = o + l + 1
        BY <3>5
      <4>5. QED
        BY <4>1, <4>2, <4>3, <4>4
    <3>8. QED
      BY <2>3, <2>7, <3>7
  <2>12. QED
    BY <2>9, <2>10, <2>11
<1>7. Small(Pack(table))
  <2>1. \A k \in Nat : k \in G
    BY <1>5, <1>6, AllNumbers
  <2>2. Cells \in G /\ Cells <= Cells
    BY <1>1, <2>1
  <2>3. QED
    BY <1>4, <2>2
<1>8. DOMAIN Pack(table) = 1 .. Len(Pack(table))
  BY <1>3
<1>9. QED
  BY <1>7, <1>8 DEF Packable

\* A table without an entry has a gap of all its cells, which is no byte.
LEMMA EmptyIsRefused ==
  ASSUME NEW table, IsTable(table), \A c \in 0..(Cells - 1) : table[c] = None PROVE ~Packable(table)
<1>1. Cells \in Nat /\ Cells # 0
  BY ScanAssumption
<1>2. PICK F : PackedBy(F, table)
  BY PackIs
<1>3. 0 \in 0 .. Cells /\ 1 \in 0 .. Cells /\ 1 \in 1 .. Cells /\ 1 - 1 = 0 /\ 0 \in 0..(Cells - 1) /\ 0 # Cells
  BY <1>1
<1>4. IsPacked(F[0]) /\ IsPacked(F[1]) /\ FrontOf(F[1].t, Pack(table)) /\ Pack(table) \in Seq(Nat)
  BY <1>2, <1>3, PackRounds
<1>5. F[0] = [i |-> 0, t |-> << >>] /\ F[1] = PackNext(table, F[1 - 1])
  BY <1>2, <1>3 DEF PackedBy
<1>6. PICK p, r : p = F[0] /\ r = F[1]
  OBVIOUS
<1>7. p.i = 0 /\ Len(p.t) = 0 /\ r = PackNext(table, p)
  BY <1>3, <1>5, <1>6
<1>8. table[p.i] = None /\ p.i # Cells
  BY <1>3, <1>7
<1>9. GapPacked(table, p, r)
  BY <1>4, <1>6, <1>7, <1>8, PackRound
<1>10. r.i \in 0 .. Cells /\ Len(r.t) = 0 + 2 /\ r.t[0 + 2] = r.i - 0 /\ (r.i = Cells \/ table[r.i] # None)
  BY <1>4, <1>6, <1>7, <1>9 DEF GapPacked, IsPacked
<1>11. r.i = Cells
  <2>1. SUFFICES ASSUME r.i # Cells PROVE FALSE
    OBVIOUS
  <2>2. r.i \in 0..(Cells - 1)
    BY <1>1, <1>10, <2>1
  <2>3. QED
    BY <1>10, <2>1, <2>2
<1>12. Len(r.t) = 2 /\ r.t[2] = Cells
  BY <1>1, <1>10, <1>11
<1>13. PICK t : t = Pack(table)
  OBVIOUS
<1>14. 2 \in 1 .. Len(t) /\ t[2] = Cells
  <2>1. Len(r.t) <= Len(t) /\ \A j \in 1 .. Len(r.t) : t[j] = r.t[j]
    BY <1>4, <1>6, <1>13 DEF FrontOf
  <2>2. Len(t) \in Nat
    BY <1>4, <1>13
  <2>3. QED
    BY <1>12, <2>1, <2>2
<1>15. 2 \in DOMAIN t /\ ~(t[2] < Cells)
  BY <1>1, <1>4, <1>13, <1>14
<1>16. QED
  BY <1>13, <1>15 DEF Packable

\* Packing and look-up are inverse on every table, and only the table without
\* an entry cannot be packed: generate_table() and lookup_scantable().
THEOREM PackingIsExactAlways == PackingIsExact
<1>1. ASSUME NEW table \in [0..(Cells - 1) -> Strings \cup {None}]
      PROVE  /\ \A n \in 0..(Cells - 1) : LookUp(Pack(table), n) = table[n]
             /\ Packable(table) <=> \E c \in 0..(Cells - 1) : table[c] # None
  <2>1. IsTable(table)
    BY DEF IsTable
  <2>2. \A n \in 0..(Cells - 1) : LookUp(Pack(table), n) = table[n]
    BY <2>1, PackedIsFound
  <2>3. ASSUME NEW c \in 0..(Cells - 1), table[c] # None PROVE Packable(table)
    BY <2>1, <2>3, BytesAreSmall
  <2>4. ASSUME \A c \in 0..(Cells - 1) : table[c] = None PROVE ~Packable(table)
    BY <2>1, <2>4, EmptyIsRefused
  <2>5. QED
    BY <2>2, <2>3, <2>4
<1>2. QED
  BY <1>1 DEF PackingIsExact

\* Adding 0x80 stays in the table.
LEMMA EscapedIsCell == ASSUME NEW c \in 0..(Cells - 1) PROVE Escaped(c) \in 0..(Cells - 1)
<1>1. Cells \in Nat /\ Cells % 2 = 0
  BY ScanAssumption
<1>2. PICK h \in Nat : h = Cells \div 2 /\ Cells = 2 * h
  BY <1>1
<1>3. QED
  BY <1>1, <1>2 DEF Escaped

\* What the kernel finds at a key, from the types of the tables.
LEMMA KeysFound == ASSUME ScanTypeOK PROVE KeysAreFound
<1>1. ASSUME NEW m \in Modifiers, NEW n \in 0..(Cells - 1), NEW e \in BOOLEAN
      PROVE  LookUpKey(Pack(tables[m]), n, e) = tables[m][IF e THEN Escaped(n) ELSE n]
  <2>1. IsTable(tables[m])
    BY DEF ScanTypeOK, IsTable
  <2>2. PICK k : k = IF e THEN Escaped(n) ELSE n
    OBVIOUS
  <2>3. k \in 0..(Cells - 1)
    BY <2>2, EscapedIsCell
  <2>4. LookUp(Pack(tables[m]), k) = tables[m][k]
    BY <2>1, <2>3, PackedIsFound
  <2>5. QED
    BY <2>2, <2>4 DEF LookUpKey
<1>2. QED
  BY <1>1 DEF KeysAreFound

-----------------------------------------------------------------------------
(***************************************************************************)
(* What the tables hold, of the tokens t that were read.                   *)
(***************************************************************************)

\* The parts of ScanTable's meaning of a file, for any tokens t.
OfIn(t, kind, L) == {i \in L : t[i][1] = kind}
Shifted(t, L, i) == \E j \in OfIn(t, "SHIFT", L) : j < i /\ OfIn(t, "STRING", L) \cap (j..(i - 1)) = {}
StringsIn(t, m, L) == {i \in OfIn(t, "STRING", L) : (m = "SHIFT") <=> Shifted(t, L, i)}
CodeIn(t, L) ==
  LET c == t[LastIn(OfIn(t, "SCANCODE", L))][2]
  IN IF OfIn(t, "ESC", L) = {} THEN c ELSE Escaped(c)
NewLines(t) == {i \in DOMAIN t : t[i][1] = "NEWLINE"}
BreaksIn(t) == {0, Len(t) + 1} \cup NewLines(t)
StartOf(t, b) == CHOOSE x \in BreaksIn(t) : x < b /\ \A y \in BreaksIn(t) : y < b => y <= x
LineIn(t, b) == (StartOf(t, b) + 1)..(b - 1)
Says(t, m, c, b) ==
  LET L == LineIn(t, b) IN OfIn(t, "SCANCODE", L) # {} /\ CodeIn(t, L) = c /\ StringsIn(t, m, L) # {}
EntryIn(t, m, b) == t[LastIn(StringsIn(t, m, LineIn(t, b)))][2]
Told(t, m, c, B) ==
  IF {b \in B : Says(t, m, c, b)} = {} THEN None ELSE EntryIn(t, m, LastIn({b \in B : Says(t, m, c, b)}))
MixedIn(t, b) ==
  LET L == LineIn(t, b) IN OfIn(t, "SCANCODE", L) # {} /\ OfIn(t, "STRING", L) # {} /\ OfIn(t, "FLAG", L) # {}

\* They are ScanTable's, for the tokens that were read.
LEMMA MeaningIs == ASSUME NEW m, NEW c PROVE Meaning(m, c) = Told(toks, m, c, BreaksIn(toks) \ {0})
<1>1. \A L : \A k : Of(k, L) = OfIn(toks, k, L)
  BY DEF Of, OfIn
<1>2. \A L : StringsFor(m, L) = StringsIn(toks, m, L)
  BY <1>1 DEF StringsFor, StringsIn, Shifted
<1>3. \A L : CodeOf(L) = CodeIn(toks, L) /\ (HasCode(L) <=> OfIn(toks, "SCANCODE", L) # {})
  BY <1>1 DEF CodeOf, CodeIn, HasCode
<1>4. Breaks = BreaksIn(toks)
  BY DEF Breaks, BreaksIn, NewLines
<1>5. \A b : Line(b) = LineIn(toks, b)
  BY <1>4 DEF Line, LineIn, StartOf
<1>6. \A b : Says(toks, m, c, b) <=> HasCode(Line(b)) /\ CodeOf(Line(b)) = c /\ StringsFor(m, Line(b)) # {}
  BY <1>2, <1>3, <1>5 DEF Says
<1>7. {b \in Breaks \ {0} : HasCode(Line(b)) /\ CodeOf(Line(b)) = c /\ StringsFor(m, Line(b)) # {}}
        = {b \in BreaksIn(toks) \ {0} : Says(toks, m, c, b)}
  BY <1>4, <1>6
<1>8. \A b : toks[LastIn(StringsFor(m, Line(b)))][2] = EntryIn(toks, m, b)
  BY <1>2, <1>5 DEF EntryIn
<1>9. QED
  BY <1>7, <1>8 DEF Meaning, Told

\* The last of a set of positions.
LEMMA LastIsLast ==
  ASSUME NEW n \in Nat, NEW S, S \subseteq 0 .. n, S # {} PROVE LastIn(S) \in S /\ \A y \in S : y <= LastIn(S)
<1>1. PICK R : R = {d \in Nat : d <= n /\ n - d \in S}
  OBVIOUS
<1>2. R \subseteq Nat /\ R # {}
  <2>1. PICK y \in S : TRUE
    OBVIOUS
  <2>2. n - y \in Nat /\ n - y <= n /\ n - (n - y) = y
    BY <2>1
  <2>3. n - y \in R
    BY <1>1, <2>1, <2>2
  <2>4. QED
    BY <1>1, <2>3
<1>3. PICK d : d \in R /\ \A e \in R : d <= e
  BY <1>2, MinIsLeast
<1>4. n - d \in S /\ d \in Nat /\ d <= n
  BY <1>1, <1>3
<1>5. ASSUME NEW y \in S PROVE y <= n - d
  <2>1. n - y \in Nat /\ n - y <= n /\ n - (n - y) = y /\ y \in Nat
    BY <1>5
  <2>2. n - y \in R
    BY <1>1, <1>5, <2>1
  <2>3. d <= n - y
    BY <1>3, <2>2
  <2>4. QED
    BY <1>4, <2>1, <2>3
<1>6. LastIn(S) \in {x \in S : \A y \in S : y <= x}
  BY <1>4, <1>5 DEF LastIn
<1>7. QED
  BY <1>6

\* The largest number of a set is its last.
LEMMA LastIs == ASSUME NEW S, S \subseteq Int, NEW x \in S, \A y \in S : y <= x PROVE LastIn(S) = x
<1>1. LastIn(S) \in {z \in S : \A y \in S : y <= z}
  BY DEF LastIn
<1>2. LastIn(S) \in S /\ LastIn(S) <= x /\ x <= LastIn(S)
  BY <1>1
<1>3. LastIn(S) \in Int /\ x \in Int
  BY <1>2
<1>4. QED
  BY <1>2, <1>3

\* The breaks between lines, and where the line that ends at b starts.
LEMMA BreaksAre ==
  ASSUME NEW t \in Seq(Tokens) PROVE BreaksIn(t) \subseteq 0 .. Len(t) + 1 /\ 0 \in BreaksIn(t) /\ Len(t) \in Nat
BY DEF BreaksIn, NewLines

\* The start of the line of b is the last break before b.
LEMMA StartIs ==
  ASSUME NEW t \in Seq(Tokens), NEW b \in 1 .. Len(t) + 1
  PROVE  /\ StartOf(t, b) \in BreaksIn(t) /\ StartOf(t, b) < b /\ StartOf(t, b) \in Nat
         /\ \A y \in BreaksIn(t) : y < b => y <= StartOf(t, b)
<1>1. BreaksIn(t) \subseteq 0 .. Len(t) + 1 /\ 0 \in BreaksIn(t) /\ Len(t) \in Nat
  BY BreaksAre
<1>2. PICK S : S = {x \in BreaksIn(t) : x < b}
  OBVIOUS
<1>3. S \subseteq 0 .. Len(t) + 1 /\ 0 \in S /\ Len(t) + 1 \in Nat
  BY <1>1, <1>2
<1>4. LastIn(S) \in S /\ \A y \in S : y <= LastIn(S)
  BY <1>3, LastIsLast
<1>5. LastIn(S) \in {x \in BreaksIn(t) : x < b /\ \A y \in BreaksIn(t) : y < b => y <= x}
  BY <1>2, <1>4
<1>6. StartOf(t, b) \in {x \in BreaksIn(t) : x < b /\ \A y \in BreaksIn(t) : y < b => y <= x}
  BY <1>5 DEF StartOf
<1>7. QED
  BY <1>1, <1>6

\* It is the only such break.
LEMMA StartOnly ==
  ASSUME NEW t \in Seq(Tokens), NEW b \in 1 .. Len(t) + 1, NEW x \in BreaksIn(t), x < b,
         \A y \in BreaksIn(t) : y < b => y <= x
  PROVE  StartOf(t, b) = x
<1>1. /\ StartOf(t, b) \in BreaksIn(t) /\ StartOf(t, b) < b /\ StartOf(t, b) \in Nat
      /\ \A y \in BreaksIn(t) : y < b => y <= StartOf(t, b)
  BY StartIs
<1>2. StartOf(t, b) <= x /\ x <= StartOf(t, b)
  BY <1>1
<1>3. x \in Nat
  BY BreaksAre
<1>4. QED
  BY <1>1, <1>2, <1>3

\* A line is before its end.
LEMMA LineIsBefore == ASSUME NEW t \in Seq(Tokens), NEW b \in 1 .. Len(t) + 1 PROVE LineIn(t, b) \subseteq 1 .. b - 1
<1>1. StartOf(t, b) \in Nat
  BY StartIs
<1>2. QED
  BY <1>1 DEF LineIn

\* One token more.
LEMMA OneMore ==
  ASSUME NEW t \in Seq(Tokens), NEW tok \in Tokens, NEW u, u = Append(t, tok)
  PROVE  /\ u \in Seq(Tokens) /\ Len(t) \in Nat /\ Len(u) = Len(t) + 1 /\ DOMAIN t = 1 .. Len(t)
         /\ DOMAIN u = 1 .. Len(t) + 1 /\ (\A i \in 1 .. Len(t) : u[i] = t[i]) /\ u[Len(t) + 1] = tok
OBVIOUS

\* The breaks up to the old end stay.
LEMMA BreaksStay ==
  ASSUME NEW t \in Seq(Tokens), NEW tok \in Tokens, NEW u, u = Append(t, tok)
  PROVE  /\ \A y \in 0 .. Len(t) : y \in BreaksIn(u) <=> y \in BreaksIn(t)
         /\ Len(t) + 2 \in BreaksIn(u) /\ (Len(t) + 1 \in BreaksIn(u) <=> tok[1] = "NEWLINE")
         /\ BreaksIn(t) \subseteq 0 .. Len(t) + 1 /\ BreaksIn(u) \subseteq 0 .. Len(t) + 2
         /\ NewLines(u) = IF tok[1] = "NEWLINE" THEN NewLines(t) \cup {Len(t) + 1} ELSE NewLines(t)
<1>1. PICK n \in Nat : n = Len(t)
  OBVIOUS
<1>2. /\ u \in Seq(Tokens) /\ Len(u) = n + 1 /\ DOMAIN t = 1 .. n
      /\ DOMAIN u = 1 .. n + 1 /\ (\A i \in 1 .. n : u[i] = t[i]) /\ u[n + 1] = tok
  BY <1>1, OneMore
<1>3. NewLines(t) \subseteq 1 .. n /\ NewLines(u) \subseteq 1 .. n + 1
  BY <1>2 DEF NewLines
<1>4. \A y \in 1 .. n : y \in NewLines(u) <=> y \in NewLines(t)
  BY <1>2 DEF NewLines
<1>5. n + 1 \in NewLines(u) <=> tok[1] = "NEWLINE"
  BY <1>2 DEF NewLines
<1>6. NewLines(u) = IF tok[1] = "NEWLINE" THEN NewLines(t) \cup {n + 1} ELSE NewLines(t)
  <2>1. \A y \in 1 .. n + 1 : y \in 1 .. n \/ y = n + 1
    OBVIOUS
  <2>2. n + 1 \notin NewLines(t)
    BY <1>3
  <2>3. PICK A, B : A = NewLines(u) /\ B = NewLines(t)
    OBVIOUS
  <2>4. \A y \in A : y \in B \/ y = n + 1
    BY <1>3, <1>4, <2>1, <2>3
  <2>5. B \subseteq A
    BY <1>3, <1>4, <2>3
  <2>6. CASE tok[1] = "NEWLINE"
    <3>1. n + 1 \in A
      BY <1>5, <2>3, <2>6
    <3>2. A = B \cup {n + 1}
      BY <2>4, <2>5, <3>1
    <3>3. QED
      BY <2>3, <2>6, <3>2
  <2>7. CASE tok[1] # "NEWLINE"
    <3>1. n + 1 \notin A
      BY <1>5, <2>3, <2>7
    <3>2. A = B
      BY <2>4, <2>5, <3>1
    <3>3. QED
      BY <2>3, <2>7, <3>2
  <2>8. QED
    BY <2>6, <2>7
<1>7. BreaksIn(t) = {0, n + 1} \cup NewLines(t) /\ BreaksIn(u) = {0, n + 2} \cup NewLines(u)
  BY <1>1, <1>2 DEF BreaksIn
<1>8. \A y \in 0 .. n : y \in BreaksIn(u) <=> y \in BreaksIn(t)
  <2>1. \A y \in 0 .. n : y # n + 1 /\ y # n + 2 /\ (y = 0 \/ y \in 1 .. n)
    OBVIOUS
  <2>2. QED
    BY <1>4, <1>7, <2>1
<1>9. n + 2 \in BreaksIn(u) /\ (n + 1 \in BreaksIn(u) <=> tok[1] = "NEWLINE")
  <2>1. n + 1 # 0 /\ n + 1 # n + 2
    OBVIOUS
  <2>2. QED
    BY <1>5, <1>7, <2>1
<1>10. BreaksIn(t) \subseteq 0 .. n + 1 /\ BreaksIn(u) \subseteq 0 .. n + 2
  BY <1>3, <1>7
<1>11. QED
  BY <1>1, <1>6, <1>8, <1>9, <1>10

\* The lines up to the old end stay, and what is on them.
LEMMA LinesStay ==
  ASSUME NEW t \in Seq(Tokens), NEW tok \in Tokens, NEW u, u = Append(t, tok), NEW b \in 1 .. Len(t) + 1
  PROVE  LineIn(u, b) = LineIn(t, b)
<1>1. PICK n \in Nat : n = Len(t)
  OBVIOUS
<1>2. u \in Seq(Tokens) /\ Len(u) = n + 1
  BY <1>1, OneMore
<1>3. /\ StartOf(t, b) \in BreaksIn(t) /\ StartOf(t, b) < b /\ StartOf(t, b) \in Nat
      /\ \A y \in BreaksIn(t) : y < b => y <= StartOf(t, b)
  BY StartIs
<1>4. /\ \A y \in 0 .. n : y \in BreaksIn(u) <=> y \in BreaksIn(t)
      /\ BreaksIn(u) \subseteq 0 .. n + 2
  BY <1>1, BreaksStay
<1>5. b \in 1 .. Len(u) + 1 /\ b \in 1 .. n + 1
  BY <1>1, <1>2
<1>6. StartOf(t, b) \in BreaksIn(u)
  BY <1>3, <1>4, <1>5
<1>7. ASSUME NEW y \in BreaksIn(u), y < b PROVE y <= StartOf(t, b)
  <2>1. y \in 0 .. n
    BY <1>4, <1>5, <1>7
  <2>2. QED
    BY <1>3, <1>4, <1>7, <2>1
<1>8. StartOf(u, b) = StartOf(t, b)
  BY <1>2, <1>3, <1>5, <1>6, <1>7, StartOnly
<1>9. QED
  BY <1>8 DEF LineIn

\* What is on a line does not change with a token behind it.
SameOn(t, u, L) ==
  /\ \A k : OfIn(u, k, L) = OfIn(t, k, L)
  /\ \A i : Shifted(u, L, i) <=> Shifted(t, L, i)
  /\ \A m : StringsIn(u, m, L) = StringsIn(t, m, L)
  /\ \A S : S \subseteq L /\ S # {} => u[LastIn(S)] = t[LastIn(S)] /\ LastIn(S) \in S
  /\ OfIn(t, "SCANCODE", L) # {} => CodeIn(u, L) = CodeIn(t, L)

\* A token more changes none of the tokens before it.
LEMMA TokensStay ==
  ASSUME NEW t \in Seq(Tokens), NEW tok \in Tokens, NEW u, u = Append(t, tok), NEW L, L \subseteq 1 .. Len(t)
  PROVE  SameOn(t, u, L)
<1>1. \A i \in L : u[i] = t[i]
  BY OneMore
<1>2. \A k : OfIn(u, k, L) = OfIn(t, k, L)
  BY <1>1 DEF OfIn
<1>3. \A i : Shifted(u, L, i) <=> Shifted(t, L, i)
  BY <1>2 DEF Shifted
<1>4. \A m : StringsIn(u, m, L) = StringsIn(t, m, L)
  BY <1>2, <1>3 DEF StringsIn
<1>5. ASSUME NEW S, S \subseteq L, S # {} PROVE u[LastIn(S)] = t[LastIn(S)] /\ LastIn(S) \in S
  <2>1. Len(t) \in Nat /\ S \subseteq 0 .. Len(t)
    BY <1>5
  <2>2. LastIn(S) \in S
    BY <1>5, <2>1, LastIsLast
  <2>3. QED
    BY <1>1, <1>5, <2>2
<1>6. OfIn(t, "SCANCODE", L) # {} => CodeIn(u, L) = CodeIn(t, L)
  <2>1. SUFFICES ASSUME OfIn(t, "SCANCODE", L) # {} PROVE CodeIn(u, L) = CodeIn(t, L)
    OBVIOUS
  <2>2. PICK S : S = OfIn(t, "SCANCODE", L)
    OBVIOUS
  <2>3. S \subseteq L /\ S # {} /\ OfIn(u, "SCANCODE", L) = S /\ OfIn(u, "ESC", L) = OfIn(t, "ESC", L)
    BY <1>2, <2>1, <2>2 DEF OfIn
  <2>4. u[LastIn(S)] = t[LastIn(S)]
    BY <1>5, <2>3
  <2>5. QED
    BY <2>2, <2>3, <2>4 DEF CodeIn
<1>7. QED
  BY <1>2, <1>3, <1>4, <1>5, <1>6 DEF SameOn

\* A token more changes nothing of what a line before it says.
LEMMA SayingsStay ==
  ASSUME NEW t \in Seq(Tokens), NEW tok \in Tokens, NEW u, u = Append(t, tok), NEW b \in 1 .. Len(t) + 1
  PROVE  /\ \A m, c : Says(u, m, c, b) <=> Says(t, m, c, b)
         /\ \A m, c : Says(t, m, c, b) => EntryIn(u, m, b) = EntryIn(t, m, b)
         /\ MixedIn(u, b) <=> MixedIn(t, b)
<1>1. PICK L : L = LineIn(t, b)
  OBVIOUS
<1>2. LineIn(u, b) = L
  BY <1>1, LinesStay
<1>3. L \subseteq 1 .. Len(t)
  <2>1. L \subseteq 1 .. b - 1 /\ Len(t) \in Nat
    BY <1>1, LineIsBefore
  <2>2. QED
    BY <2>1
<1>4. /\ \A k : OfIn(u, k, L) = OfIn(t, k, L)
      /\ \A i : Shifted(u, L, i) <=> Shifted(t, L, i)
      /\ \A m : StringsIn(u, m, L) = StringsIn(t, m, L)
      /\ \A S : S \subseteq L /\ S # {} => u[LastIn(S)] = t[LastIn(S)] /\ LastIn(S) \in S
      /\ OfIn(t, "SCANCODE", L) # {} => CodeIn(u, L) = CodeIn(t, L)
  <2>1. SameOn(t, u, L)
    BY <1>3, TokensStay
  <2>2. QED
    BY <2>1 DEF SameOn
<1>5. MixedIn(u, b) <=> MixedIn(t, b)
  BY <1>1, <1>2, <1>4 DEF MixedIn
<1>6. \A m, c : Says(u, m, c, b) <=> Says(t, m, c, b)
  BY <1>1, <1>2, <1>4 DEF Says
<1>7. ASSUME NEW m, NEW c, Says(t, m, c, b) PROVE EntryIn(u, m, b) = EntryIn(t, m, b)
  <2>1. PICK S : S = StringsIn(t, m, L)
    OBVIOUS
  <2>2. S # {} /\ S \subseteq L
    BY <1>1, <1>7, <2>1 DEF Says, StringsIn, OfIn
  <2>3. u[LastIn(S)] = t[LastIn(S)]
    BY <1>4, <2>2
  <2>4. StringsIn(u, m, LineIn(u, b)) = S
    BY <1>2, <1>4, <2>1
  <2>5. QED
    BY <1>1, <2>1, <2>3, <2>4 DEF EntryIn
<1>8. QED
  BY <1>5, <1>6, <1>7
ToldSame(t, u, m, c, B) == Told(u, m, c, B) = Told(t, m, c, B)

\* Nor what the lines up to it have told.
LEMMA ToldStays ==
  ASSUME NEW t \in Seq(Tokens), NEW tok \in Tokens, NEW u, u = Append(t, tok), NEW B, B \subseteq 1 .. Len(t) + 1,
         NEW m, NEW c
  PROVE  ToldSame(t, u, m, c, B)
<1>1. PICK S : S = {b \in B : Says(t, m, c, b)}
  OBVIOUS
<1>2. {b \in B : Says(u, m, c, b)} = S
  BY <1>1, SayingsStay
<1>3. CASE S = {}
  BY <1>1, <1>2, <1>3 DEF Told, ToldSame
<1>4. CASE S # {}
  <2>1. Len(t) + 1 \in Nat /\ S \subseteq 0 .. Len(t) + 1
    <3>1. PICK n \in Nat : n = Len(t) + 1
      OBVIOUS
    <3>2. B \subseteq 1 .. n
      BY <3>1
    <3>3. S \subseteq 0 .. n
      <4>1. S \subseteq B
        BY <1>1
      <4>2. QED
        BY <3>2, <4>1
    <3>4. QED
      BY <3>1, <3>3
  <2>2. LastIn(S) \in S
    BY <1>4, <2>1, LastIsLast
  <2>3. PICK b : b = LastIn(S) /\ b \in 1 .. Len(t) + 1 /\ Says(t, m, c, b)
    BY <1>1, <2>2
  <2>4. EntryIn(u, m, b) = EntryIn(t, m, b)
    BY <2>3, SayingsStay
  <2>5. QED
    BY <1>1, <1>2, <1>4, <2>3, <2>4 DEF Told, ToldSame
<1>5. QED
  BY <1>3, <1>4

\* One line more: what it says goes before what the lines above it say.
ToldAlso(t, m, c, b, B, D) == Told(t, m, c, D) = IF Says(t, m, c, b) THEN EntryIn(t, m, b) ELSE Told(t, m, c, B)

\* One line more tells what it says, and else what was told before.
LEMMA ToldMore ==
  ASSUME NEW t, NEW m, NEW c, NEW b \in Nat, NEW B, B \subseteq Nat, \A y \in B : y < b, NEW D, D = B \cup {b}
  PROVE  ToldAlso(t, m, c, b, B, D)
<1>1. PICK S, R : S = {y \in B : Says(t, m, c, y)} /\ R = {y \in D : Says(t, m, c, y)}
  OBVIOUS
<1>2. CASE Says(t, m, c, b)
  <2>1. b \in R /\ R \subseteq Int /\ R # {}
    <3>1. b \in R
      BY <1>1, <1>2
    <3>2. R \subseteq Int
      <4>1. R \subseteq D
        BY <1>1
      <4>2. D \subseteq Int
        OBVIOUS
      <4>3. QED
        BY <4>1, <4>2
    <3>3. QED
      BY <3>1, <3>2
  <2>2. \A y \in R : y <= b
    BY <1>1
  <2>3. LastIn(R) = b
    BY <2>1, <2>2, LastIs
  <2>4. QED
    BY <1>1, <1>2, <2>1, <2>3 DEF Told, ToldAlso
<1>3. CASE ~Says(t, m, c, b)
  <2>1. R = S
    BY <1>1, <1>3
  <2>2. QED
    BY <1>1, <1>3, <2>1 DEF Told, ToldAlso
<1>4. QED
  BY <1>2, <1>3

-----------------------------------------------------------------------------
(***************************************************************************)
(* The line that is being read.                                            *)
(***************************************************************************)

\* class State has these fields.
IsLine(l) ==
  l = [scancode |-> l.scancode, entries |-> l.entries, flags |-> l.flags, modifier |-> l.modifier, escape |-> l.escape]

\* What the tokens at L, the last before n + 1, have made of a line.
LineMeans(t, L, n, l) ==
  /\ l.scancode = IF OfIn(t, "SCANCODE", L) = {} THEN NoCode ELSE t[LastIn(OfIn(t, "SCANCODE", L))][2]
  /\ l.escape = (OfIn(t, "ESC", L) # {})
  /\ l.flags = {t[i][2] : i \in OfIn(t, "FLAG", L)}
  /\ l.modifier = IF Shifted(t, L, n + 1) THEN "SHIFT" ELSE "default"
  /\ DOMAIN l.entries = {m \in Modifiers : StringsIn(t, m, L) # {}}
  /\ \A m \in DOMAIN l.entries : l.entries[m] = t[LastIn(StringsIn(t, m, L))][2]

\* The types of a line.
LineTypes(l) ==
  /\ IsLine(l) /\ l.scancode \in Codes \cup {NoCode} /\ l.flags \subseteq Flags /\ IsFiniteSet(l.flags)
  /\ l.modifier \in Modifiers /\ l.escape \in BOOLEAN
  /\ DOMAIN l.entries \subseteq Modifiers /\ \A m \in DOMAIN l.entries : l.entries[m] \in Strings

\* The tokens, by their kinds.
LEMMA TokenKinds ==
  ASSUME NEW tok \in Tokens
  PROVE  \/ tok[1] = "SCANCODE" /\ tok[2] \in Codes
         \/ tok[1] = "STRING" /\ tok[2] \in Strings \cup {None} /\ tok = << "STRING", tok[2] >>
         \/ tok[1] = "FLAG" /\ tok[2] \in Flags
         \/ tok[1] = "SHIFT" \/ tok[1] = "ESC" \/ tok[1] = "NEWLINE" \/ tok[1] = "ALT"
<1>1. CASE \E c \in Codes : tok = << "SCANCODE", c >>
  BY <1>1
<1>2. CASE \E s \in Strings \cup {None} : tok = << "STRING", s >>
  BY <1>2
<1>3. CASE \E f \in Flags : tok = << "FLAG", f >>
  BY <1>3
<1>4. CASE tok = << "SHIFT" >> \/ tok = << "ESC" >> \/ tok = << "NEWLINE" >> \/ tok = << "ALT" >>
  BY <1>4
<1>5. QED
  BY <1>1, <1>2, <1>3, <1>4 DEF Tokens

\* What one token more changes in what is on the line.
GrownOn(t, tok, u, L, D) ==
  /\ \A k : k # tok[1] => OfIn(u, k, D) = OfIn(t, k, L)
  /\ \A k : k = tok[1] => OfIn(u, k, D) = OfIn(t, k, L) \cup {Len(t) + 1}
  /\ \A k : OfIn(t, k, L) \subseteq 1 .. Len(t)
  /\ u[Len(t) + 1] = tok /\ \A i \in 1 .. Len(t) : u[i] = t[i]

\* What a token more adds to the sets of tokens of its line.
LEMMA OneMoreOnLine ==
  ASSUME NEW t \in Seq(Tokens), NEW tok \in Tokens, NEW u, u = Append(t, tok), NEW L, L \subseteq 1 .. Len(t),
         NEW D, D = L \cup {Len(t) + 1}
  PROVE  GrownOn(t, tok, u, L, D)
<1>1. PICK n \in Nat : n = Len(t)
  OBVIOUS
<1>2. u[n + 1] = tok /\ \A i \in 1 .. n : u[i] = t[i]
  BY <1>1, OneMore
<1>3. n + 1 \notin L /\ D = L \cup {n + 1} /\ L \subseteq 1 .. n
  BY <1>1
<1>4. ASSUME NEW k PROVE OfIn(u, k, D) = {i \in L : t[i][1] = k} \cup {i \in {n + 1} : tok[1] = k}
  BY <1>2, <1>3 DEF OfIn
<1>5. ASSUME NEW k, k # tok[1] PROVE OfIn(u, k, D) = OfIn(t, k, L)
  <2>1. {i \in {n + 1} : tok[1] = k} = {}
    BY <1>5
  <2>2. OfIn(u, k, D) = {i \in L : t[i][1] = k}
    BY <1>4, <2>1
  <2>3. QED
    BY <2>2 DEF OfIn
<1>6. ASSUME NEW k, k = tok[1] PROVE OfIn(u, k, D) = OfIn(t, k, L) \cup {n + 1}
  <2>1. {i \in {n + 1} : tok[1] = k} = {n + 1}
    BY <1>6
  <2>2. OfIn(u, k, D) = {i \in L : t[i][1] = k} \cup {n + 1}
    BY <1>4, <2>1
  <2>3. QED
    BY <2>2 DEF OfIn
<1>7. \A k : OfIn(t, k, L) \subseteq 1 .. n
  BY <1>3 DEF OfIn
<1>8. QED
  BY <1>1, <1>2, <1>5, <1>6, <1>7 DEF GrownOn

\* A token more behind the tokens at L of t.
TokenMore(t, tok, u, L, D) ==
  /\ t \in Seq(Tokens) /\ tok \in Tokens /\ u = Append(t, tok) /\ L \subseteq 1 .. Len(t) /\ D = L \cup {Len(t) + 1}

\* Whether a string is shifted depends on the tokens before it, and on what
\* the new token is for those behind it.
LEMMA ShiftedGrows ==
  ASSUME NEW t, NEW tok, NEW u, NEW L, NEW D, TokenMore(t, tok, u, L, D), NEW n \in Nat, n = Len(t)
  PROVE  /\ \A i \in 1 .. n + 1 : Shifted(u, D, i) <=> Shifted(t, L, i)
         /\ tok[1] = "SHIFT" => Shifted(u, D, n + 2)
         /\ tok[1] = "STRING" => ~Shifted(u, D, n + 2)
         /\ tok[1] \notin {"SHIFT", "STRING"} => (Shifted(u, D, n + 2) <=> Shifted(t, L, n + 1))
<1>1. /\ \A k : k # tok[1] => OfIn(u, k, D) = OfIn(t, k, L)
      /\ \A k : k = tok[1] => OfIn(u, k, D) = OfIn(t, k, L) \cup {n + 1}
      /\ \A k : OfIn(t, k, L) \subseteq 1 .. n
  <2>1. GrownOn(t, tok, u, L, D)
    BY OneMoreOnLine DEF TokenMore
  <2>2. QED
    BY <2>1 DEF GrownOn
<1>2. PICK A, B, X, Y : /\ A = OfIn(t, "SHIFT", L) /\ B = OfIn(u, "SHIFT", D)
                        /\ X = OfIn(t, "STRING", L) /\ Y = OfIn(u, "STRING", D)
  OBVIOUS
<1>3. /\ A \subseteq 1 .. n /\ X \subseteq 1 .. n
      /\ B = IF tok[1] = "SHIFT" THEN A \cup {n + 1} ELSE A
      /\ Y = IF tok[1] = "STRING" THEN X \cup {n + 1} ELSE X
  BY <1>1, <1>2
<1>4. \A i : /\ Shifted(t, L, i) <=> \E j \in A : j < i /\ X \cap (j..(i - 1)) = {}
             /\ Shifted(u, D, i) <=> \E j \in B : j < i /\ Y \cap (j..(i - 1)) = {}
  BY <1>2 DEF Shifted
<1>5. ASSUME NEW i \in 1 .. n + 1 PROVE Shifted(u, D, i) <=> Shifted(t, L, i)
  <2>1. ASSUME NEW j PROVE j \in B /\ j < i <=> j \in A /\ j < i
    <3>1. CASE tok[1] = "SHIFT"
      <4>1. B = A \cup {n + 1}
        BY <1>3, <3>1
      <4>2. j = n + 1 => ~(j < i)
        OBVIOUS
      <4>3. QED
        BY <4>1, <4>2
    <3>2. CASE tok[1] # "SHIFT"
      BY <1>3, <3>2
    <3>3. QED
      BY <3>1, <3>2
  <2>2. ASSUME NEW j \in A, j < i PROVE Y \cap (j..(i - 1)) = X \cap (j..(i - 1))
    <3>1. n + 1 \notin j..(i - 1)
      BY <1>3
    <3>2. CASE tok[1] = "STRING"
      <4>1. Y = X \cup {n + 1}
        BY <1>3, <3>2
      <4>2. QED
        BY <3>1, <4>1
    <3>3. CASE tok[1] # "STRING"
      BY <1>3, <3>3
    <3>4. QED
      BY <3>2, <3>3
  <2>3. QED
    BY <1>4, <2>1, <2>2
<1>6. ASSUME tok[1] = "SHIFT" PROVE Shifted(u, D, n + 2)
  <2>1. n + 1 \in B /\ Y = X /\ n + 1 < n + 2 /\ n + 2 - 1 = n + 1
    BY <1>3, <1>6
  <2>2. X \cap ((n + 1)..(n + 1)) = {}
    BY <1>3
  <2>3. QED
    BY <1>4, <2>1, <2>2
<1>7. ASSUME tok[1] = "STRING" PROVE ~Shifted(u, D, n + 2)
  <2>1. n + 1 \in Y /\ B = A /\ n + 2 - 1 = n + 1
    BY <1>3, <1>7
  <2>2. \A j \in A : n + 1 \in j..(n + 1)
    BY <1>3
  <2>3. QED
    BY <1>4, <2>1, <2>2
<1>8. ASSUME tok[1] \notin {"SHIFT", "STRING"} PROVE Shifted(u, D, n + 2) <=> Shifted(t, L, n + 1)
  <2>1. B = A /\ Y = X /\ n + 2 - 1 = n + 1 /\ n + 1 - 1 = n
    BY <1>3, <1>8
  <2>2. ASSUME NEW j \in A PROVE X \cap (j..(n + 1)) = X \cap (j..n) /\ j < n + 2 /\ j < n + 1
    <3>1. n + 1 \notin X /\ j \in 1 .. n
      BY <1>3
    <3>2. \A y : y \in j..(n + 1) <=> y \in j..n \/ y = n + 1
      BY <3>1
    <3>3. QED
      BY <3>1, <3>2
  <2>3. QED
    BY <1>4, <2>1, <2>2
<1>9. QED
  BY <1>5, <1>6, <1>7, <1>8

\* The strings of a modifier.
LEMMA StringsGrow ==
  ASSUME NEW t, NEW tok, NEW u, NEW L, NEW D, TokenMore(t, tok, u, L, D), NEW n \in Nat, n = Len(t), NEW m
  PROVE  /\ tok[1] # "STRING" => StringsIn(u, m, D) = StringsIn(t, m, L)
         /\ tok[1] = "STRING" /\ ((m = "SHIFT") <=> Shifted(t, L, n + 1))
              => StringsIn(u, m, D) = StringsIn(t, m, L) \cup {n + 1}
         /\ tok[1] = "STRING" /\ ~((m = "SHIFT") <=> Shifted(t, L, n + 1))
              => StringsIn(u, m, D) = StringsIn(t, m, L)
         /\ StringsIn(t, m, L) \subseteq 1 .. n
<1>1. \A i \in 1 .. n + 1 : Shifted(u, D, i) <=> Shifted(t, L, i)
  BY ShiftedGrows
<1>2. /\ "STRING" # tok[1] => OfIn(u, "STRING", D) = OfIn(t, "STRING", L)
      /\ "STRING" = tok[1] => OfIn(u, "STRING", D) = OfIn(t, "STRING", L) \cup {n + 1}
      /\ OfIn(t, "STRING", L) \subseteq 1 .. n
  <2>1. GrownOn(t, tok, u, L, D)
    BY OneMoreOnLine DEF TokenMore
  <2>2. QED
    BY <2>1 DEF GrownOn
<1>3. PICK X, Y : X = OfIn(t, "STRING", L) /\ Y = OfIn(u, "STRING", D)
  OBVIOUS
<1>4. /\ StringsIn(t, m, L) = {i \in X : (m = "SHIFT") <=> Shifted(t, L, i)}
      /\ StringsIn(u, m, D) = {i \in Y : (m = "SHIFT") <=> Shifted(u, D, i)}
  BY <1>3 DEF StringsIn
<1>5. X \subseteq 1 .. n + 1
  BY <1>2, <1>3
<1>6. {i \in X : (m = "SHIFT") <=> Shifted(u, D, i)} = StringsIn(t, m, L)
  BY <1>1, <1>4, <1>5
<1>7. CASE tok[1] # "STRING"
  BY <1>2, <1>3, <1>4, <1>6, <1>7
<1>8. CASE tok[1] = "STRING"
  <2>1. Y = X \cup {n + 1} /\ (Shifted(u, D, n + 1) <=> Shifted(t, L, n + 1))
    BY <1>1, <1>2, <1>3, <1>8
  <2>2. StringsIn(u, m, D) = StringsIn(t, m, L) \cup {i \in {n + 1} : (m = "SHIFT") <=> Shifted(u, D, i)}
    BY <1>4, <1>6, <2>1
  <2>3. ASSUME (m = "SHIFT") <=> Shifted(t, L, n + 1) PROVE StringsIn(u, m, D) = StringsIn(t, m, L) \cup {n + 1}
    BY <2>1, <2>2, <2>3
  <2>4. ASSUME ~((m = "SHIFT") <=> Shifted(t, L, n + 1)) PROVE StringsIn(u, m, D) = StringsIn(t, m, L)
    BY <2>1, <2>2, <2>4
  <2>5. StringsIn(t, m, L) \subseteq 1 .. n
    BY <1>2, <1>3, <1>4
  <2>6. QED
    BY <1>8, <2>3, <2>4, <2>5
<1>9. StringsIn(t, m, L) \subseteq 1 .. n
  BY <1>2, <1>3, <1>4
<1>10. QED
  BY <1>7, <1>8, <1>9

\* The parts of a line, one by one.
CodeMeans(t, L, l) == l.scancode = IF OfIn(t, "SCANCODE", L) = {} THEN NoCode ELSE t[LastIn(OfIn(t, "SCANCODE", L))][2]
EscapeMeans(t, L, l) == l.escape = (OfIn(t, "ESC", L) # {})
FlagsMean(t, L, l) == l.flags = {t[i][2] : i \in OfIn(t, "FLAG", L)}
ModifierMeans(t, L, n, l) == l.modifier = IF Shifted(t, L, n + 1) THEN "SHIFT" ELSE "default"
EntriesMean(t, L, l) ==
  /\ DOMAIN l.entries = {m \in Modifiers : StringsIn(t, m, L) # {}}
  /\ \A m \in DOMAIN l.entries : l.entries[m] = t[LastIn(StringsIn(t, m, L))][2]

\* The meaning of a line, part by part.
LEMMA LineParts ==
  ASSUME NEW t, NEW L, NEW n, NEW l
  PROVE  LineMeans(t, L, n, l) <=> /\ CodeMeans(t, L, l) /\ EscapeMeans(t, L, l) /\ FlagsMean(t, L, l)
                                   /\ ModifierMeans(t, L, n, l) /\ EntriesMean(t, L, l)
BY DEF LineMeans, CodeMeans, EscapeMeans, FlagsMean, ModifierMeans, EntriesMean

\* A token of another kind leaves a part of the line as it is.
LEMMA PartsStay ==
  ASSUME NEW t, NEW tok, NEW u, NEW L, NEW D, TokenMore(t, tok, u, L, D), NEW n \in Nat, n = Len(t),
         NEW l, NEW r, LineMeans(t, L, n, l)
  PROVE  /\ tok[1] # "SCANCODE" /\ r.scancode = l.scancode => CodeMeans(u, D, r)
         /\ tok[1] # "ESC" /\ r.escape = l.escape => EscapeMeans(u, D, r)
         /\ tok[1] # "FLAG" /\ r.flags = l.flags => FlagsMean(u, D, r)
         /\ tok[1] \notin {"SHIFT", "STRING"} /\ r.modifier = l.modifier => ModifierMeans(u, D, n + 1, r)
         /\ tok[1] # "STRING" /\ r.entries = l.entries => EntriesMean(u, D, r)
<1>1. /\ CodeMeans(t, L, l) /\ EscapeMeans(t, L, l) /\ FlagsMean(t, L, l)
      /\ ModifierMeans(t, L, n, l) /\ EntriesMean(t, L, l)
  BY LineParts
<1>2. /\ \A k : k # tok[1] => OfIn(u, k, D) = OfIn(t, k, L)
      /\ \A k : OfIn(t, k, L) \subseteq 1 .. n /\ \A i \in 1 .. n : u[i] = t[i]
  <2>1. GrownOn(t, tok, u, L, D)
    BY OneMoreOnLine DEF TokenMore
  <2>2. QED
    BY <2>1 DEF GrownOn
<1>3. ASSUME NEW S, S \subseteq 1 .. n, S # {} PROVE u[LastIn(S)] = t[LastIn(S)]
  <2>1. S \subseteq 0 .. n
    BY <1>3
  <2>2. LastIn(S) \in S
    BY <1>3, <2>1, LastIsLast
  <2>3. QED
    BY <1>2, <1>3, <2>2
<1>4. ASSUME tok[1] # "SCANCODE", r.scancode = l.scancode PROVE CodeMeans(u, D, r)
  <2>1. PICK S : S = OfIn(t, "SCANCODE", L)
    OBVIOUS
  <2>2. OfIn(u, "SCANCODE", D) = S /\ (S # {} => u[LastIn(S)] = t[LastIn(S)])
    BY <1>2, <1>3, <1>4, <2>1
  <2>3. l.scancode = IF S = {} THEN NoCode ELSE t[LastIn(S)][2]
    BY <1>1, <2>1 DEF CodeMeans
  <2>4. QED
    BY <1>4, <2>2, <2>3 DEF CodeMeans
<1>5. ASSUME tok[1] # "ESC", r.escape = l.escape PROVE EscapeMeans(u, D, r)
  BY <1>1, <1>2, <1>5 DEF EscapeMeans
<1>6. ASSUME tok[1] # "FLAG", r.flags = l.flags PROVE FlagsMean(u, D, r)
  <2>1. PICK S : S = OfIn(t, "FLAG", L)
    OBVIOUS
  <2>2. OfIn(u, "FLAG", D) = S /\ \A i \in S : u[i][2] = t[i][2]
    BY <1>2, <1>6, <2>1
  <2>3. {u[i][2] : i \in S} = {t[i][2] : i \in S}
    BY <2>2
  <2>4. QED
    BY <1>1, <1>6, <2>1, <2>2, <2>3 DEF FlagsMean
<1>7. ASSUME tok[1] \notin {"SHIFT", "STRING"}, r.modifier = l.modifier PROVE ModifierMeans(u, D, n + 1, r)
  <2>1. Shifted(u, D, n + 2) <=> Shifted(t, L, n + 1)
    BY <1>7, ShiftedGrows
  <2>2. n + 1 + 1 = n + 2
    OBVIOUS
  <2>3. QED
    BY <1>1, <1>7, <2>1, <2>2 DEF ModifierMeans
<1>8. ASSUME tok[1] # "STRING", r.entries = l.entries PROVE EntriesMean(u, D, r)
  <2>1. \A m : StringsIn(u, m, D) = StringsIn(t, m, L) /\ StringsIn(t, m, L) \subseteq 1 .. n
    BY <1>8, StringsGrow
  <2>2. \A m : StringsIn(t, m, L) # {} => u[LastIn(StringsIn(t, m, L))] = t[LastIn(StringsIn(t, m, L))]
    BY <1>3, <2>1
  <2>3. QED
    BY <1>1, <1>8, <2>1, <2>2 DEF EntriesMean
<1>9. QED
  BY <1>4, <1>5, <1>6, <1>7, <1>8

\* A token of its own kind changes a part of the line.
LEMMA CodeGrows ==
  ASSUME NEW t, NEW tok, NEW u, NEW L, NEW D, TokenMore(t, tok, u, L, D), NEW r,
         tok[1] = "SCANCODE", r.scancode = tok[2]
  PROVE  CodeMeans(u, D, r)
<1>1. PICK n : n = Len(t) /\ n \in Nat
  BY DEF TokenMore
<1>2. PICK S : S = OfIn(t, "SCANCODE", L)
  OBVIOUS
<1>3. OfIn(u, "SCANCODE", D) = S \cup {n + 1} /\ S \subseteq 1 .. n /\ u[n + 1] = tok
  <2>1. GrownOn(t, tok, u, L, D)
    BY OneMoreOnLine DEF TokenMore
  <2>2. QED
    BY <1>1, <1>2, <2>1 DEF GrownOn
<1>4. PICK R : R = S \cup {n + 1}
  OBVIOUS
<1>5. R \subseteq Int /\ n + 1 \in R /\ (\A y \in R : y <= n + 1) /\ R # {}
  <2>1. n \in Nat /\ \A y \in R : y \in 1 .. n \/ y = n + 1
    BY <1>1, <1>3, <1>4
  <2>2. \A y \in R : y \in Int /\ y <= n + 1
    BY <2>1
  <2>3. n + 1 \in R
    BY <1>4
  <2>4. QED
    BY <2>2, <2>3
<1>6. LastIn(R) = n + 1
  BY <1>5, LastIs
<1>7. OfIn(u, "SCANCODE", D) = R
  BY <1>3, <1>4
<1>8. QED
  BY <1>3, <1>5, <1>6, <1>7 DEF CodeMeans

\* ESC is taken into the line.
LEMMA EscapeGrows ==
  ASSUME NEW t, NEW tok, NEW u, NEW L, NEW D, TokenMore(t, tok, u, L, D), NEW r,
         tok[1] = "ESC", r.escape = TRUE
  PROVE  EscapeMeans(u, D, r)
<1>1. OfIn(u, "ESC", D) = OfIn(t, "ESC", L) \cup {Len(t) + 1}
  <2>1. GrownOn(t, tok, u, L, D)
    BY OneMoreOnLine DEF TokenMore
  <2>2. QED
    BY <2>1 DEF GrownOn
<1>2. OfIn(u, "ESC", D) # {}
  BY <1>1
<1>3. QED
  BY <1>2 DEF EscapeMeans

\* A flag is taken into the line.
LEMMA FlagsGrow ==
  ASSUME NEW t, NEW tok, NEW u, NEW L, NEW D, TokenMore(t, tok, u, L, D), NEW l, FlagsMean(t, L, l), NEW r,
         tok[1] = "FLAG", r.flags = l.flags \cup {tok[2]}
  PROVE  FlagsMean(u, D, r)
<1>1. PICK n : n = Len(t) /\ n \in Nat
  BY DEF TokenMore
<1>2. PICK S : S = OfIn(t, "FLAG", L)
  OBVIOUS
<1>3. /\ OfIn(u, "FLAG", D) = S \cup {n + 1} /\ S \subseteq 1 .. n /\ u[n + 1] = tok
      /\ \A i \in 1 .. n : u[i] = t[i]
  <2>1. GrownOn(t, tok, u, L, D)
    BY OneMoreOnLine DEF TokenMore
  <2>2. QED
    BY <1>1, <1>2, <2>1 DEF GrownOn
<1>4. l.flags = {t[i][2] : i \in S}
  BY <1>2 DEF FlagsMean
<1>5. {u[i][2] : i \in S} = {t[i][2] : i \in S}
  <2>1. \A i \in S : u[i][2] = t[i][2]
    BY <1>3
  <2>2. QED
    BY <2>1
<1>6. {u[i][2] : i \in S \cup {n + 1}} = {u[i][2] : i \in S} \cup {u[n + 1][2]}
  OBVIOUS
<1>7. QED
  BY <1>3, <1>4, <1>5, <1>6 DEF FlagsMean

\* SHIFT holds for the next string only.
LEMMA ModifierGrows ==
  ASSUME NEW t, NEW tok, NEW u, NEW L, NEW D, TokenMore(t, tok, u, L, D), NEW n \in Nat, n = Len(t), NEW r,
         \/ tok[1] = "SHIFT" /\ r.modifier = "SHIFT"
         \/ tok[1] = "STRING" /\ r.modifier = "default"
  PROVE  ModifierMeans(u, D, n + 1, r)
<1>1. /\ tok[1] = "SHIFT" => Shifted(u, D, n + 2)
      /\ tok[1] = "STRING" => ~Shifted(u, D, n + 2)
  BY ShiftedGrows
<1>2. n + 1 + 1 = n + 2
  OBVIOUS
<1>3. QED
  BY <1>1, <1>2 DEF ModifierMeans

\* A string is taken under the modifier that holds.
LEMMA EntriesGrow ==
  ASSUME NEW t, NEW tok, NEW u, NEW L, NEW D, TokenMore(t, tok, u, L, D), NEW n \in Nat, n = Len(t),
         NEW l, NEW r, EntriesMean(t, L, l), ModifierMeans(t, L, n, l), tok[1] = "STRING",
         r.entries = [m \in DOMAIN l.entries \cup {l.modifier} |-> IF m = l.modifier THEN tok[2] ELSE l.entries[m]]
  PROVE  EntriesMean(u, D, r)
<1>1. PICK e, f, mo : e = l.entries /\ f = r.entries /\ mo = l.modifier
  OBVIOUS
<1>2. /\ DOMAIN e = {m \in Modifiers : StringsIn(t, m, L) # {}}
      /\ \A m \in DOMAIN e : e[m] = t[LastIn(StringsIn(t, m, L))][2]
  BY <1>1 DEF EntriesMean
<1>3. DOMAIN f = DOMAIN e \cup {mo} /\ \A m \in DOMAIN f : f[m] = IF m = mo THEN tok[2] ELSE e[m]
  BY <1>1
<1>4. mo = IF Shifted(t, L, n + 1) THEN "SHIFT" ELSE "default"
  BY <1>1 DEF ModifierMeans
<1>5. mo \in Modifiers /\ \A m \in Modifiers : m = mo <=> ((m = "SHIFT") <=> Shifted(t, L, n + 1))
  BY <1>4 DEF Modifiers
<1>6. ASSUME NEW m \in Modifiers, m # mo PROVE StringsIn(u, m, D) = StringsIn(t, m, L)
  <2>1. ~((m = "SHIFT") <=> Shifted(t, L, n + 1))
    BY <1>5, <1>6
  <2>2. QED
    BY <2>1, StringsGrow
<1>7. StringsIn(u, mo, D) = StringsIn(t, mo, L) \cup {n + 1} /\ StringsIn(t, mo, L) \subseteq 1 .. n
  <2>1. (mo = "SHIFT") <=> Shifted(t, L, n + 1)
    BY <1>5
  <2>2. QED
    BY <2>1, StringsGrow
<1>8. u[n + 1] = tok /\ \A i \in 1 .. n : u[i] = t[i]
  <2>1. GrownOn(t, tok, u, L, D)
    BY OneMoreOnLine DEF TokenMore
  <2>2. QED
    BY <2>1 DEF GrownOn
<1>9. DOMAIN f = {m \in Modifiers : StringsIn(u, m, D) # {}}
  <2>1. StringsIn(u, mo, D) # {}
    BY <1>7
  <2>2. \A m \in Modifiers : m # mo => (StringsIn(u, m, D) # {} <=> StringsIn(t, m, L) # {})
    BY <1>6
  <2>3. \A m \in Modifiers : StringsIn(u, m, D) # {} <=> (m = mo \/ StringsIn(t, m, L) # {})
    BY <2>1, <2>2
  <2>4. QED
    BY <1>2, <1>3, <1>5, <2>3
<1>10. ASSUME NEW m \in DOMAIN f PROVE f[m] = u[LastIn(StringsIn(u, m, D))][2]
  <2>1. m \in Modifiers
    BY <1>9
  <2>2. CASE m = mo
    <3>1. PICK R : R = StringsIn(u, mo, D)
      OBVIOUS
    <3>2. R \subseteq Int /\ n + 1 \in R /\ \A y \in R : y <= n + 1
      BY <1>7, <3>1
    <3>3. LastIn(R) = n + 1
      BY <3>2, LastIs
    <3>4. QED
      BY <1>3, <1>8, <2>2, <3>1, <3>3
  <2>3. CASE m # mo
    <3>1. PICK R : R = StringsIn(t, m, L)
      OBVIOUS
    <3>2. m \in DOMAIN e /\ f[m] = e[m]
      BY <1>3, <2>3
    <3>3. e[m] = t[LastIn(R)][2] /\ R # {}
      BY <1>2, <3>1, <3>2
    <3>4. R \subseteq 0 .. n /\ R \subseteq 1 .. n
      <4>1. R \subseteq 1 .. n
        BY <3>1, StringsGrow
      <4>2. QED
        BY <4>1
    <3>5. LastIn(R) \in R
      BY <3>3, <3>4, LastIsLast
    <3>6. u[LastIn(R)] = t[LastIn(R)]
      BY <1>8, <3>4, <3>5
    <3>7. StringsIn(u, m, D) = R
      BY <1>6, <2>1, <2>3, <3>1
    <3>8. QED
      BY <3>2, <3>3, <3>6, <3>7
  <2>4. QED
    BY <2>2, <2>3
<1>11. QED
  BY <1>1, <1>9, <1>10 DEF EntriesMean

\* A token of a line, read.
LEMMA ReadMeans ==
  ASSUME NEW t, NEW tok, NEW u, NEW L, NEW D, TokenMore(t, tok, u, L, D), NEW n \in Nat, n = Len(t),
         LineMeans(t, L, n, line), LineTypes(line), tok[1] # "NEWLINE", tok # EmptyString, NEW r, r = Read(tok)
  PROVE  LineMeans(u, D, n + 1, r) /\ LineTypes(r)
<1>1. PICK l : l = line
  OBVIOUS
<1>2. /\ CodeMeans(t, L, l) /\ EscapeMeans(t, L, l) /\ FlagsMean(t, L, l)
      /\ ModifierMeans(t, L, n, l) /\ EntriesMean(t, L, l) /\ LineMeans(t, L, n, l) /\ LineTypes(l)
  BY <1>1, LineParts
<1>3. tok \in Tokens
  BY DEF TokenMore
<1>4. /\ tok[1] # "SCANCODE" /\ r.scancode = l.scancode => CodeMeans(u, D, r)
      /\ tok[1] # "ESC" /\ r.escape = l.escape => EscapeMeans(u, D, r)
      /\ tok[1] # "FLAG" /\ r.flags = l.flags => FlagsMean(u, D, r)
      /\ tok[1] \notin {"SHIFT", "STRING"} /\ r.modifier = l.modifier => ModifierMeans(u, D, n + 1, r)
      /\ tok[1] # "STRING" /\ r.entries = l.entries => EntriesMean(u, D, r)
  BY <1>2, PartsStay
<1>5. CASE tok[1] = "SCANCODE" /\ tok[2] \in Codes
  <2>1. r = [l EXCEPT !.scancode = tok[2]]
    BY <1>1, <1>5 DEF Read
  <2>2. r = [scancode |-> tok[2], entries |-> l.entries, flags |-> l.flags, modifier |-> l.modifier, escape |-> l.escape]
    BY <1>2, <2>1 DEF LineTypes, IsLine
  <2>3. /\ r.scancode = tok[2] /\ r.entries = l.entries /\ r.flags = l.flags /\ r.modifier = l.modifier
        /\ r.escape = l.escape
    BY <2>2
  <2>4. IsLine(r)
    BY <2>2, <2>3 DEF IsLine
  <2>5. LineTypes(r)
    BY <1>2, <1>5, <2>3, <2>4 DEF LineTypes
  <2>6. CodeMeans(u, D, r)
    BY <1>5, <2>3, CodeGrows
  <2>7. EscapeMeans(u, D, r) /\ FlagsMean(u, D, r) /\ ModifierMeans(u, D, n + 1, r) /\ EntriesMean(u, D, r)
    BY <1>4, <1>5, <2>3
  <2>8. QED
    BY <2>5, <2>6, <2>7, LineParts
<1>6. CASE tok[1] = "STRING" /\ tok[2] \in Strings \cup {None} /\ tok = << "STRING", tok[2] >>
  <2>1. tok[2] \in Strings
    BY <1>6 DEF EmptyString
  <2>2. r = AddString(l, tok[2])
    BY <1>1, <1>6 DEF Read
  <2>3. PICK e : e = [m \in DOMAIN l.entries \cup {l.modifier} |-> IF m = l.modifier THEN tok[2] ELSE l.entries[m]]
    OBVIOUS
  <2>4. r = [l EXCEPT !.entries = e, !.modifier = "default"]
    BY <2>2, <2>3 DEF AddString
  <2>5. r = [scancode |-> l.scancode, entries |-> e, flags |-> l.flags, modifier |-> "default", escape |-> l.escape]
    BY <1>2, <2>4 DEF LineTypes, IsLine
  <2>6. /\ r.scancode = l.scancode /\ r.entries = e /\ r.flags = l.flags /\ r.modifier = "default"
        /\ r.escape = l.escape
    BY <2>5
  <2>7. IsLine(r)
    BY <2>5, <2>6 DEF IsLine
  <2>8. DOMAIN e \subseteq Modifiers /\ \A m \in DOMAIN e : e[m] \in Strings
    BY <1>2, <2>1, <2>3 DEF LineTypes
  <2>9. LineTypes(r)
    BY <1>2, <2>6, <2>7, <2>8 DEF LineTypes, Modifiers
  <2>10. EntriesMean(u, D, r)
    <3>1. r.entries = [m \in DOMAIN l.entries \cup {l.modifier} |-> IF m = l.modifier THEN tok[2] ELSE l.entries[m]]
      BY <2>3, <2>6
    <3>2. QED
      BY <1>2, <1>6, <3>1, EntriesGrow
  <2>11. ModifierMeans(u, D, n + 1, r)
    BY <1>6, <2>6, ModifierGrows
  <2>12. CodeMeans(u, D, r) /\ EscapeMeans(u, D, r) /\ FlagsMean(u, D, r)
    BY <1>4, <1>6, <2>6
  <2>13. QED
    BY <2>9, <2>10, <2>11, <2>12, LineParts
<1>7. CASE tok[1] = "FLAG" /\ tok[2] \in Flags
  <2>1. r = [l EXCEPT !.flags = @ \cup {tok[2]}]
    BY <1>1, <1>7 DEF Read
  <2>2. r = [scancode |-> l.scancode, entries |-> l.entries, flags |-> l.flags \cup {tok[2]}, modifier |-> l.modifier, escape |-> l.escape]
    BY <1>2, <2>1 DEF LineTypes, IsLine
  <2>3. /\ r.scancode = l.scancode /\ r.entries = l.entries /\ r.flags = l.flags \cup {tok[2]} /\ r.modifier = l.modifier
        /\ r.escape = l.escape
    BY <2>2
  <2>4. IsLine(r)
    BY <2>2, <2>3 DEF IsLine
  <2>5. IsFiniteSet(r.flags) /\ r.flags \subseteq Flags
    <3>1. IsFiniteSet(l.flags) /\ l.flags \subseteq Flags
      BY <1>2 DEF LineTypes
    <3>2. IsFiniteSet(l.flags \cup {tok[2]})
      BY <3>1, FS_AddElement
    <3>3. QED
      BY <1>7, <2>3, <3>1, <3>2
  <2>6. LineTypes(r)
    BY <1>2, <2>3, <2>4, <2>5 DEF LineTypes
  <2>7. FlagsMean(u, D, r)
    BY <1>2, <1>7, <2>3, FlagsGrow
  <2>8. EscapeMeans(u, D, r) /\ CodeMeans(u, D, r) /\ ModifierMeans(u, D, n + 1, r) /\ EntriesMean(u, D, r)
    BY <1>4, <1>7, <2>3
  <2>9. QED
    BY <2>6, <2>7, <2>8, LineParts
<1>8. CASE tok[1] = "SHIFT"
  <2>1. r = [l EXCEPT !.modifier = "SHIFT"]
    BY <1>1, <1>8 DEF Read
  <2>2. r = [scancode |-> l.scancode, entries |-> l.entries, flags |-> l.flags, modifier |-> "SHIFT", escape |-> l.escape]
    BY <1>2, <2>1 DEF LineTypes, IsLine
  <2>3. /\ r.scancode = l.scancode /\ r.entries = l.entries /\ r.flags = l.flags /\ r.modifier = "SHIFT"
        /\ r.escape = l.escape
    BY <2>2
  <2>4. IsLine(r)
    BY <2>2, <2>3 DEF IsLine
  <2>5. LineTypes(r)
    BY <1>2, <2>3, <2>4 DEF LineTypes, Modifiers
  <2>6. ModifierMeans(u, D, n + 1, r)
    BY <1>8, <2>3, ModifierGrows
  <2>7. EscapeMeans(u, D, r) /\ CodeMeans(u, D, r) /\ FlagsMean(u, D, r) /\ EntriesMean(u, D, r)
    BY <1>4, <1>8, <2>3
  <2>8. QED
    BY <2>5, <2>6, <2>7, LineParts
<1>9. CASE tok[1] = "ESC"
  <2>1. r = [l EXCEPT !.escape = TRUE]
    BY <1>1, <1>9 DEF Read
  <2>2. r = [scancode |-> l.scancode, entries |-> l.entries, flags |-> l.flags, modifier |-> l.modifier, escape |-> TRUE]
    BY <1>2, <2>1 DEF LineTypes, IsLine
  <2>3. /\ r.scancode = l.scancode /\ r.entries = l.entries /\ r.flags = l.flags /\ r.modifier = l.modifier
        /\ r.escape = TRUE
    BY <2>2
  <2>4. IsLine(r)
    BY <2>2, <2>3 DEF IsLine
  <2>5. LineTypes(r)
    BY <1>2, <2>3, <2>4 DEF LineTypes
  <2>6. EscapeMeans(u, D, r)
    BY <1>9, <2>3, EscapeGrows
  <2>7. ModifierMeans(u, D, n + 1, r) /\ CodeMeans(u, D, r) /\ FlagsMean(u, D, r) /\ EntriesMean(u, D, r)
    BY <1>4, <1>9, <2>3
  <2>8. QED
    BY <2>5, <2>6, <2>7, LineParts
<1>10. CASE tok[1] = "ALT"
  <2>1. r = l
    BY <1>1, <1>10 DEF Read
  <2>2. /\ r.scancode = l.scancode /\ r.entries = l.entries /\ r.flags = l.flags /\ r.modifier = l.modifier
        /\ r.escape = l.escape /\ LineTypes(r)
    BY <1>2, <2>1
  <2>3. /\ EscapeMeans(u, D, r) /\ ModifierMeans(u, D, n + 1, r) /\ CodeMeans(u, D, r) /\ FlagsMean(u, D, r)
        /\ EntriesMean(u, D, r)
    BY <1>4, <1>10, <2>2
  <2>4. QED
    BY <2>2, <2>3, LineParts
<1>11. QED
  BY <1>3, <1>5, <1>6, <1>7, <1>8, <1>9, <1>10, TokenKinds

\* The line that is being read, with a token more.
LineGrown(t, tok, u, n) ==
  /\ tok[1] = "NEWLINE" => LineIn(u, n + 2) = {}
  /\ tok[1] # "NEWLINE" => LineIn(u, n + 2) = LineIn(t, n + 1) \cup {n + 1}

\* Every kind of token is taken into the line as the sets say.
LEMMA LineGrows ==
  ASSUME NEW t \in Seq(Tokens), NEW tok \in Tokens, NEW u, u = Append(t, tok), NEW n \in Nat, n = Len(t)
  PROVE  LineGrown(t, tok, u, n)
<1>1. u \in Seq(Tokens) /\ n + 2 \in 1 .. Len(u) + 1 /\ n + 1 \in 1 .. Len(t) + 1
  <2>1. u \in Seq(Tokens) /\ Len(u) = n + 1
    BY OneMore
  <2>2. QED
    BY <2>1
<1>2. /\ \A y \in 0 .. n : y \in BreaksIn(u) <=> y \in BreaksIn(t)
      /\ n + 1 \in BreaksIn(u) <=> tok[1] = "NEWLINE"
      /\ BreaksIn(u) \subseteq 0 .. n + 2
  BY BreaksStay
<1>3. ASSUME tok[1] = "NEWLINE" PROVE LineIn(u, n + 2) = {}
  <2>1. n + 1 \in BreaksIn(u) /\ n + 1 < n + 2
    BY <1>2, <1>3
  <2>2. \A y \in BreaksIn(u) : y < n + 2 => y <= n + 1
    BY <1>2
  <2>3. StartOf(u, n + 2) = n + 1
    BY <1>1, <2>1, <2>2, StartOnly
  <2>4. QED
    BY <2>3 DEF LineIn
<1>4. ASSUME tok[1] # "NEWLINE" PROVE LineIn(u, n + 2) = LineIn(t, n + 1) \cup {n + 1}
  <2>1. PICK x : x = StartOf(t, n + 1)
    OBVIOUS
  <2>2. x \in BreaksIn(t) /\ x < n + 1 /\ x \in Nat /\ \A y \in BreaksIn(t) : y < n + 1 => y <= x
    BY <1>1, <2>1, StartIs
  <2>3. x \in BreaksIn(u) /\ x < n + 2
    BY <1>2, <2>2
  <2>4. ASSUME NEW y \in BreaksIn(u), y < n + 2 PROVE y <= x
    <3>1. y \in 0 .. n
      BY <1>2, <1>4, <2>4
    <3>2. y \in BreaksIn(t) /\ y < n + 1
      BY <1>2, <2>4, <3>1
    <3>3. QED
      BY <2>2, <3>2
  <2>5. StartOf(u, n + 2) = x
    BY <1>1, <2>3, <2>4, StartOnly
  <2>6. LineIn(u, n + 2) = (x + 1)..(n + 1) /\ LineIn(t, n + 1) = (x + 1)..n
    <3>1. n + 2 - 1 = n + 1 /\ n + 1 - 1 = n
      OBVIOUS
    <3>2. QED
      BY <2>1, <2>5, <3>1 DEF LineIn
  <2>7. (x + 1)..(n + 1) = ((x + 1)..n) \cup {n + 1}
    BY <2>2
  <2>8. QED
    BY <2>6, <2>7
<1>5. QED
  BY <1>3, <1>4 DEF LineGrown

\* A line without a token.
LEMMA NewLineMeans == ASSUME NEW t, NEW n PROVE LineMeans(t, {}, n, NewLine) /\ LineTypes(NewLine)
<1>1. /\ \A k : OfIn(t, k, {}) = {}
      /\ \A i : ~Shifted(t, {}, i)
      /\ \A m : StringsIn(t, m, {}) = {}
  BY DEF OfIn, Shifted, StringsIn
<1>2. /\ NewLine.scancode = NoCode /\ NewLine.entries = << >> /\ NewLine.flags = {} /\ NewLine.modifier = "default"
      /\ NewLine.escape = FALSE
  BY DEF NewLine
<1>3. DOMAIN << >> = {}
  OBVIOUS
<1>4. IsLine(NewLine)
  BY <1>2 DEF NewLine, IsLine
<1>5. LineTypes(NewLine)
  BY <1>2, <1>3, <1>4, FS_EmptySet DEF LineTypes, Modifiers
<1>6. CodeMeans(t, {}, NewLine) /\ FlagsMean(t, {}, NewLine)
  BY <1>1, <1>2 DEF CodeMeans, FlagsMean
<1>7. EscapeMeans(t, {}, NewLine)
  BY <1>1, <1>2 DEF EscapeMeans
<1>8. ModifierMeans(t, {}, n, NewLine)
  BY <1>1, <1>2 DEF ModifierMeans
<1>9. EntriesMean(t, {}, NewLine)
  BY <1>1, <1>2, <1>3 DEF EntriesMean
<1>10. QED
  BY <1>5, <1>6, <1>7, <1>8, <1>9, LineParts

\* What a line says of the tables, when its tokens are read.
LineCode(l) == IF l.escape THEN Escaped(l.scancode) ELSE l.scancode

\* A line that means what it should says what its tokens say.
LEMMA LineSays ==
  ASSUME NEW t \in Seq(Tokens), NEW n \in Nat, n = Len(t), NEW l, LineMeans(t, LineIn(t, n + 1), n, l), LineTypes(l)
  PROVE  /\ \A c : \A m \in Modifiers : Says(t, m, c, n + 1) <=> l.scancode # NoCode /\ LineCode(l) = c /\ m \in DOMAIN l.entries
         /\ \A m \in DOMAIN l.entries : EntryIn(t, m, n + 1) = l.entries[m]
         /\ MixedIn(t, n + 1) <=> Refused(l)
<1>1. PICK L : L = LineIn(t, n + 1)
  OBVIOUS
<1>2. L \subseteq 1 .. n
  <2>1. n + 1 \in 1 .. Len(t) + 1 /\ n + 1 - 1 = n
    OBVIOUS
  <2>2. QED
    BY <1>1, <2>1, LineIsBefore
<1>3. CodeMeans(t, L, l) /\ EscapeMeans(t, L, l) /\ FlagsMean(t, L, l) /\ EntriesMean(t, L, l)
  BY <1>1, LineParts
<1>4. PICK S : S = OfIn(t, "SCANCODE", L)
  OBVIOUS
<1>5. l.scancode = IF S = {} THEN NoCode ELSE t[LastIn(S)][2]
  BY <1>3, <1>4 DEF CodeMeans
<1>6. S # {} => l.scancode # NoCode
  <2>1. SUFFICES ASSUME S # {} PROVE l.scancode # NoCode
    OBVIOUS
  <2>2. S \subseteq 0 .. n /\ S \subseteq 1 .. n
    <3>1. S \subseteq L
      BY <1>4 DEF OfIn
    <3>2. 1 .. n \subseteq 0 .. n
      OBVIOUS
    <3>3. QED
      BY <1>2, <3>1, <3>2
  <2>3. LastIn(S) \in S
    BY <2>1, <2>2, LastIsLast
  <2>4. PICK i : i = LastIn(S) /\ i \in 1 .. n /\ t[i][1] = "SCANCODE"
    BY <1>4, <2>2, <2>3 DEF OfIn
  <2>5. t[i] \in Tokens
    BY <2>4
  <2>6. t[i][2] \in Codes
    BY <2>4, <2>5, TokenKinds
  <2>7. t[i][2] \in 0..(Cells - 1) /\ Cells \in Nat
    BY <2>6, ScanAssumption
  <2>8. t[i][2] # NoCode
    BY <2>7 DEF NoCode
  <2>9. QED
    BY <1>5, <2>1, <2>4, <2>8
<1>7. S = {} <=> l.scancode = NoCode
  BY <1>5, <1>6
<1>8. l.escape <=> OfIn(t, "ESC", L) # {}
  BY <1>3 DEF EscapeMeans
<1>9. S # {} => CodeIn(t, L) = LineCode(l)
  BY <1>4, <1>5, <1>8 DEF CodeIn, LineCode
<1>10. \A m \in Modifiers : m \in DOMAIN l.entries <=> StringsIn(t, m, L) # {}
  BY <1>3 DEF EntriesMean
<1>11. \A c : \A m \in Modifiers : Says(t, m, c, n + 1) <=> l.scancode # NoCode /\ LineCode(l) = c /\ m \in DOMAIN l.entries
  BY <1>1, <1>4, <1>7, <1>9, <1>10 DEF Says
<1>12. \A m \in DOMAIN l.entries : EntryIn(t, m, n + 1) = l.entries[m]
  BY <1>1, <1>3 DEF EntriesMean, EntryIn
<1>13. DOMAIN l.entries # {} <=> OfIn(t, "STRING", L) # {}
  <2>1. ASSUME NEW m \in DOMAIN l.entries PROVE OfIn(t, "STRING", L) # {}
    <3>1. StringsIn(t, m, L) # {}
      BY <1>3 DEF EntriesMean
    <3>2. QED
      BY <3>1 DEF StringsIn
  <2>2. ASSUME NEW i \in OfIn(t, "STRING", L) PROVE DOMAIN l.entries # {}
    <3>1. PICK m \in Modifiers : m = IF Shifted(t, L, i) THEN "SHIFT" ELSE "default"
      BY DEF Modifiers
    <3>2. i \in StringsIn(t, m, L)
      BY <3>1 DEF StringsIn
    <3>3. m \in DOMAIN l.entries
      BY <1>10, <3>2
    <3>4. QED
      BY <3>3
  <2>3. QED
    BY <2>1, <2>2
<1>14. l.flags # {} <=> OfIn(t, "FLAG", L) # {}
  BY <1>3 DEF FlagsMean
<1>15. MixedIn(t, n + 1) <=> Refused(l)
  BY <1>1, <1>4, <1>7, <1>13, <1>14 DEF MixedIn, Refused, Contradicts
<1>16. QED
  BY <1>11, <1>12, <1>15

-----------------------------------------------------------------------------
(***************************************************************************)
(* The compiler, from its first token to the last.                         *)
(***************************************************************************)

\* The tables hold what the lines that end at B say.
TellsAll(t, B) == \A m \in Modifiers, c \in 0..(Cells - 1) : tables[m][c] = Told(t, m, c, B)
\* There is an empty string, or one of these lines gives a code entries and flags.
Faulty(t, B) == (\E i \in DOMAIN t : t[i] = EmptyString) \/ \E b \in B : MixedIn(t, b)

\* The types of what the lines left.
TablesTypes ==
  /\ tables \in [Modifiers -> [0..(Cells - 1) -> Strings \cup {None}]]
  /\ flagged \in [0..(Cells - 1) -> SUBSET Flags] /\ knownFlags \subseteq Flags
  /\ IsFiniteSet(knownFlags) /\ \A c \in 0..(Cells - 1) : flagged[c] \subseteq knownFlags

\* The inductive invariant: the line is what its tokens say, the tables are
\* what the lines above it say, and a fault ends the parse.
ScanInv ==
  /\ toks \in Seq(Tokens) /\ parse \in {"reading", "accepted", "refused"} /\ TablesTypes /\ LineTypes(line)
  /\ parse = "reading" => /\ LineMeans(toks, LineIn(toks, Len(toks) + 1), Len(toks), line)
                          /\ TellsAll(toks, NewLines(toks)) /\ ~Faulty(toks, NewLines(toks))
  /\ parse = "accepted" => TellsAll(toks, BreaksIn(toks) \ {0}) /\ ~Faulty(toks, BreaksIn(toks) \ {0})
  /\ parse = "refused" => Faulty(toks, BreaksIn(toks) \ {0})

\* State.enter() keeps the types of the tables.
LEMMA EnterTypes == ASSUME TablesTypes, LineTypes(line), Enter(line) PROVE TablesTypes'
<1>1. CASE UNCHANGED << tables, flagged, knownFlags >>
  BY <1>1 DEF TablesTypes
<1>2. CASE ~(line.scancode = NoCode \/ Contradicts(line))
  <2>1. PICK l, c : l = line /\ c = LineCode(line)
    OBVIOUS
  <2>2. c \in 0..(Cells - 1)
    <3>1. line.scancode \in 0..(Cells - 1)
      BY <1>2, ScanAssumption DEF LineTypes
    <3>2. QED
      BY <2>1, <3>1, EscapedIsCell DEF LineCode
  <2>3. /\ tables' = [m \in Modifiers |-> IF m \in DOMAIN l.entries
                       THEN [tables[m] EXCEPT ![c] = l.entries[m]] ELSE tables[m]]
        /\ flagged' = IF l.flags = {} THEN flagged ELSE [flagged EXCEPT ![c] = l.flags]
        /\ knownFlags' = knownFlags \cup l.flags
    BY <1>2, <2>1 DEF Enter, LineCode
  <2>4. /\ l.flags \subseteq Flags /\ IsFiniteSet(l.flags)
        /\ \A m \in DOMAIN l.entries : l.entries[m] \in Strings
    BY <2>1 DEF LineTypes
  <2>5. /\ tables \in [Modifiers -> [0..(Cells - 1) -> Strings \cup {None}]]
        /\ flagged \in [0..(Cells - 1) -> SUBSET Flags] /\ knownFlags \subseteq Flags
        /\ IsFiniteSet(knownFlags) /\ \A d \in 0..(Cells - 1) : flagged[d] \subseteq knownFlags
    BY DEF TablesTypes
  <2>6. tables' \in [Modifiers -> [0..(Cells - 1) -> Strings \cup {None}]]
    <3>1. ASSUME NEW m \in Modifiers
          PROVE  (IF m \in DOMAIN l.entries THEN [tables[m] EXCEPT ![c] = l.entries[m]] ELSE tables[m])
                   \in [0..(Cells - 1) -> Strings \cup {None}]
      <4>1. tables[m] \in [0..(Cells - 1) -> Strings \cup {None}]
        BY <2>5
      <4>2. QED
        BY <2>2, <2>4, <4>1
    <3>2. QED
      BY <2>3, <3>1
  <2>7. flagged' \in [0..(Cells - 1) -> SUBSET Flags]
    BY <2>2, <2>3, <2>4, <2>5
  <2>8. knownFlags' \subseteq Flags /\ IsFiniteSet(knownFlags')
    BY <2>3, <2>4, <2>5, FS_Union
  <2>9. \A d \in 0..(Cells - 1) : flagged'[d] \subseteq knownFlags'
    <3>1. ASSUME NEW d \in 0..(Cells - 1) PROVE flagged'[d] \subseteq knownFlags'
      <4>1. flagged'[d] = flagged[d] \/ flagged'[d] = l.flags
        BY <2>2, <2>3, <2>5
      <4>2. QED
        BY <2>3, <2>5, <4>1
    <3>2. QED
      BY <3>1
  <2>10. QED
    BY <2>6, <2>7, <2>8, <2>9 DEF TablesTypes
<1>3. QED
  BY <1>1, <1>2 DEF Enter

\* State.enter() puts over the tables what the line says.
LEMMA EnterTells ==
  ASSUME TablesTypes, LineTypes(line), Enter(line), NEW t \in Seq(Tokens), NEW n \in Nat, n = Len(t),
         LineMeans(t, LineIn(t, n + 1), n, line), NEW B, B \subseteq 1 .. n, TellsAll(t, B), ~Refused(line)
  PROVE  \A m \in Modifiers, c \in 0..(Cells - 1) : tables'[m][c] = Told(t, m, c, B \cup {n + 1})
<1>1. PICK l : l = line
  OBVIOUS
<1>2. /\ \A c : \A m \in Modifiers : Says(t, m, c, n + 1) <=> l.scancode # NoCode /\ LineCode(l) = c /\ m \in DOMAIN l.entries
      /\ \A m \in DOMAIN l.entries : EntryIn(t, m, n + 1) = l.entries[m]
  BY <1>1, LineSays
<1>3. \A m, c : Told(t, m, c, B \cup {n + 1}) = IF Says(t, m, c, n + 1) THEN EntryIn(t, m, n + 1) ELSE Told(t, m, c, B)
  <2>1. n + 1 \in Nat /\ B \subseteq Nat /\ \A y \in B : y < n + 1
    OBVIOUS
  <2>2. PICK D : D = B \cup {n + 1}
    OBVIOUS
  <2>3. ASSUME NEW m, NEW c
        PROVE  Told(t, m, c, D) = IF Says(t, m, c, n + 1) THEN EntryIn(t, m, n + 1) ELSE Told(t, m, c, B)
    <3>1. ToldAlso(t, m, c, n + 1, B, D)
      BY <2>1, <2>2, ToldMore
    <3>2. QED
      BY <3>1 DEF ToldAlso
  <2>4. QED
    BY <2>2, <2>3
<1>4. \A m \in Modifiers, c \in 0..(Cells - 1) : tables[m][c] = Told(t, m, c, B)
  BY DEF TellsAll
<1>5. CASE l.scancode = NoCode
  <2>1. tables' = tables
    BY <1>1, <1>5 DEF Enter
  <2>2. \A c : \A m \in Modifiers : ~Says(t, m, c, n + 1)
    BY <1>2, <1>5
  <2>3. QED
    BY <1>3, <1>4, <2>1, <2>2
<1>6. CASE l.scancode # NoCode
  <2>1. ~(l.scancode = NoCode \/ Contradicts(l))
    BY <1>1, <1>6 DEF Refused
  <2>2. PICK k : k = LineCode(l)
    OBVIOUS
  <2>3. tables' = [m \in Modifiers |-> IF m \in DOMAIN l.entries
                     THEN [tables[m] EXCEPT ![k] = l.entries[m]] ELSE tables[m]]
    BY <1>1, <2>1, <2>2 DEF Enter, LineCode
  <2>4. ASSUME NEW m \in Modifiers, NEW c \in 0..(Cells - 1) PROVE tables'[m][c] = Told(t, m, c, B \cup {n + 1})
    <3>1. tables[m] \in [0..(Cells - 1) -> Strings \cup {None}]
      BY DEF TablesTypes
    <3>2. tables'[m] = IF m \in DOMAIN l.entries THEN [tables[m] EXCEPT ![k] = l.entries[m]] ELSE tables[m]
      BY <2>3
    <3>3. CASE m \in DOMAIN l.entries /\ k = c
      <4>1. tables'[m][c] = l.entries[m]
        BY <3>1, <3>2, <3>3
      <4>2. Says(t, m, c, n + 1)
        BY <1>2, <1>6, <2>2, <3>3
      <4>3. QED
        BY <1>2, <1>3, <3>3, <4>1, <4>2
    <3>4. CASE ~(m \in DOMAIN l.entries /\ k = c)
      <4>1. tables'[m][c] = tables[m][c]
        BY <3>1, <3>2, <3>4
      <4>2. ~Says(t, m, c, n + 1)
        BY <1>2, <2>2, <3>4
      <4>3. QED
        BY <1>3, <1>4, <4>1, <4>2
    <3>5. QED
      BY <3>3, <3>4
  <2>5. QED
    BY <2>4
<1>7. QED
  BY <1>5, <1>6

\* All breaks but the first.
LEMMA BreaksEnd ==
  ASSUME NEW t \in Seq(Tokens), NEW n \in Nat, n = Len(t)
  PROVE  BreaksIn(t) \ {0} = NewLines(t) \cup {n + 1} /\ NewLines(t) \subseteq 1 .. n
<1>1. NewLines(t) \subseteq 1 .. n
  BY DEF NewLines
<1>2. 0 \notin NewLines(t) /\ n + 1 # 0
  BY <1>1
<1>3. QED
  BY <1>1, <1>2 DEF BreaksIn

\* The faults stay.
LEMMA FaultsStay ==
  ASSUME NEW t \in Seq(Tokens), NEW tok \in Tokens, NEW u, u = Append(t, tok), NEW B, B \subseteq 1 .. Len(t) + 1
  PROVE  Faulty(u, B) <=> Faulty(t, B) \/ tok = EmptyString
<1>1. PICK n \in Nat : n = Len(t)
  OBVIOUS
<1>2. DOMAIN t = 1 .. n /\ DOMAIN u = 1 .. n + 1 /\ (\A i \in 1 .. n : u[i] = t[i]) /\ u[n + 1] = tok
  BY <1>1, OneMore
<1>3. (\E i \in DOMAIN u : u[i] = EmptyString) <=> (\E i \in DOMAIN t : t[i] = EmptyString) \/ tok = EmptyString
  <2>1. \A i : i \in 1 .. n + 1 <=> i \in 1 .. n \/ i = n + 1
    OBVIOUS
  <2>2. QED
    BY <1>2, <2>1
<1>4. \A b \in B : MixedIn(u, b) <=> MixedIn(t, b)
  BY SayingsStay
<1>5. QED
  BY <1>3, <1>4 DEF Faulty

\* The first state.
LEMMA ScanInvInit == ScanInit => ScanInv
<1>1. SUFFICES ASSUME ScanInit PROVE ScanInv
  OBVIOUS
<1>2. /\ toks = << >> /\ line = NewLine /\ parse = "reading"
      /\ tables = [m \in Modifiers |-> [c \in 0..(Cells - 1) |-> None]]
      /\ flagged = [c \in 0..(Cells - 1) |-> {}] /\ knownFlags = {}
  BY <1>1 DEF ScanInit
<1>3. PICK t : t = << >>
  OBVIOUS
<1>4. t \in Seq(Tokens) /\ Len(t) = 0 /\ DOMAIN t = {} /\ toks = t
  BY <1>2, <1>3
<1>5. NewLines(t) = {} /\ BreaksIn(t) = {0, 1}
  BY <1>4 DEF NewLines, BreaksIn
<1>6. LineIn(t, 0 + 1) = {}
  <2>1. StartOf(t, 0 + 1) = 0
    <3>1. 0 \in BreaksIn(t) /\ 0 < 1 /\ 1 \in 1 .. Len(t) + 1 /\ (\A y \in BreaksIn(t) : y < 1 => y <= 0) /\ 0 + 1 = 1
      BY <1>4, <1>5
    <3>2. QED
      BY <1>4, <3>1, StartOnly
  <2>2. QED
    BY <2>1 DEF LineIn
<1>7. LineMeans(t, LineIn(t, Len(t) + 1), Len(t), line) /\ LineTypes(line)
  BY <1>2, <1>4, <1>6, NewLineMeans
<1>8. TellsAll(t, {})
  BY <1>2 DEF TellsAll, Told
<1>9. ~Faulty(t, {})
  BY <1>4 DEF Faulty
<1>10. TablesTypes
  BY <1>2, FS_EmptySet DEF TablesTypes
<1>11. QED
  BY <1>2, <1>4, <1>5, <1>7, <1>8, <1>9, <1>10 DEF ScanInv

\* The three ways in which a token is read.
ReadsToken(tok) ==
  /\ tok[1] = "NEWLINE" => Enter(line) /\ line' = NewLine /\ parse' = IF Refused(line) THEN "refused" ELSE parse
  /\ tok[1] # "NEWLINE" /\ tok = EmptyString
       => parse' = "refused" /\ line' = line /\ tables' = tables /\ flagged' = flagged /\ knownFlags' = knownFlags
  /\ tok[1] # "NEWLINE" /\ tok # EmptyString
       => line' = Read(tok) /\ tables' = tables /\ flagged' = flagged /\ knownFlags' = knownFlags /\ parse' = parse

\* A step of parse() takes one token of the file.
LEMMA ReadEither == ASSUME ReadToken PROVE \E tok \in Tokens : toks' = Append(toks, tok) /\ ReadsToken(tok)
<1>1. PICK tok \in Tokens :
        /\ toks' = Append(toks, tok)
        /\ \/ /\ tok[1] = "NEWLINE" /\ Enter(line) /\ line' = NewLine
              /\ parse' = IF Refused(line) THEN "refused" ELSE parse
           \/ /\ tok = EmptyString /\ parse' = "refused"
              /\ UNCHANGED << line, tables, flagged, knownFlags >>
           \/ /\ tok[1] # "NEWLINE" /\ tok # EmptyString /\ line' = Read(tok)
              /\ UNCHANGED << tables, flagged, knownFlags, parse >>
  BY DEF ReadToken
<1>2. tok = EmptyString => tok[1] # "NEWLINE"
  BY DEF EmptyString
<1>3. ReadsToken(tok)
  BY <1>1, <1>2 DEF ReadsToken
<1>4. QED
  BY <1>1, <1>3

\* A token, read.
LEMMA ReadKeeps == ASSUME ScanInv, ReadToken PROVE ScanInv'
<1>1. PICK tok \in Tokens : toks' = Append(toks, tok) /\ ReadsToken(tok)
  BY ReadEither
<1>2. parse = "reading"
  BY DEF ReadToken
<1>3. PICK t, u, n : t = toks /\ u = toks' /\ n = Len(toks)
  OBVIOUS
<1>4. t \in Seq(Tokens) /\ n \in Nat /\ n = Len(t) /\ u = Append(t, tok) /\ u \in Seq(Tokens) /\ Len(u) = n + 1
  BY <1>1, <1>3 DEF ScanInv
<1>5. /\ LineMeans(t, LineIn(t, n + 1), n, line) /\ TellsAll(t, NewLines(t)) /\ ~Faulty(t, NewLines(t))
      /\ TablesTypes /\ LineTypes(line)
  BY <1>2, <1>3 DEF ScanInv
<1>6. /\ BreaksIn(t) \ {0} = NewLines(t) \cup {n + 1} /\ NewLines(t) \subseteq 1 .. n
      /\ BreaksIn(u) \ {0} = NewLines(u) \cup {n + 1 + 1} /\ NewLines(u) \subseteq 1 .. n + 1
  <2>1. BreaksIn(t) \ {0} = NewLines(t) \cup {n + 1} /\ NewLines(t) \subseteq 1 .. n
    BY <1>4, BreaksEnd
  <2>2. n + 1 \in Nat
    BY <1>4
  <2>3. BreaksIn(u) \ {0} = NewLines(u) \cup {n + 1 + 1} /\ NewLines(u) \subseteq 1 .. n + 1
    BY <1>4, <2>2, BreaksEnd
  <2>4. QED
    BY <2>1, <2>3
<1>7. NewLines(u) = IF tok[1] = "NEWLINE" THEN NewLines(t) \cup {n + 1} ELSE NewLines(t)
  BY <1>4, BreaksStay
<1>8. CASE tok[1] = "NEWLINE"
  <2>1. Enter(line) /\ line' = NewLine /\ parse' = IF Refused(line) THEN "refused" ELSE parse
    BY <1>1, <1>8 DEF ReadsToken
  <2>2. TablesTypes'
    BY <1>5, <2>1, EnterTypes
  <2>3. MixedIn(t, n + 1) <=> Refused(line)
    BY <1>4, <1>5, LineSays
  <2>4. tok # EmptyString
    BY <1>8 DEF EmptyString
  <2>5. PICK B : B = NewLines(t) \cup {n + 1}
    OBVIOUS
  <2>6. B \subseteq 1 .. Len(t) + 1 /\ NewLines(u) = B
    <3>1. B \subseteq 1 .. n + 1
      BY <1>4, <1>6, <2>5
    <3>2. QED
      BY <1>4, <1>7, <1>8, <2>5, <3>1
  <2>7. Faulty(u, B) <=> MixedIn(t, n + 1)
    <3>1. Faulty(u, B) <=> Faulty(t, B)
      BY <1>4, <2>4, <2>6, FaultsStay
    <3>2. Faulty(t, B) <=> Faulty(t, NewLines(t)) \/ MixedIn(t, n + 1)
      BY <2>5 DEF Faulty
    <3>3. QED
      BY <1>5, <3>1, <3>2
  <2>8. LineTypes(line')
    BY <2>1, NewLineMeans
  <2>9. CASE Refused(line)
    <3>1. Faulty(u, B)
      BY <2>3, <2>7, <2>9
    <3>2. Faulty(u, BreaksIn(u) \ {0})
      <4>1. B \subseteq BreaksIn(u) \ {0}
        BY <1>6, <2>6
      <4>2. QED
        BY <3>1, <4>1 DEF Faulty
    <3>3. parse' = "refused"
      BY <2>1, <2>9
    <3>4. QED
      BY <1>3, <1>4, <2>2, <2>8, <3>2, <3>3 DEF ScanInv, LineTypes, Faulty
  <2>10. CASE ~Refused(line)
    <3>1. parse' = "reading"
      BY <1>2, <2>1, <2>10
    <3>2. \A m \in Modifiers, c \in 0..(Cells - 1) : tables'[m][c] = Told(t, m, c, B)
      BY <1>4, <1>5, <1>6, <2>1, <2>5, <2>10, EnterTells
    <3>3. \A m \in Modifiers, c \in 0..(Cells - 1) : tables'[m][c] = Told(u, m, c, B)
      <4>1. ASSUME NEW m, NEW c PROVE Told(u, m, c, B) = Told(t, m, c, B)
        <5>1. ToldSame(t, u, m, c, B)
          BY <1>4, <2>6, ToldStays
        <5>2. QED
          BY <5>1 DEF ToldSame
      <4>2. QED
        BY <3>2, <4>1
    <3>4. ~Faulty(u, B)
      BY <2>3, <2>7, <2>10
    <3>5. LineMeans(u, LineIn(u, n + 2), n + 1, line')
      <4>1. LineIn(u, n + 2) = {}
        <5>1. LineGrown(t, tok, u, n)
          BY <1>4, LineGrows
        <5>2. QED
          BY <1>8, <5>1 DEF LineGrown
      <4>2. QED
        BY <2>1, <4>1, NewLineMeans
    <3>6. /\ LineMeans(toks', LineIn(toks', Len(toks') + 1), Len(toks'), line')
          /\ \A m \in Modifiers, c \in 0..(Cells - 1) : tables'[m][c] = Told(toks', m, c, NewLines(toks'))
          /\ ~Faulty(toks', NewLines(toks'))
      <4>1. Len(u) + 1 = n + 2 /\ Len(u) = n + 1
        BY <1>4
      <4>2. QED
        BY <1>3, <2>6, <3>3, <3>4, <3>5, <4>1
    <3>7. QED
      BY <1>3, <1>4, <2>2, <2>8, <3>1, <3>6 DEF ScanInv, TellsAll, LineTypes, Faulty, LineMeans
  <2>11. QED
    BY <2>9, <2>10
<1>9. CASE tok[1] # "NEWLINE" /\ tok = EmptyString
  <2>1. parse' = "refused" /\ line' = line /\ tables' = tables /\ flagged' = flagged /\ knownFlags' = knownFlags
    BY <1>1, <1>9 DEF ReadsToken
  <2>2. Faulty(u, BreaksIn(u) \ {0})
    <3>1. n + 1 \in DOMAIN u /\ u[n + 1] = EmptyString
      BY <1>4, <1>9
    <3>2. QED
      BY <3>1 DEF Faulty
  <2>3. TablesTypes'
    BY <1>5, <2>1 DEF TablesTypes
  <2>4. LineTypes(line')
    BY <1>5, <2>1
  <2>5. QED
    BY <1>3, <1>4, <2>1, <2>2, <2>3, <2>4 DEF ScanInv, LineTypes, Faulty
<1>10. CASE tok[1] # "NEWLINE" /\ tok # EmptyString
  <2>1. line' = Read(tok) /\ tables' = tables /\ flagged' = flagged /\ knownFlags' = knownFlags /\ parse' = "reading"
    BY <1>1, <1>2, <1>10 DEF ReadsToken
  <2>2. PICK L, D : L = LineIn(t, n + 1) /\ D = L \cup {n + 1}
    OBVIOUS
  <2>3. TokenMore(t, tok, u, L, D)
    <3>1. n + 1 \in 1 .. Len(t) + 1 /\ n + 1 - 1 = n
      BY <1>4
    <3>2. L \subseteq 1 .. n
      BY <1>4, <2>2, <3>1, LineIsBefore
    <3>3. QED
      BY <1>4, <2>2, <3>2 DEF TokenMore
  <2>4. LineMeans(u, D, n + 1, line') /\ LineTypes(line')
    <3>1. PICK r : r = Read(tok)
      OBVIOUS
    <3>2. LineMeans(u, D, n + 1, r) /\ LineTypes(r)
      BY <1>4, <1>5, <1>10, <2>2, <2>3, <3>1, ReadMeans
    <3>3. QED
      BY <2>1, <3>1, <3>2
  <2>5. LineIn(u, n + 2) = D
    <3>1. tok[1] # "NEWLINE" => LineIn(u, n + 2) = LineIn(t, n + 1) \cup {n + 1}
      <4>1. LineGrown(t, tok, u, n)
        BY <1>4, LineGrows
      <4>2. QED
        BY <4>1 DEF LineGrown
    <3>2. QED
      BY <1>10, <2>2, <3>1
  <2>6. NewLines(u) = NewLines(t) /\ NewLines(t) \subseteq 1 .. Len(t) + 1
    <3>1. 1 .. n \subseteq 1 .. n + 1
      BY <1>4
    <3>2. QED
      BY <1>4, <1>6, <1>7, <1>10, <3>1
  <2>7. \A m \in Modifiers, c \in 0..(Cells - 1) : tables'[m][c] = Told(u, m, c, NewLines(u))
    <3>1. \A m \in Modifiers, c \in 0..(Cells - 1) : tables[m][c] = Told(t, m, c, NewLines(t))
      BY <1>5 DEF TellsAll
    <3>2. ASSUME NEW m, NEW c PROVE Told(u, m, c, NewLines(t)) = Told(t, m, c, NewLines(t))
      <4>1. PICK B : B = NewLines(t) /\ B \subseteq 1 .. Len(t) + 1
        BY <2>6
      <4>2. ToldSame(t, u, m, c, B)
        BY <1>4, <4>1, ToldStays
      <4>3. QED
        BY <4>1, <4>2 DEF ToldSame
    <3>3. QED
      BY <2>1, <2>6, <3>1, <3>2
  <2>8. ~Faulty(u, NewLines(u))
    BY <1>4, <1>5, <1>10, <2>6, FaultsStay
  <2>9. TablesTypes'
    BY <1>5, <2>1 DEF TablesTypes
  <2>10. /\ LineMeans(toks', LineIn(toks', Len(toks') + 1), Len(toks'), line')
         /\ \A m \in Modifiers, c \in 0..(Cells - 1) : tables'[m][c] = Told(toks', m, c, NewLines(toks'))
         /\ ~Faulty(toks', NewLines(toks'))
    <3>1. Len(u) + 1 = n + 2 /\ Len(u) = n + 1
      BY <1>4
    <3>2. QED
      BY <1>3, <2>4, <2>5, <2>7, <2>8, <3>1
  <2>11. QED
    BY <1>3, <1>4, <2>1, <2>4, <2>9, <2>10 DEF ScanInv, TellsAll, LineTypes, Faulty, LineMeans
<1>11. QED
  BY <1>8, <1>9, <1>10

\* The end of the file.
LEMMA EndKeeps == ASSUME ScanInv, EndOfFile PROVE ScanInv'
<1>1. /\ parse = "reading" /\ Enter(line) /\ toks' = toks /\ line' = line
      /\ parse' = IF Refused(line) THEN "refused" ELSE "accepted"
  BY DEF EndOfFile
<1>2. PICK t, n : t = toks /\ n = Len(toks)
  OBVIOUS
<1>3. t \in Seq(Tokens) /\ n \in Nat /\ n = Len(t)
  BY <1>2 DEF ScanInv
<1>4. /\ LineMeans(t, LineIn(t, n + 1), n, line) /\ TellsAll(t, NewLines(t)) /\ ~Faulty(t, NewLines(t))
      /\ TablesTypes /\ LineTypes(line)
  BY <1>1, <1>2 DEF ScanInv
<1>5. BreaksIn(t) \ {0} = NewLines(t) \cup {n + 1} /\ NewLines(t) \subseteq 1 .. n
  BY <1>3, BreaksEnd
<1>6. TablesTypes'
  BY <1>1, <1>4, EnterTypes
<1>7. MixedIn(t, n + 1) <=> Refused(line)
  BY <1>3, <1>4, LineSays
<1>8. Faulty(t, BreaksIn(t) \ {0}) <=> Refused(line)
  <2>1. Faulty(t, NewLines(t) \cup {n + 1}) <=> Faulty(t, NewLines(t)) \/ MixedIn(t, n + 1)
    BY DEF Faulty
  <2>2. QED
    BY <1>4, <1>5, <1>7, <2>1
<1>9. LineTypes(line')
  BY <1>1, <1>4
<1>10. CASE Refused(line)
  <2>1. parse' = "refused"
    BY <1>1, <1>10
  <2>2. QED
    BY <1>1, <1>2, <1>3, <1>6, <1>8, <1>9, <1>10, <2>1 DEF ScanInv, LineTypes
<1>11. CASE ~Refused(line)
  <2>1. parse' = "accepted"
    BY <1>1, <1>11
  <2>2. \A m \in Modifiers, c \in 0..(Cells - 1) : tables'[m][c] = Told(t, m, c, BreaksIn(t) \ {0})
    <3>1. \A m \in Modifiers, c \in 0..(Cells - 1) : tables'[m][c] = Told(t, m, c, NewLines(t) \cup {n + 1})
      BY <1>1, <1>3, <1>4, <1>5, <1>11, EnterTells
    <3>2. QED
      BY <1>5, <3>1
  <2>3. \A m \in Modifiers, c \in 0..(Cells - 1) : tables'[m][c] = Told(toks', m, c, BreaksIn(toks') \ {0})
    BY <1>1, <1>2, <2>2
  <2>4. QED
    BY <1>1, <1>2, <1>3, <1>6, <1>8, <1>9, <1>11, <2>1, <2>3 DEF ScanInv, TellsAll, LineTypes
<1>12. QED
  BY <1>10, <1>11

\* Every state of a compilation.
LEMMA ScanReached == ScanSpec => []ScanInv
<1>1. ScanInv /\ [ScanNext]_scanVars => ScanInv'
  <2>1. SUFFICES ASSUME ScanInv, [ScanNext]_scanVars PROVE ScanInv'
    OBVIOUS
  <2>2. CASE ReadToken
    BY <2>1, <2>2, ReadKeeps
  <2>3. CASE EndOfFile
    BY <2>1, <2>3, EndKeeps
  <2>4. CASE UNCHANGED scanVars
    <3>1. /\ toks' = toks /\ line' = line /\ tables' = tables /\ flagged' = flagged /\ knownFlags' = knownFlags
          /\ parse' = parse
      BY <2>4 DEF scanVars
    <3>2. TablesTypes'
      BY <2>1, <3>1 DEF ScanInv, TablesTypes
    <3>3. LineTypes(line)
      BY <2>1 DEF ScanInv
    <3>4. QED
      BY <2>1, <3>1, <3>2, <3>3 DEF ScanInv, TellsAll, LineMeans, LineTypes, Faulty
  <2>5. QED
    BY <2>1, <2>2, <2>3, <2>4 DEF ScanNext
<1>2. QED
  BY <1>1, ScanInvInit, PTL DEF ScanSpec

\* The faults are those that a line, or an empty string, has.
LEMMA FaultyIs ==
  RefusedForALine <=> /\ parse = "refused" => Faulty(toks, BreaksIn(toks) \ {0})
                      /\ parse = "accepted" => ~Faulty(toks, BreaksIn(toks) \ {0})
<1>1. \A L : \A k : Of(k, L) = OfIn(toks, k, L)
  BY DEF Of, OfIn
<1>2. Breaks = BreaksIn(toks)
  BY DEF Breaks, BreaksIn, NewLines
<1>3. \A b : Line(b) = LineIn(toks, b)
  BY <1>2 DEF Line, LineIn, StartOf
<1>4. \A b : MixedIn(toks, b) <=> HasCode(Line(b)) /\ Of("STRING", Line(b)) # {} /\ Of("FLAG", Line(b)) # {}
  BY <1>1, <1>3 DEF MixedIn, HasCode
<1>5. QED
  BY <1>2, <1>4 DEF RefusedForALine, Faulty

\* The flags are numbered without a gap, in the order of their names.
LEMMA BitsDiffer ==
  ASSUME IsFiniteSet(knownFlags), knownFlags \subseteq Nat
  PROVE  /\ \A f \in knownFlags : FlagBit(f) \in Nat /\ FlagBit(f) < Cardinality(knownFlags)
         /\ \A f, g \in knownFlags : f < g => FlagBit(f) < FlagBit(g)
<1>1. ASSUME NEW f \in knownFlags, NEW S, S \subseteq knownFlags, {h \in knownFlags : h < f} \subseteq S, f \in S
      PROVE  FlagBit(f) \in Nat /\ FlagBit(f) < Cardinality(S)
  <2>1. PICK R : R = {h \in knownFlags : h < f}
    OBVIOUS
  <2>2. IsFiniteSet(S) /\ R \subseteq S /\ f \notin R
    <3>1. IsFiniteSet(S)
      BY <1>1, FS_Subset
    <3>2. ~(f < f)
      BY <1>1
    <3>3. QED
      BY <1>1, <2>1, <3>1, <3>2
  <2>3. IsFiniteSet(R) /\ Cardinality(R) \in Nat /\ Cardinality(S) \in Nat /\ Cardinality(R) <= Cardinality(S)
    BY <2>2, FS_Subset, FS_CardinalityType
  <2>4. R # S
    BY <1>1, <2>2
  <2>5. Cardinality(R) < Cardinality(S)
    <3>1. Cardinality(R) # Cardinality(S)
      BY <2>2, <2>4, FS_Subset
    <3>2. QED
      BY <2>3, <3>1
  <2>6. FlagBit(f) = Cardinality(R)
    BY <2>1 DEF FlagBit
  <2>7. QED
    BY <2>3, <2>5, <2>6
<1>2. ASSUME NEW f \in knownFlags PROVE FlagBit(f) \in Nat /\ FlagBit(f) < Cardinality(knownFlags)
  <2>1. {h \in knownFlags : h < f} \subseteq knownFlags /\ knownFlags \subseteq knownFlags
    OBVIOUS
  <2>2. QED
    BY <1>1, <2>1
<1>3. ASSUME NEW f \in knownFlags, NEW g \in knownFlags, f < g PROVE FlagBit(f) < FlagBit(g)
  <2>1. PICK S : S = {h \in knownFlags : h < g}
    OBVIOUS
  <2>2. S \subseteq knownFlags /\ f \in S
    BY <1>3, <2>1
  <2>3. {h \in knownFlags : h < f} \subseteq S
    <3>1. ASSUME NEW h \in knownFlags, h < f PROVE h < g
      <4>1. h \in Nat /\ f \in Nat /\ g \in Nat
        OBVIOUS
      <4>2. QED
        BY <1>3, <3>1, <4>1
    <3>2. QED
      BY <2>1, <3>1
  <2>4. FlagBit(f) < Cardinality(S)
    BY <1>1, <2>2, <2>3
  <2>5. QED
    BY <2>1, <2>4 DEF FlagBit
<1>4. QED
  BY <1>2, <1>3

\* The kernel finds the flags.
LEMMA FlagsFound == ASSUME TablesTypes PROVE FlagsAreFound
<1>1. SUFFICES ASSUME NEW c \in 0..(Cells - 1)
               PROVE  {f \in knownFlags : HasFlag(c, f)} = {f \in flagged[c] : FlagBit(f) < CharBits}
  BY DEF FlagsAreFound
<1>2. IsFiniteSet(knownFlags) /\ knownFlags \subseteq Nat /\ flagged[c] \subseteq knownFlags /\ CharBits \in Nat
  BY ScanAssumption DEF TablesTypes
<1>3. /\ \A f \in knownFlags : FlagBit(f) \in Nat /\ FlagBit(f) < Cardinality(knownFlags)
      /\ \A f, g \in knownFlags : f < g => FlagBit(f) < FlagBit(g)
  BY <1>2, BitsDiffer
<1>5. ASSUME NEW f \in knownFlags, NEW g \in knownFlags, FlagBit(f) = FlagBit(g) PROVE f = g
  <2>1. f \in Nat /\ g \in Nat /\ FlagBit(f) \in Nat /\ FlagBit(g) \in Nat
    BY <1>2, <1>3
  <2>2. ~(f < g) /\ ~(g < f)
    BY <1>3, <1>5, <2>1
  <2>3. QED
    BY <2>1, <2>2
<1>6. ASSUME NEW f \in knownFlags PROVE HasFlag(c, f) <=> f \in flagged[c] /\ FlagBit(f) < CharBits
  <2>1. FlagBit(f) \in Nat
    BY <1>3
  <2>2. FlagBit(f) \in 0..(CharBits - 1) <=> FlagBit(f) < CharBits
    BY <1>2, <2>1
  <2>3. HasFlag(c, f) <=> FlagBit(f) < CharBits /\ \E g \in flagged[c] : FlagBit(g) = FlagBit(f)
    BY <2>2 DEF HasFlag, FlagsByte
  <2>4. QED
    BY <1>2, <1>5, <2>3
<1>7. QED
  BY <1>2, <1>6

\* What the state of a compilation says of the run's property.
LEMMA ScanGives ==
  ASSUME ScanInv PROVE ScanTypeOK /\ TablesMatchFile /\ RefusedForALine /\ KeysAreFound /\ FlagsAreFound
<1>1. ScanTypeOK
  BY DEF ScanInv, TablesTypes, LineTypes, ScanTypeOK
<1>2. TablesMatchFile
  <2>1. SUFFICES ASSUME parse = "accepted", NEW m \in Modifiers, NEW c \in 0..(Cells - 1)
                 PROVE  tables[m][c] = Meaning(m, c)
    BY DEF TablesMatchFile
  <2>2. tables[m][c] = Told(toks, m, c, BreaksIn(toks) \ {0})
    BY <2>1 DEF ScanInv, TellsAll
  <2>3. QED
    BY <2>2, MeaningIs
<1>3. RefusedForALine
  BY FaultyIs DEF ScanInv
<1>4. FlagsAreFound
  BY FlagsFound DEF ScanInv
<1>5. QED
  BY <1>1, <1>2, <1>3, <1>4, KeysFound

\* From the files that are included to the look-up in the kernel: what the
\* last line about a key says is what the kernel finds; lex() and parse() refuse
\* only files that cannot be read or spliced, contradict themselves or give an
\* empty string, and packing fails only on a table without entry.
THEOREM ScanTablesStayExact == ScanSpec /\ LexSpec => []ScanTablesExact
<1>1. ScanInv /\ LexInv => ScanTablesExact
  BY ScanGives, LexGives, PackingIsExactAlways DEF ScanTablesExact
<1>2. QED
  BY <1>1, ScanReached, LexReached, PTL
=============================================================================
