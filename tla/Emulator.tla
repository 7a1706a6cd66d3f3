------------------------------ MODULE Emulator ------------------------------
(***************************************************************************)
(* scripts/run.py: one run of a kernel under an emulator.  Three parties    *)
(* work at once: the thread that runs Bochs.run() or Qemu.run(), the timer  *)
(* thread it starts, and the emulator, which writes the guest's serial      *)
(* output to one pty and answers "info registers" on another.  The emulator *)
(* and the user at stdin are external: they may do anything a process may.  *)
(*                                                                         *)
(* Output is counted, not spelled: serial.sent pieces were printed by the   *)
(* guest, of which serial.fifo are still inside the emulator, serial.pty    *)
(* wait in the pty and serial.out are in `out'.                             *)
(***************************************************************************)
EXTENDS Naturals, Sequences

CONSTANTS
  MaxSent,     \* pieces of output the guest prints at most
  PtyRoom,     \* pieces the pty holds
  MaxLag       \* pieces of monitor output that may wait to be read

ASSUME EmulatorAssumption ==
  MaxSent \in Nat /\ PtyRoom \in Nat \ {0} /\ MaxLag \in Nat \ {0}

VARIABLES
  model,       \* the class whose run() is at work, chosen by $MODEL
  timed,       \* is `timeout' neither None nor 0
  stdin,       \* what the user's end of stdin offers
  phase,       \* where run() is
  stop,        \* self.stop
  timer,       \* the threading.Timer t
  child,       \* the emulator process
  exit,        \* its exit code, once it has ended; "killed" is -9
  signalled,   \* has it been sent SIGINT (Qemu) or SIGTERM (Bochs)
  serial,      \* the guest's output, see above
  owed,        \* "info registers" commands not yet answered
  ready,       \* monitor output not yet read
  temps        \* the files of the run: the floppy image, Qemu's file of
               \* errors and Bochs's log, which is /tmp/x at every run

emVars == << model, timed, stdin, phase, stop, timer, child, exit, signalled,
             serial, owed, ready, temps >>

Alive == child \in {"booting", "running", "halted"}
Over  == phase \in {"done", "raised"}

(* A dump of the registers: interrupts on or off, halted or not.  A guest    *)
(* that is halted with interrupts on is woken by the next interrupt.         *)
Dumps == {"busy", "locked", "idle", "halted"}
InterruptsOff(dump) == dump \in {"locked", "halted"}
Halted(dump) == dump \in {"idle", "halted"}

EmTypeOK ==
  /\ model \in {"bochs", "qemu"} /\ timed \in BOOLEAN /\ stop \in BOOLEAN
  /\ stdin \in {"quiet", "eof", "typing"}
  /\ phase \in {"start", "spawn", "loop", "ask", "listen", "kill", "cancel",
                "drain", "wait", "verdict", "blocked", "done", "raised"}
  /\ timer \in {"none", "armed", "fired", "cancelled"}
  /\ child \in {"none", "booting", "running", "halted", "ended", "reaped"}
  /\ exit \in {"none", "ok", "signal", "killed", "crash"} /\ signalled \in BOOLEAN
  /\ serial \in [sent : 0..MaxSent, fifo : 0..MaxSent, pty : 0..PtyRoom,
                 out : 0..MaxSent, reached : 0..MaxSent]
  /\ owed \in 0..MaxLag /\ ready \in Seq({"echo"} \cup Dumps)
  /\ Len(ready) <= MaxLag
  /\ temps \subseteq {"image", "errors", "log"}

(* Runner.__init__() has made the temporary floppy image; --keep-temps, with *)
(* which it stays, is not used.                                              *)
EmInit ==
  /\ model \in {"bochs", "qemu"} /\ timed \in BOOLEAN
  /\ stdin \in {"quiet", "eof", "typing"}
  /\ phase = "start" /\ stop = FALSE /\ timer = "none"
  /\ child = "none" /\ exit = "none" /\ signalled = FALSE
  /\ serial = [sent |-> 0, fifo |-> 0, pty |-> 0, out |-> 0, reached |-> 0]
  /\ owed = 0 /\ ready = << >> /\ temps = {"image"}

-----------------------------------------------------------------------------
(* The thread in run() *)

StartTimer ==
  /\ phase = "start"
  /\ timer' = IF timed THEN "armed" ELSE "none"
  /\ phase' = "spawn"
  /\ UNCHANGED << model, timed, stdin, stop, child, exit, signalled, serial,
                  owed, ready, temps >>

(* Popen(), after the file of the emulator's own output is made; the guest   *)
(* of Qemu, started with -S, is let go by "c".                               *)
Spawn ==
  /\ phase = "spawn"
  /\ child' = "booting"
  /\ temps' = temps \cup (IF model = "qemu" THEN {"errors"} ELSE {"log"})
  /\ phase' = "loop"
  /\ UNCHANGED << model, timed, stdin, stop, timer, exit, signalled, serial,
                  owed, ready >>

TakeSerial(s) == [s EXCEPT !.out = @ + s.pty, !.pty = 0]

(* The test at the head of the loop. *)
LeaveLoop ==
  /\ phase = "loop" /\ stop
  /\ phase' = "kill"
  /\ UNCHANGED << model, timed, stdin, stop, timer, child, exit, signalled,
                  serial, owed, ready, temps >>

(* Bochs: select() and os.read(), which takes what there is. *)
BochsRound ==
  /\ phase = "loop" /\ ~stop /\ model = "bochs"
  /\ serial' = TakeSerial(serial)
  /\ UNCHANGED << model, timed, stdin, phase, stop, timer, child, exit,
                  signalled, owed, ready, temps >>

(* Qemu: poll().  At a hang-up stdin is unregistered; sys.stdin.read(128)    *)
(* returns at once only when 128 characters or the end of the file are       *)
(* there, so a user who has typed less holds the thread.                     *)
QemuRound ==
  /\ phase = "loop" /\ ~stop /\ model = "qemu"
  /\ IF stdin = "typing"
     THEN phase' = "blocked" /\ UNCHANGED << serial, stdin >>
     ELSE /\ phase' = "ask"
          /\ serial' = TakeSerial(serial)
          /\ stdin' \in IF stdin = "eof" THEN {"eof", "quiet"} ELSE {stdin}
  /\ UNCHANGED << model, timed, stop, timer, child, exit, signalled, owed,
                  ready, temps >>

(* External: the user completes the 128 characters or closes stdin. *)
Unblock ==
  /\ phase = "blocked"
  /\ phase' = "ask" /\ stdin' \in {"quiet", "eof"}
  /\ serial' = TakeSerial(serial)
  /\ UNCHANGED << model, timed, stop, timer, child, exit, signalled, owed,
                  ready, temps >>

(* _check_finished(), first half: the command is written; MaxLag bounds the  *)
(* commands the model remembers.                                             *)
AskRegisters ==
  /\ phase = "ask"
  /\ owed' = (IF owed < MaxLag THEN owed + 1 ELSE owed)
  /\ phase' = "listen"
  /\ UNCHANGED << model, timed, stdin, stop, timer, child, exit, signalled,
                  serial, ready, temps >>

(* Two searches of one text: the first EFL= must say that interrupts are     *)
(* off, and HLT=1 may stand anywhere.  A dump arrives whole.                 *)
SaysHalted(text) ==
  /\ \E i \in DOMAIN text : /\ InterruptsOff(text[i])
                            /\ \A j \in 1..(i - 1) : text[j] \notin Dumps
  /\ \E i \in DOMAIN text : text[i] \in Dumps /\ Halted(text[i])

(* _check_finished(), second half: it takes what the monitor has said so far *)
(* as the answer, and silence for 0.05 s as the end of the emulator.         *)
HearMonitor ==
  /\ phase = "listen"
  /\ phase' = IF ready = << >> \/ SaysHalted(ready) THEN "kill" ELSE "loop"
  /\ ready' = << >>
  /\ UNCHANGED << model, timed, stdin, stop, timer, child, exit, signalled,
                  serial, owed, temps >>

AfterKill == IF model = "qemu" THEN "cancel" ELSE "drain"
AfterReap == IF model = "qemu" THEN "verdict" ELSE "cancel"

(* send_signal(); what is in the pty now must come back from run(). *)
Kill ==
  /\ phase = "kill"
  /\ signalled' = TRUE
  /\ serial' = [serial EXCEPT !.reached = serial.out + serial.pty]
  /\ phase' = AfterKill
  /\ UNCHANGED << model, timed, stdin, stop, timer, child, exit, owed, ready,
                  temps >>

(* t.cancel(): without a timeout there is no t, and the statement raises.    *)
(* Qemu.run() does this before the output is drained, Bochs.run() last.      *)
CancelTimer ==
  /\ phase = "cancel"
  /\ timer' = IF timer = "armed" THEN "cancelled" ELSE timer
  /\ phase' = IF ~timed THEN "raised"
              ELSE IF model = "qemu" THEN "drain" ELSE "verdict"
  /\ UNCHANGED << model, timed, stdin, stop, child, exit, signalled, serial,
                  owed, ready, temps >>

Drain ==
  /\ phase = "drain" /\ serial.pty > 0
  /\ serial' = TakeSerial(serial)
  /\ UNCHANGED << model, timed, stdin, phase, stop, timer, child, exit,
                  signalled, owed, ready, temps >>

DrainOnce ==                           \* mutant: one read, whatever is left
  /\ phase = "drain"
  /\ phase' = "wait"
  /\ UNCHANGED << model, timed, stdin, stop, timer, child, exit, signalled,
                  serial, owed, ready, temps >>

(* Nothing came for 0.05 s. *)
DrainSilent ==
  /\ phase = "drain" /\ serial.pty = 0
  /\ phase' = "wait"
  /\ UNCHANGED << model, timed, stdin, stop, timer, child, exit, signalled,
                  serial, owed, ready, temps >>

Reap ==
  /\ phase = "wait" /\ child = "ended"
  /\ child' = "reaped"
  /\ phase' = AfterReap
  /\ UNCHANGED << model, timed, stdin, stop, timer, exit, signalled, serial,
                  owed, ready, temps >>

(* Qemu.run() raises for a bad exit code, unless the timer has fired; its    *)
(* file of errors and the floppy image of Runner.run() then stay behind.     *)
BadExit == exit \notin {"ok", "killed"}

Verdict ==
  /\ phase = "verdict"
  /\ IF model = "qemu" /\ BadExit /\ ~stop
     THEN phase' = "raised" /\ UNCHANGED temps
     ELSE phase' = "done" /\ temps' = temps \ {"image", "errors"}
  /\ UNCHANGED << model, timed, stdin, stop, timer, child, exit, signalled,
                  serial, owed, ready >>

-----------------------------------------------------------------------------
AlarmSignals == model = "bochs" /\ child # "none"

AlarmInTry ==                          \* mutant: self.stop is set inside the try
  /\ timer = "armed"
  /\ timer' = "fired"
  /\ stop' = (model = "qemu" \/ child # "none")
  /\ signalled' = (signalled \/ AlarmSignals)
  /\ UNCHANGED << model, timed, stdin, phase, child, exit, serial, owed, ready,
                  temps >>

(* The timer thread.  Bochs' _alarm() also signals the child, and swallows   *)
(* the NameError of a child that has not been spawned yet.                   *)
Alarm ==
  /\ timer = "armed"
  /\ timer' = "fired" /\ stop' = TRUE
  /\ signalled' = (signalled \/ AlarmSignals)
  /\ UNCHANGED << model, timed, stdin, phase, child, exit, serial, owed, ready,
                  temps >>

-----------------------------------------------------------------------------
(* The emulator, external. *)

EmuUnchanged == UNCHANGED << model, timed, stdin, phase, stop, timer,
                             signalled, temps >>

Boot ==
  /\ child = "booting" /\ ~signalled
  /\ child' = "running"
  /\ EmuUnchanged /\ UNCHANGED << exit, serial, owed, ready >>

GuestPrints ==
  /\ child = "running" /\ serial.sent < MaxSent
  /\ serial' = [serial EXCEPT !.sent = @ + 1, !.fifo = @ + 1]
  /\ EmuUnchanged /\ UNCHANGED << child, exit, owed, ready >>

(* The kernel halts with interrupts off, after which it does nothing; until  *)
(* then it may have them off, or halt with them on, at any time.             *)
GuestHalts ==
  /\ child = "running"
  /\ child' = "halted"
  /\ EmuUnchanged /\ UNCHANGED << exit, serial, owed, ready >>

Flush ==
  /\ Alive /\ serial.fifo > 0 /\ serial.pty < PtyRoom
  /\ serial' = [serial EXCEPT !.fifo = @ - 1, !.pty = @ + 1]
  /\ EmuUnchanged /\ UNCHANGED << child, exit, owed, ready >>

(* The monitor's echo of a command may arrive before the dump. *)
MonitorEchoes ==
  /\ child \in {"running", "halted"} /\ owed > 0 /\ ready = << >>
  /\ ready' = << "echo" >>
  /\ EmuUnchanged /\ UNCHANGED << child, exit, serial, owed >>

MonitorDumps ==
  /\ child \in {"running", "halted"} /\ owed > 0 /\ Len(ready) < MaxLag
  /\ \E d \in (IF child = "halted" THEN {"halted"} ELSE Dumps \ {"halted"}) :
       ready' = Append(ready, d)
  /\ owed' = owed - 1
  /\ EmuUnchanged /\ UNCHANGED << child, exit, serial >>

(* The end of the process takes what it had not written with it. *)
Ends(code) ==
  /\ child' = "ended" /\ exit' = code
  /\ serial' = [serial EXCEPT !.fifo = 0]
  /\ EmuUnchanged /\ UNCHANGED << owed, ready >>

EmuCrashes == Alive /\ ~signalled /\ Ends("crash")

(* Somebody else kills it. *)
EmuKilled == Alive /\ Ends("killed")

(* A signal that comes before the handler is installed kills it. *)
EmuDies == Alive /\ signalled /\ Ends(IF child = "booting" THEN "signal" ELSE "ok")

-----------------------------------------------------------------------------
RunStep == \/ StartTimer \/ Spawn \/ LeaveLoop \/ BochsRound \/ QemuRound
           \/ AskRegisters \/ HearMonitor \/ Kill \/ CancelTimer \/ Drain
           \/ DrainSilent \/ Reap \/ Verdict

EmNext ==
  \/ RunStep \/ Alarm \/ Unblock \/ Boot \/ GuestPrints \/ GuestHalts \/ Flush
  \/ MonitorEchoes \/ MonitorDumps \/ EmuCrashes \/ EmuKilled
  \/ EmuDies

(* The thread in run() and the timer are scheduled by the host; a signalled  *)
(* emulator is assumed to end, and a live one to answer its monitor.         *)
EmFairness == /\ WF_emVars(RunStep) /\ WF_emVars(Alarm)
              /\ WF_emVars(EmuDies) /\ WF_emVars(MonitorDumps)

EmSpec == EmInit /\ [][EmNext]_emVars /\ EmFairness

-----------------------------------------------------------------------------
(* Everything the guest's output had brought as far as the pty when the      *)
(* emulator was signalled is in the text run() returns, whoever ended the    *)
(* run: the drain loop of Qemu.run() and of Bochs.run() misses none of it.   *)
ReachedIsReturned == phase = "done" => serial.out >= serial.reached

(* A crash of Qemu is reported as an exception, unless the timer fired       *)
(* before it was cancelled; in particular a late alarm after the loop was    *)
(* left is the only other way for Qemu.run() to return after a crash.  (The  *)
(* death by SIGKILL is not: the code takes -9 for a good end.)               *)
CrashIsReported ==
  phase = "done" /\ model = "qemu" /\ exit = "crash" => timer = "fired"

(* What a run leaves behind, whichever way out it takes.  No timer could     *)
(* still fire at the next run.  One that returns has reaped the emulator and *)
(* leaves no file but Bochs's log, which nobody removes and the next run     *)
(* overwrites.  One that raises leaves all its files, and Qemu unreaped if   *)
(* it is the missing timer that raised, before the wait().                   *)
LeavesBehind ==
  Over =>
    /\ timer # "armed"
    /\ child # "reaped" => phase = "raised" /\ model = "qemu" /\ ~timed
    /\ temps = {f \in {"image", "errors", "log"} :
                  /\ f # (IF model = "bochs" THEN "errors" ELSE "log")
                  /\ phase = "raised" \/ f = "log"}

(* A run the timer has ended never raises, whatever the exit code: raising   *)
(* is left to crashes before the alarm and to the unbound t of a run without *)
(* a timeout.                                                                *)
TimedOutNeverRaises == phase = "raised" => timer # "fired"

(* The answer of _check_finished() may be late or cut short, and is wrong in *)
(* one case only.  If the loop ends on something the monitor said, the guest *)
(* has halted with interrupts off, or the emulator has ended since; or an    *)
(* answer came late and two dumps were read together, of which the first is  *)
(* of a guest at work with interrupts off and a later one of one that waits  *)
(* for an interrupt.                                                         *)
TwoMixed(text) ==
  \E i, j \in DOMAIN text : i < j /\ text[i] = "locked" /\ text[j] = "idle"

HaltIsReal ==
  [][phase = "listen" /\ phase' = "kill" /\ ready # << >> /\ ~TwoMixed(ready)
       => child \notin {"none", "booting", "running"}]_emVars

(* Once the timer has fired run() ends, unless a half-typed line of stdin    *)
(* holds the thread in sys.stdin.read(128).                                  *)
TimeoutEndsRun == timer = "fired" ~> Over \/ phase = "blocked"

(* A kernel that halts ends the run under Qemu before any timeout.           *)
HaltEndsRun == (model = "qemu" /\ child = "halted") ~> Over \/ phase = "blocked"

(* Whoever ends a run, and whenever, run() reports what happened, as far as  *)
(* it had reached the pty, and leaves behind what LeavesBehind says.         *)
RunReports ==
  /\ EmTypeOK /\ ReachedIsReturned /\ CrashIsReported
  /\ LeavesBehind /\ TimedOutNeverRaises

(* A run ends when it is to end, and on a guest that still runs only in the  *)
(* case HaltIsReal names.  An emulator that neither answers its monitor nor  *)
(* heeds the signal is beyond this: wait() would then never return.          *)
RunEnds == TimeoutEndsRun /\ HaltEndsRun /\ HaltIsReal
=============================================================================
