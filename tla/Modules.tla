------------------------------- MODULE Modules -------------------------------
(***************************************************************************)
(* main.c: how main() starts and stops the modules.  init_module() and     *)
(* fini_module() recurse over the lists of prerequisites; 'calls' is the   *)
(* stack of the calls that have not returned, each with the number of      *)
(* prerequisites it has gone through.                                      *)
(*                                                                         *)
(* A module is its place in the linker's section.  A name that no module   *)
(* has, whose prereq_t.module is NULL, is Missing.                         *)
(***************************************************************************)
EXTENDS Naturals, Sequences, SequencesExt

CONSTANTS
  NumModules,
  Missing,
  RequiredLists,    \* the values of module_t.required
  LoadAfterLists,   \* the values of module_t.load_after
  Consoles,         \* what find_module("console") may return
  Tests             \* the values of test_module

Mods == 1 .. NumModules

ASSUME ModulesAssumption ==
  /\ NumModules \in Nat /\ Missing \notin Mods
  /\ RequiredLists \cup LoadAfterLists \subseteq Seq(Mods \cup {Missing})
  /\ Consoles \cup Tests \subseteq Mods \cup {Missing}

VARIABLES
  required, load_after, console, test_module,    \* the linked image
  phase,      \* where main() is: "console", "test", "init", "kmain", "fini", "done"; or "panic"
  nextModule, \* the loop variable m of main()
  mstate,     \* module_t.state: "resolved", "init" or "fini"
  calls,
  started,    \* the modules whose init() has run, in order
  stopped     \* the modules whose fini() has run, in order

image == << required, load_after, console, test_module >>
modVars == << required, load_after, console, test_module, phase, nextModule,
              mstate, calls, started, stopped >>

ModInit ==
  /\ required \in [Mods -> RequiredLists]
  /\ load_after \in [Mods -> LoadAfterLists]
  /\ console \in Consoles /\ test_module \in Tests
  /\ phase = "console" /\ nextModule = 1
  /\ mstate = [m \in Mods |-> "resolved"]
  /\ calls = << >> /\ started = << >> /\ stopped = << >>

Prereqs(m) == required[m] \o load_after[m]
Stopping == phase = "fini"

(* The test at the top of init_module() and of fini_module(). *)
ReturnsAtOnce(m) == IF Stopping THEN mstate[m] # "init" ELSE mstate[m] # "resolved"

EnterMarksLater(m, below) ==            \* mutant: the state is set after the prerequisites
  /\ calls' = IF ReturnsAtOnce(m) THEN below ELSE Append(below, [m |-> m, done |-> 0])
  /\ UNCHANGED mstate
(* The call of init_module(m) or fini_module(m): the state is set before     *)
(* the prerequisites are visited.                                            *)
Enter(m, below) ==
  IF ReturnsAtOnce(m)
  THEN calls' = below /\ UNCHANGED mstate
  ELSE /\ calls' = Append(below, [m |-> m, done |-> 0])
       /\ mstate' = [mstate EXCEPT ![m] = IF Stopping THEN "fini" ELSE "init"]

-----------------------------------------------------------------------------
TopCall == calls[Len(calls)]
NextPrereq == Prereqs(TopCall.m)[TopCall.done + 1]
IsHard == TopCall.done < Len(required[TopCall.m])
Advanced == [calls EXCEPT ![Len(calls)].done = @ + 1]

VisitStays ==                 \* mutant: the loop goes on to the next only after a real call
  /\ calls # << >> /\ TopCall.done < Len(Prereqs(TopCall.m)) /\ NextPrereq # Missing
  /\ IF ReturnsAtOnce(NextPrereq) THEN UNCHANGED << calls, mstate >> ELSE Enter(NextPrereq, Advanced)
  /\ UNCHANGED << image, phase, nextModule, started, stopped >>
(* A prerequisite that exists is initialised, or finalised, first. *)
VisitPrereq ==
  /\ calls # << >> /\ TopCall.done < Len(Prereqs(TopCall.m)) /\ NextPrereq # Missing
  /\ Enter(NextPrereq, Advanced)
  /\ UNCHANGED << image, phase, nextModule, started, stopped >>

SkipMissing ==
  /\ calls # << >> /\ TopCall.done < Len(Prereqs(TopCall.m)) /\ NextPrereq = Missing
  /\ ~IsHard
  /\ calls' = Advanced
  /\ UNCHANGED << image, phase, nextModule, mstate, started, stopped >>

(* earlypanic("Module not found: ") does not return. *)
Panic ==
  /\ calls # << >> /\ TopCall.done < Len(Prereqs(TopCall.m)) /\ NextPrereq = Missing
  /\ IsHard
  /\ phase' = "panic"
  /\ UNCHANGED << image, nextModule, mstate, calls, started, stopped >>

(* m->init() or m->fini(), and the call returns. *)
RunFunction ==
  /\ calls # << >> /\ TopCall.done = Len(Prereqs(TopCall.m))
  /\ phase # "panic"
  /\ calls' = Front(calls)
  /\ IF Stopping
     THEN stopped' = Append(stopped, TopCall.m) /\ UNCHANGED started
     ELSE started' = Append(started, TopCall.m) /\ UNCHANGED stopped
  /\ UNCHANGED << image, phase, nextModule, mstate >>

-----------------------------------------------------------------------------
(* The console is initialised before the rest, if there is one. *)
StartConsole ==
  /\ phase = "console"
  /\ phase' = IF test_module = Missing THEN "init" ELSE "test"
  /\ IF console = Missing THEN UNCHANGED << calls, mstate >> ELSE Enter(console, << >>)
  /\ UNCHANGED << image, nextModule, started, stopped >>

(* In a test, the test module and what it needs; main() then goes on to the  *)
(* finalisation without kmain().                                             *)
StartTest ==
  /\ phase = "test" /\ calls = << >> /\ nextModule = 1
  /\ nextModule' = 2
  /\ Enter(test_module, << >>)
  /\ UNCHANGED << image, phase, started, stopped >>
TestReturns ==
  /\ phase = "test" /\ calls = << >> /\ nextModule = 2
  /\ phase' = "fini" /\ nextModule' = 1
  /\ UNCHANGED << image, mstate, calls, started, stopped >>

NextInLoop ==
  /\ phase \in {"init", "fini"} /\ calls = << >> /\ nextModule <= NumModules
  /\ nextModule' = nextModule + 1
  /\ Enter(nextModule, << >>)
  /\ UNCHANGED << image, phase, started, stopped >>
LoopEnds ==
  /\ phase \in {"init", "fini"} /\ calls = << >> /\ nextModule > NumModules
  /\ phase' = IF Stopping THEN "done" ELSE "kmain"
  /\ nextModule' = 1
  /\ UNCHANGED << image, mstate, calls, started, stopped >>

(* kmain() is the kernel's own; it need not return. *)
KmainReturns ==
  /\ phase = "kmain" /\ phase' = "fini"
  /\ UNCHANGED << image, nextModule, mstate, calls, started, stopped >>

LoaderStep ==
  \/ phase # "panic" /\ (VisitPrereq \/ SkipMissing \/ Panic \/ RunFunction)
  \/ StartConsole \/ StartTest \/ TestReturns \/ NextInLoop \/ LoopEnds
ModNext == LoaderStep \/ KmainReturns
ModSpec == ModInit /\ [][ModNext]_modVars
ModFairness == WF_modVars(LoaderStep)

-----------------------------------------------------------------------------
Exists(m) == { p \in ToSet(Prereqs(m)) : p # Missing }
(* The modules that m depends on, directly or not: the smallest set with its *)
(* prerequisites and theirs.                                                 *)
DependsOn(m) ==
  { p \in Mods : \A S \in SUBSET Mods :
      Exists(m) \subseteq S /\ (\A q \in S : Exists(q) \subseteq S) => p \in S }
Before(s, p, m) == \E i, j \in DOMAIN s : s[i] = p /\ s[j] = m /\ i < j

(* init() runs at most once for a module, and after the init() of every      *)
(* prerequisite, hard or soft and linked in, that does not itself depend on  *)
(* the module: a cycle is broken, and spoils the order of nobody outside it. *)
StartedAfterPrereqs ==
  /\ IsInjective(started)
  /\ \A m \in ToSet(started) : \A p \in Exists(m) :
       m \notin DependsOn(p) => Before(started, p, m)

(* fini() runs only for modules whose init() has run, once, and also after   *)
(* the fini() of the module's prerequisites: they are stopped before the     *)
(* modules that use them.                                                    *)
StoppedLikeStarted ==
  /\ IsInjective(stopped) /\ ToSet(stopped) \subseteq ToSet(started)
  /\ \A m \in ToSet(stopped) : \A p \in Exists(m) :
       m \notin DependsOn(p) => Before(stopped, p, m)
  /\ phase = "done" => ToSet(stopped) = ToSet(started)

(* kmain() runs with every module started; a test runs with the modules it   *)
(* and the console need, and no others; and a panic means that a module that *)
(* was to be started requires one that is not linked in.                     *)
Roots == ({console} \cup (IF test_module = Missing THEN Mods ELSE {test_module})) \ {Missing}
Needed == Roots \cup UNION { DependsOn(m) : m \in Roots }
RightModulesRun ==
  /\ phase \in {"kmain", "done"} =>
       /\ ToSet(started) = Needed
       /\ \A m \in Needed : Missing \notin ToSet(required[m])
  /\ ToSet(started) \subseteq Needed
  /\ phase = "panic" => \E m \in Needed : Missing \in ToSet(required[m])

(* Whatever the lists, cycles included, starting up ends: main() reaches     *)
(* kmain() or the end of a test, or panics; and so does shutting down.       *)
LoaderEnds == (phase \notin {"kmain", "done", "panic"}) ~> (phase \in {"kmain", "done", "panic"})

(* main() starts what is needed and nothing else, every module after its     *)
(* prerequisites, and stops what it has started in the same order.           *)
ModulesInOrder == StartedAfterPrereqs /\ StoppedLikeStarted /\ RightModulesRun
=============================================================================
