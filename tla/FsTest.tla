------------------------------- MODULE FsTest -------------------------------
(***************************************************************************)
(* scripts/fstest.py: fills a FAT image through the native file system      *)
(* while recording what it made, then checks that the native system and the *)
(* kernel's own driver (the program fstest) see the same in it.             *)
(*                                                                         *)
(* The loop device and the mount are driven by commands that may fail, each *)
(* an exception.  Paths are sequences of names; the nodes of the Model      *)
(* class and the files on the image are functions from paths to <<"dir">>   *)
(* or <<"file", content>>.                                                  *)
(***************************************************************************)
EXTENDS Integers, Sequences, SequencesExt, FiniteSets

CONSTANTS
  RandNames,     \* names that _randstr() may give
  Contents,      \* contents of files
  MaxMade,       \* bound: nodes that the Model makes (131 in the code)
  MaxFaults      \* bound: commands that fail

ASSUME FsTestAssumption == MaxMade \in Nat /\ MaxFaults \in Nat

VARIABLES
  loop,       \* /dev/loop0 is attached to the image
  mounted,    \* the image is mounted
  disk,       \* what is on the image
  tree,       \* Model: the nodes made
  driver,     \* what the kernel's driver sees on the image
  fsPc,       \* see FsSteps
  toWalk,     \* nodes that walk() has still to visit
  fsError,    \* an exception is on its way
  faults,     \* commands that have failed
  setupFault  \* the command of start() or stop() that has failed, or "none"

fsVars == << loop, mounted, disk, tree, driver, fsPc, toWalk, fsError, faults, setupFault >>

FsSteps == {"mkimg", "start", "make", "stop", "walk", "checkStop", "passed", "failed"}

TopLevel == << >>
NoNodes == [p \in {TopLevel} |-> << "dir" >>]
IsDir(f, p) == p \in DOMAIN f /\ f[p] = << "dir" >>
PutNode(f, p, v) == [q \in DOMAIN f \cup {p} |-> IF q = p THEN v ELSE f[q]]
Children(f, p) == {q \in DOMAIN f : q # TopLevel /\ Front(q) = p}

FsInit ==
  /\ loop = FALSE /\ mounted = FALSE
  /\ disk = NoNodes /\ tree = NoNodes /\ driver = NoNodes
  /\ fsPc = "mkimg" /\ toWalk = {} /\ fsError = FALSE /\ faults = 0 /\ setupFault = "none"

-----------------------------------------------------------------------------
(* MountMutator: the outcome of two commands, of which the second is not run *)
(* when the first fails.                                                     *)
StartOutcomes == IF faults < MaxFaults THEN {"done", "losetup", "mount"} ELSE {"done"}
StopOutcomes  == IF faults < MaxFaults THEN {"done", "umount", "detach"} ELSE {"done"}

MountStart(o) ==
  /\ loop' = (loop \/ o # "losetup")
  /\ mounted' = (mounted \/ o = "done")

MountStop(o) ==
  /\ mounted' = (o = "umount")
  /\ loop' = (o # "done")

Counted(o) ==
  /\ faults' = IF o = "done" THEN faults ELSE faults + 1
  /\ setupFault' = IF o = "done" THEN setupFault ELSE o

(* The image must not exist yet and mkdosfs must make it. *)
MkImg ==
  /\ fsPc = "mkimg"
  /\ fsPc' \in {"start", "failed"}
  /\ UNCHANGED << loop, mounted, disk, tree, driver, toWalk, fsError, faults, setupFault >>

(* m.start(), outside the try *)
StartFilling ==
  /\ fsPc = "start"
  /\ \E o \in StartOutcomes :
       /\ MountStart(o) /\ Counted(o)
       /\ fsPc' = IF o = "done" THEN "make" ELSE "failed"
  /\ UNCHANGED << disk, tree, driver, toWalk, fsError >>

-----------------------------------------------------------------------------
(* What a refused or failing write leaves of p: open() may have emptied it. *)
Spoilt(p) == {disk} \cup (IF IsDir(disk, p) THEN {} ELSE {PutNode(disk, p, << "file", "part" >>)})

(* Mutant: an exception does not pass through stop(). *)
RaiseWithoutStop(p, v, ok) ==
  /\ IF ok THEN disk' = PutNode(disk, p, v) /\ tree' = PutNode(tree, p, v)
           ELSE UNCHANGED << disk, tree >>
  /\ fsError' = ~ok
  /\ fsPc' = IF ok THEN fsPc ELSE "failed"

(* The file system first, then the node: an exception comes between. *)
WriteThenRecord(p, v, ok) ==
  /\ IF ok THEN disk' = PutNode(disk, p, v) /\ tree' = PutNode(tree, p, v)
           ELSE disk' \in (IF v = << "dir" >> THEN {disk} ELSE Spoilt(p)) /\ UNCHANGED tree
  /\ fsError' = ~ok
  /\ fsPc' = IF ok THEN fsPc ELSE "stop"

MakeNode(p, v, refused) ==
  /\ fsPc = "make" /\ Cardinality(DOMAIN tree) <= MaxMade
  /\ \E ok \in BOOLEAN :
       /\ ok => ~refused
       /\ ok \/ refused \/ faults < MaxFaults
       /\ WriteThenRecord(p, v, ok)
       /\ faults' = IF ok \/ refused THEN faults ELSE faults + 1
  /\ UNCHANGED << loop, mounted, driver, toWalk, setupFault >>

(* make_file(): a random name may be taken.  open() replaces a file and      *)
(* refuses a directory.                                                      *)
MakeFile(d, n, c) ==
  /\ d # TopLevel /\ IsDir(tree, d)
  /\ MakeNode(Append(d, n), << "file", c >>, IsDir(disk, Append(d, n)))

(* make_dir(): os.mkdir() refuses a name that is taken. *)
MakeDir(d, n) ==
  /\ IsDir(tree, d)
  /\ MakeNode(Append(d, n), << "dir" >>, Append(d, n) \in DOMAIN disk)

MadeAll ==
  /\ fsPc = "make" /\ fsPc' = "stop"
  /\ UNCHANGED << loop, mounted, disk, tree, driver, toWalk, fsError, faults, setupFault >>

(* finally: m.stop().  What the driver will see is up to it: here the image, *)
(* or the image with one node missing or with another content.               *)
Views == {disk} \cup {[q \in DOMAIN disk \ {p} |-> disk[q]] : p \in {x \in DOMAIN disk \ {TopLevel} : Children(disk, x) = {}}}
                \cup {[disk EXCEPT ![p] = << "file", "bad" >>] : p \in {x \in DOMAIN disk : ~IsDir(disk, x)}}

Stop ==
  /\ fsPc = "stop"
  /\ \E o \in StopOutcomes :
       /\ MountStop(o) /\ Counted(o)
       /\ fsPc' = IF o # "done" \/ fsError THEN "failed" ELSE "walk"
  /\ driver' \in Views
  /\ toWalk' = {TopLevel}
  /\ UNCHANGED << disk, tree, fsError >>

-----------------------------------------------------------------------------

(* walk() goes from a directory to its children. *)
WalkInto(p) == IF IsDir(tree, p) THEN Children(tree, p) ELSE {}

(* CrossChecker.stat(), listdir() and read(): both sides must answer, and    *)
(* alike.  stat() of the driver lists the directory that holds p.            *)
StatSame(p) == p \in DOMAIN disk /\ p \in DOMAIN driver /\ IsDir(disk, p) = IsDir(driver, p)
ListdirSame(p) == Children(disk, p) = Children(driver, p)
ReadSame(p) == disk[p] = driver[p]

CrossChecked(p) ==
  /\ StatSame(p)
  /\ IF IsDir(tree, p) THEN ListdirSame(p) ELSE ReadSame(p)

(* _walk(): nothing is done for the top level.  ccm.start() is outside the   *)
(* try; the driver's start() and stop() do nothing.                          *)
WalkNode(p) ==
  /\ fsPc = "walk" /\ p \in toWalk
  /\ toWalk' = (toWalk \ {p}) \cup WalkInto(p)
  /\ IF p = TopLevel
       THEN UNCHANGED << loop, mounted, faults, setupFault, fsPc, fsError >>
       ELSE \E o \in StartOutcomes :
              /\ MountStart(o) /\ Counted(o)
              /\ fsPc' = IF o = "done" THEN "checkStop" ELSE "failed"
              /\ fsError' = (o = "done" /\ ~CrossChecked(p))
  /\ UNCHANGED << disk, tree, driver >>

VisitStop ==
  /\ fsPc = "checkStop"
  /\ \E o \in StopOutcomes :
       /\ MountStop(o) /\ Counted(o)
       /\ fsPc' = IF o # "done" \/ fsError THEN "failed" ELSE "walk"
  /\ UNCHANGED << disk, tree, driver, toWalk, fsError >>

Passed ==
  /\ fsPc = "walk" /\ toWalk = {}
  /\ fsPc' = "passed"
  /\ UNCHANGED << loop, mounted, disk, tree, driver, toWalk, fsError, faults, setupFault >>

FsNext ==
  \/ MkImg \/ StartFilling
  \/ \E d \in DOMAIN tree, n \in RandNames : MakeDir(d, n) \/ \E c \in Contents : MakeFile(d, n, c)
  \/ MadeAll \/ Stop
  \/ \E p \in toWalk : WalkNode(p)
  \/ VisitStop \/ Passed

FsSpec == FsInit /\ [][FsNext]_fsVars

-----------------------------------------------------------------------------
(* The record of what was made is true of the image as long as nothing has   *)
(* been raised, names that come twice included.                              *)
TreeIsOnDisk == ~fsError => \A p \in DOMAIN tree : p \in DOMAIN disk /\ disk[p] = tree[p]

(* A test that passes has found every node that was made the same on both    *)
(* sides.                                                                    *)
PassedMeansSame ==
  fsPc = "passed" => \A p \in DOMAIN tree : p \in DOMAIN driver /\ driver[p] = disk[p]

(* However the test ends, by a write or a comparison that fails included,    *)
(* the image is unmounted and the loop device free, but for what a failing   *)
(* command of start() or stop() leaves: nobody calls stop() after a failed   *)
(* start(), so a mount that fails leaves the loop device attached, and a     *)
(* umount that fails skips the command behind it.                            *)
LeftMounted ==
  fsPc \in {"passed", "failed"} =>
    /\ mounted <=> setupFault = "umount"
    /\ loop <=> setupFault \in {"mount", "umount", "detach"}

(* The verdict of the test is about the image it made, and it leaves the     *)
(* host as it was, up to the commands that mount and unmount (LeftMounted).  *)
FsTestSound == TreeIsOnDisk /\ PassedMeansSame /\ LeftMounted
=============================================================================
