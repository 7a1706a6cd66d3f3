------------------------------ MODULE Keyboard ------------------------------
(***************************************************************************)
(* x86/keyboard.c over adt/ringbuf.c.  A scan code waits at the controller    *)
(* until one of two takes it: the interrupt's handler, which puts its string *)
(* into the ring, or read(), when the ring is empty.  read() is called by    *)
(* read_console() alone, inside a spinlock, so with interrupts off: the      *)
(* handler runs only between two calls of read_console(), but a request for  *)
(* it made meanwhile stays latched, and comes although read() took the code. *)
(*                                                                         *)
(* Characters are numbered in the order they are typed.  'lost' says that    *)
(* the writer has caught up with the reader: the ring then looks empty.      *)
(***************************************************************************)
EXTENDS Integers, Sequences

CONSTANTS
  Length,      \* buffer_length, KB_BUFSZ
  KeyStrings,  \* lengths of process_scancode()'s strings, 0 for NULL
  Wanted,      \* values of read()'s len
  MaxTyped     \* bound: characters typed

ASSUME KeyboardAssumption ==
  /\ Length \in Nat \ {0} /\ MaxTyped \in Nat
  /\ KeyStrings \subseteq Nat /\ Wanted \subseteq Nat \ {0}

VARIABLES
  ring,      \* the buffer
  bufStart,  \* buffer_start - buffer, buffer_length for a moment
  bufEnd,    \* buffer_end - buffer
  ready,     \* KB_READY_BIT: a scan code waits at the controller
  code,      \* the length of its string
  irq,       \* the interrupt is requested and not taken yet
  handling,  \* the handler is in get_scancode_block()
  typed,     \* characters typed so far
  heard,     \* characters read, in the order read() stored them
  reader,    \* where read() is, "empty" when it returned 0, "idle" outside read_console()
  polled,    \* read() is in its second char_ringbuf_read()
  taken,     \* n
  len,       \* read()'s argument
  lost

ringVars == << ring, bufStart, bufEnd, lost >>
portVars == << ready, code, irq, handling, typed >>
readVars == << heard, reader, polled, taken, len >>
kbVars == << ringVars, portVars, readVars >>

KbInit ==
  /\ ring = [i \in 0 .. Length - 1 |-> 0] /\ bufStart = 0 /\ bufEnd = 0 /\ lost = FALSE
  /\ ready = FALSE /\ code = 0 /\ irq = FALSE /\ handling = FALSE /\ typed = 0
  /\ heard = << >> /\ reader = "idle" /\ polled = FALSE /\ taken = 0 /\ len = 0

Wrap(i) == IF i >= Length THEN i - Length ELSE i

(* Characters processed, and those of them that read() has not returned. *)
Stored == typed - code
Held == Stored - Len(heard)

(* The controller takes the next code when the last one is gone. *)
PressKey(k) ==
  /\ ~ready /\ typed + k <= MaxTyped
  /\ ready' = TRUE /\ code' = k /\ irq' = TRUE /\ typed' = typed + k
  /\ UNCHANGED << ringVars, handling, readVars >>

(* get_scancode_nonblock() *)
TakeCode == ready' = FALSE /\ code' = 0 /\ UNCHANGED << irq, typed >>

(* char_ringbuf_write() of the code's string. *)
WriteCode ==
  /\ ring' = [i \in 0 .. Length - 1 |->
                IF \E j \in 1 .. code : (bufEnd + j - 1) % Length = i
                THEN Stored + (CHOOSE j \in 1 .. code :
                                /\ (bufEnd + j - 1) % Length = i
                                /\ \A h \in j + 1 .. code : (bufEnd + h - 1) % Length # i)
                ELSE ring[i]]
  /\ bufEnd' = (bufEnd + code) % Length
  /\ lost' = (lost \/ Held + code >= Length)
  /\ bufStart' = bufStart

(* The interrupt is taken; its handler spins until a code is ready. *)
EnterHandler ==
  /\ irq /\ ~handling /\ reader = "idle"
  /\ irq' = FALSE /\ handling' = TRUE
  /\ UNCHANGED << ringVars, ready, code, typed, readVars >>

(* kb_int_handler() *)
KeyInterrupt ==
  /\ handling /\ ready
  /\ TakeCode /\ WriteCode /\ handling' = FALSE
  /\ UNCHANGED readVars

(* read(), by read_console() and once more whenever it returned 0. *)
ReadKeys(n) ==
  /\ ~handling
  /\ reader = "idle" \/ (reader = "empty" /\ n = len)
  /\ len' = n /\ taken' = 0 /\ polled' = FALSE /\ reader' = "test"
  /\ UNCHANGED << ringVars, portVars, heard >>

(* read_console(): another console had something to read. *)
OtherConsole ==
  /\ reader = "empty"
  /\ reader' = "idle" /\ UNCHANGED << ringVars, portVars, heard, polled, taken, len >>

TakeAhead ==                  \* mutant: the pointer is advanced before the character is taken
  /\ reader = "test" /\ bufStart # bufEnd /\ taken < len
  /\ heard' = Append(heard, ring[(bufStart + 1) % Length])
  /\ bufStart' = bufStart + 1 /\ taken' = taken + 1 /\ reader' = "wrap"
  /\ UNCHANGED << ring, bufEnd, lost, portVars, polled, len >>
TakeChar ==
  /\ reader = "test" /\ bufStart # bufEnd /\ taken < len
  /\ heard' = Append(heard, ring[bufStart])
  /\ bufStart' = bufStart + 1 /\ taken' = taken + 1 /\ reader' = "wrap"
  /\ UNCHANGED << ring, bufEnd, lost, portVars, polled, len >>

WrapStart ==
  /\ reader = "wrap"
  /\ bufStart' = Wrap(bufStart) /\ reader' = "test"
  /\ UNCHANGED << ring, bufEnd, lost, portVars, heard, polled, taken, len >>

(* char_ringbuf_read() returns: n, or 0, and then read() polls, once. *)
ReadEnds ==
  /\ reader = "test" /\ (bufStart = bufEnd \/ taken = len)
  /\ reader' = IF taken > 0 THEN "idle" ELSE IF polled THEN "empty" ELSE "poll"
  /\ UNCHANGED << ringVars, portVars, heard, polled, taken, len >>

NothingReady ==
  /\ reader = "poll" /\ ~ready
  /\ reader' = "empty" /\ UNCHANGED << ringVars, portVars, heard, polled, taken, len >>

(* A code without a string; one character, which bypasses the ring; a string. *)
PollNothing ==
  /\ reader = "poll" /\ ready /\ code = 0
  /\ TakeCode /\ UNCHANGED << ringVars, handling, readVars >>

PollChar ==
  /\ reader = "poll" /\ ready /\ code = 1
  /\ TakeCode /\ heard' = Append(heard, Stored + 1) /\ reader' = "idle"
  /\ UNCHANGED << ringVars, handling, polled, taken, len >>

PollString ==
  /\ reader = "poll" /\ ready /\ code > 1
  /\ TakeCode /\ WriteCode /\ polled' = TRUE /\ reader' = "test"
  /\ UNCHANGED << handling, heard, taken, len >>

KbNext ==
  \/ \E k \in KeyStrings : PressKey(k)
  \/ EnterHandler \/ KeyInterrupt
  \/ \E n \in Wanted : ReadKeys(n)
  \/ OtherConsole \/ TakeChar \/ WrapStart \/ ReadEnds
  \/ NothingReady \/ PollNothing \/ PollChar \/ PollString
KbSpec == KbInit /\ [][KbNext]_kbVars

-----------------------------------------------------------------------------
(* As long as the ring never holds Length characters, read() returns what    *)
(* was typed, in order, whether the handler or read() itself took the code,  *)
(* and what it has not returned is in the ring or at the controller.         *)
TypedIsRead ==
  ~lost =>
    /\ heard = [i \in 1 .. Len(heard) |-> i]
    /\ \A j \in 1 .. Held : ring[(Wrap(bufStart) + j - 1) % Length] = Len(heard) + j
    /\ Held = 0 <=> Wrap(bufStart) = bufEnd

(* The pointers stay in the buffer, even after characters were lost. *)
PointersInRing ==
  /\ bufEnd \in 0 .. Length - 1
  /\ bufStart \in 0 .. (IF reader = "wrap" THEN Length ELSE Length - 1)

(* Between the handler and a read() that polls no key is lost, doubled or    *)
(* reordered while there is room, also when the handler comes for a code     *)
(* that read() has taken and waits with interrupts off for the next key; and *)
(* the pointers are sound even when there was no room.                       *)
KeyboardSound == TypedIsRead /\ PointersInRing
=============================================================================
