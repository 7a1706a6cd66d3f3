-------------------------- MODULE ConstructStreams --------------------------
(***************************************************************************)
(* scripts/elftools/construct: fields that are read when they are asked     *)
(* for.  An array of OnDemand fields is parsed: each becomes a              *)
(* LazyContainer, which keeps the stream, a position and no value.  Then    *)
(* the containers are demanded and disposed of in any order, the stream is  *)
(* moved by others, and the array is built again.  The field is LazyBound:  *)
(* its construct, here the number of bytes it reads, is what bindfunc()     *)
(* answers the first time that it is needed.                                *)
(*                                                                         *)
(* A run is [data, force, offs]: with offs the fields are OnDemandPointers  *)
(* to those offsets and take no room in the stream.                         *)
(***************************************************************************)
EXTENDS Integers, Sequences, FiniteSets, SequencesExt, FiniteSetsExt

CONSTANTS
  LazyRuns,    \* runs
  Widths,      \* what bindfunc() may answer
  LazyFields   \* bound: fields of the array

ASSUME LazyAssumption ==
  /\ Widths \subseteq Nat \ {0} /\ LazyFields \in Nat \ {0}
  /\ \A x \in LazyRuns : /\ x.data \in Seq(Nat) /\ x.force \in BOOLEAN
                          /\ (x.offs = << >> \/ x.offs \in [1 .. LazyFields -> Nat])

VARIABLES
  lazyRun,
  tell,        \* position of the shared stream
  lazies,      \* the LazyContainers: [at, value, gone]
  binding,     \* what bindfunc() would answer now
  bound,       \* LazyBound.bound, 0 for None
  answers,     \* for each container, what its .value has given
  rebuilt,     \* the stream that is built
  buildAt,     \* << next field, position in that stream >>
  lazyPc       \* "parse", "use", "build", "done" or "failed"

lazyVars == << lazyRun, tell, lazies, binding, bound, answers, rebuilt, buildAt, lazyPc >>

Unread == << >>                       \* NotImplemented: no field is empty
NoBytes == << -1 >>                    \* an exception
Pointers == lazyRun.offs # << >>

LazyInit ==
  /\ lazyRun \in LazyRuns
  /\ binding \in Widths
  /\ tell = 0 /\ lazies = << >> /\ bound = 0
  /\ answers = [i \in 1 .. LazyFields |-> {}]
  /\ rebuilt = << >> /\ buildAt = << 1, 0 >> /\ lazyPc = "parse"

(* if self.bound is None: self.bound = self.bindfunc() *)
Bound == IF bound = 0 THEN binding ELSE bound

-----------------------------------------------------------------------------
(* OnDemand._parse(): only a field in the stream has its size skipped. *)
ParseLazy ==
  /\ lazyPc = "parse" /\ Len(lazies) < LazyFields
  /\ lazies' = Append(lazies, [at |-> tell, value |-> Unread, gone |-> FALSE])
  /\ IF Pointers THEN UNCHANGED << tell, bound >> ELSE bound' = Bound /\ tell' = tell + Bound
  /\ UNCHANGED << lazyRun, binding, answers, rebuilt, buildAt, lazyPc >>

ArrayParsed ==
  /\ lazyPc = "parse" /\ Len(lazies) = LazyFields
  /\ lazyPc' = "use"
  /\ UNCHANGED << lazyRun, tell, lazies, binding, bound, answers, rebuilt, buildAt >>

(* Mutant: the stream is read where it happens to be. *)
ReadHere(i) == tell

(* read() seeks to the container's position, a Pointer from there to its own *)
PlaceOf(i) == IF Pointers THEN lazyRun.offs[i] ELSE lazies[i].at

ReadLazy(i) ==
  LET at == PlaceOf(i) data == lazyRun.data IN
  IF at + Bound > Len(data) THEN [got |-> NoBytes, tell |-> Max({at, Len(data)})]
  ELSE [got |-> SubSeq(data, at + 1, at + Bound),
        tell |-> IF Pointers THEN lazies[i].at ELSE at + Bound]

HasValue(i) == lazies[i].value # Unread

(* .value: one that was read before is given again, after dispose() too.  A  *)
(* short read leaves the stream at its end and the container without value.  *)
GetValue(i) ==
  IF HasValue(i) THEN [got |-> lazies[i].value, tell |-> tell]
  ELSE IF lazies[i].gone THEN [got |-> NoBytes, tell |-> tell]
  ELSE ReadLazy(i)

Demanded(i) ==
  LET r == GetValue(i) IN
  /\ tell' = r.tell
  /\ lazies' = IF r.got = NoBytes THEN lazies ELSE [lazies EXCEPT ![i].value = r.got]
  /\ bound' = IF HasValue(i) \/ lazies[i].gone THEN bound ELSE Bound
  /\ answers' = [answers EXCEPT ![i] = @ \cup {r.got}]

Demand(i) ==
  /\ lazyPc = "use" /\ Demanded(i)
  /\ UNCHANGED << lazyRun, binding, rebuilt, buildAt, lazyPc >>

Dispose(i) ==
  /\ lazyPc = "use" /\ ~lazies[i].gone
  /\ lazies' = [lazies EXCEPT ![i].gone = TRUE]
  /\ UNCHANGED << lazyRun, tell, binding, bound, answers, rebuilt, buildAt, lazyPc >>

(* Others use the stream, and bindfunc() may come to answer otherwise. *)
SeekElsewhere(p) ==
  /\ lazyPc = "use" /\ tell' = p
  /\ UNCHANGED << lazyRun, lazies, binding, bound, answers, rebuilt, buildAt, lazyPc >>
Rebind(w) ==
  /\ lazyPc = "use" /\ binding' = w
  /\ UNCHANGED << lazyRun, tell, lazies, bound, answers, rebuilt, buildAt, lazyPc >>

StartBuild ==
  /\ lazyPc = "use" /\ lazyPc' = "build"
  /\ UNCHANGED << lazyRun, tell, lazies, binding, bound, answers, rebuilt, buildAt >>

-----------------------------------------------------------------------------
PutAt(out, p, s) ==
  [j \in 1 .. Max({Len(out), p + Len(s)}) |->
     IF j \in p + 1 .. p + Len(s) THEN s[j - p] ELSE IF j <= Len(out) THEN out[j] ELSE 0]

RoomLeft(p) == IF Pointers THEN p ELSE p + Bound

(* OnDemand._build(): a field that was never demanded is read now if         *)
(* force_build is set, else its room is skipped.                             *)
BuildLazy ==
  /\ lazyPc = "build" /\ buildAt[1] <= LazyFields
  /\ LET i == buildAt[1] p == buildAt[2] v == GetValue(i).got IN
       IF lazyRun.force \/ HasValue(i)
       THEN /\ Demanded(i)
            /\ IF v = NoBytes THEN lazyPc' = "failed" /\ UNCHANGED << rebuilt, buildAt >>
               ELSE /\ rebuilt' = PutAt(rebuilt, IF Pointers THEN PlaceOf(i) ELSE p, v)
                    /\ buildAt' = << i + 1, IF Pointers THEN p ELSE p + Len(v) >>
                    /\ UNCHANGED lazyPc
       ELSE /\ buildAt' = << i + 1, RoomLeft(p) >>
            /\ bound' = IF Pointers THEN bound ELSE Bound
            /\ UNCHANGED << tell, lazies, answers, rebuilt, lazyPc >>
  /\ UNCHANGED << lazyRun, binding >>

BuiltAll ==
  /\ lazyPc = "build" /\ buildAt[1] > LazyFields
  /\ lazyPc' = "done"
  /\ UNCHANGED << lazyRun, tell, lazies, binding, bound, answers, rebuilt, buildAt >>

LazyNext ==
  \/ ParseLazy \/ ArrayParsed \/ StartBuild \/ BuildLazy \/ BuiltAll
  \/ \E i \in DOMAIN lazies : Demand(i) \/ Dispose(i)
  \/ \E p \in 0 .. Len(lazyRun.data) : SeekElsewhere(p)
  \/ \E w \in Widths : Rebind(w)

LazySpec == LazyInit /\ [][LazyNext]_lazyVars

-----------------------------------------------------------------------------
FieldAt(i) == IF Pointers THEN lazyRun.offs[i] ELSE (i - 1) * bound
FieldBytes(i) == SubSeq(lazyRun.data, FieldAt(i) + 1, FieldAt(i) + bound)

(* A value read on demand is what a parse of the whole array would have      *)
(* given: whoever moved the stream, in whatever order the fields were asked  *)
(* for, and whatever bindfunc() has come to answer, all were read by the     *)
(* one construct that was bound first, each at its own place.                *)
LazyIsEager == \A i \in DOMAIN lazies : HasValue(i) => lazies[i].value = FieldBytes(i)

(* All demands of a container agree: a value is given again, and a container *)
(* that could not answer never does.                                         *)
AnswersAgree == \A i \in DOMAIN answers : Cardinality(answers[i]) <= 1

(* What is built lies where it was parsed from, behind fields that were not  *)
(* demanded and are only skipped as well; a forced build has all of them.    *)
BuiltInPlace ==
  lazyPc = "done" =>
    \A i \in DOMAIN lazies :
      /\ lazyRun.force => HasValue(i)
      /\ HasValue(i) => /\ Len(rebuilt) >= FieldAt(i) + bound
                         /\ SubSeq(rebuilt, FieldAt(i) + 1, FieldAt(i) + bound) = FieldBytes(i)

-----------------------------------------------------------------------------
(***************************************************************************)
(* scripts/elftools/construct: Restream with BitStreamReader and            *)
(* BitStreamWriter, which a Bitwise of a size that is not fixed, or a large *)
(* one, uses.  The reader takes whole bytes from the stream below and gives *)
(* out bits; the writer collects bits and writes bytes when it is closed.   *)
(* Fields of any widths are read, with seeks in between, and what was read  *)
(* is then written.  The stream below is kept as its bits.                  *)
(***************************************************************************)
CONSTANTS
  UnitBits,     \* bits of a byte: 8 in the code
  BitFiles,     \* contents of the stream below, as bits
  FieldWidths,  \* bits that a field may ask for
  MaxPieces     \* bound: fields read, and seeks

ASSUME BitStreamAssumption ==
  /\ UnitBits \in Nat \ {0} /\ FieldWidths \subseteq Nat /\ MaxPieces \in Nat
  /\ BitFiles \subseteq Seq({0, 1})

VARIABLES
  bitFile,     \* the bits of the stream below
  subTell,     \* its position, in bytes
  bitBuf,      \* BitStreamReader.buffer
  totalSize,   \* BitStreamReader.total_size
  origin,      \* where the reader was made, or sent by its last seek
  pieces,      \* the bits given to each field since
  seeks,       \* seeks so far
  writeBuf,    \* BitStreamWriter.buffer
  flushed,     \* the bits that the stream below the writer got
  bitPc        \* "read", "write", "done" or "failed"

bitVars == << bitFile, subTell, bitBuf, totalSize, origin, pieces, seeks, writeBuf, flushed, bitPc >>

SubBytes == Len(bitFile) \div UnitBits

BitInit ==
  /\ bitFile \in BitFiles
  /\ subTell \in 0 .. SubBytes /\ origin = subTell
  /\ bitBuf = << >> /\ totalSize = 0 /\ pieces = << >> /\ seeks = 0
  /\ writeBuf = << >> /\ flushed = << >> /\ bitPc = "read"

Prefix(s, n) == SubSeq(s, 1, Min({n, Len(s)}))
Suffix(s, n) == SubSeq(s, n + 1, Len(s))

OldFirst(old, new) == old \o new

(* The bytes that hold n more bits: a part of one is a whole one. *)
BytesFor(n) == n \div UnitBits + (IF n % UnitBits # 0 THEN 1 ELSE 0)

(* read(), for a StaticField, which fails if it gets too little. *)
ReadBits(n) ==
  /\ bitPc = "read" /\ Len(pieces) < MaxPieces
  /\ LET more == n - Len(bitBuf)
         asked == IF more > 0 THEN BytesFor(more) ELSE 0
         bytes == Min({asked, SubBytes - subTell})
         buf == SubSeq(bitFile, subTell * UnitBits + 1, (subTell + bytes) * UnitBits)
         data == IF more > 0 THEN OldFirst(bitBuf, Prefix(buf, more)) ELSE Prefix(bitBuf, n)
     IN /\ subTell' = subTell + bytes
        /\ bitBuf' = IF more > 0 THEN Suffix(buf, more) ELSE Suffix(bitBuf, n)
        /\ totalSize' = totalSize + Len(data)
        /\ IF Len(data) = n THEN pieces' = Append(pieces, data) /\ UNCHANGED bitPc
           ELSE bitPc' = "failed" /\ UNCHANGED pieces
  /\ UNCHANGED << bitFile, origin, seeks, writeBuf, flushed >>

(* seek() forgets the bits of a byte that was begun, and how many were read. *)
SeekReader(p) ==
  /\ bitPc = "read" /\ seeks < MaxPieces
  /\ subTell' = p /\ origin' = p
  /\ bitBuf' = << >> /\ totalSize' = 0 /\ pieces' = << >>
  /\ seeks' = seeks + 1
  /\ UNCHANGED << bitFile, writeBuf, flushed, bitPc >>

WholeBytes(n) == n % UnitBits = 0

(* Restream._parse() ends with close(); then _build() makes a writer. *)
CloseReader ==
  /\ bitPc = "read"
  /\ bitPc' = IF WholeBytes(totalSize) THEN "write" ELSE "failed"
  /\ UNCHANGED << bitFile, subTell, bitBuf, totalSize, origin, pieces, seeks, writeBuf, flushed >>

Buffered(data) == writeBuf \o data

WriteBits ==
  /\ bitPc = "write" /\ pieces # << >>
  /\ writeBuf' = Buffered(Head(pieces)) /\ pieces' = Tail(pieces)
  /\ UNCHANGED << bitFile, subTell, bitBuf, totalSize, origin, seeks, flushed, bitPc >>

(* close() is flush(); decode_bin() refuses what is not whole bytes. *)
CloseWriter ==
  /\ bitPc = "write" /\ pieces = << >>
  /\ IF WholeBytes(Len(writeBuf))
     THEN flushed' = flushed \o writeBuf /\ writeBuf' = << >> /\ bitPc' = "done"
     ELSE bitPc' = "failed" /\ UNCHANGED << flushed, writeBuf >>
  /\ UNCHANGED << bitFile, subTell, bitBuf, totalSize, origin, pieces, seeks >>

BitNext ==
  \/ \E n \in FieldWidths : ReadBits(n)
  \/ \E p \in 0 .. SubBytes : SeekReader(p)
  \/ CloseReader \/ WriteBits \/ CloseWriter

BitSpec == BitInit /\ [][BitNext]_bitVars

-----------------------------------------------------------------------------
BitsFrom(p, n) == SubSeq(bitFile, p * UnitBits + 1, p * UnitBits + n)

(* The fields get the bits of the stream, each bit once and in order,        *)
(* however their widths cut the bytes; what was taken from the stream below  *)
(* and not given out is in the buffer, and is less than a byte.              *)
BitsInOrder ==
  bitPc = "read" =>
    /\ FlattenSeq(pieces) = BitsFrom(origin, totalSize)
    /\ BitsFrom(origin, totalSize) \o bitBuf = BitsFrom(origin, (subTell - origin) * UnitBits)
    /\ Len(bitBuf) < UnitBits

(* A reader that was closed has taken from the stream below exactly the      *)
(* bytes whose bits it gave out: what follows the Restream is read from the  *)
(* right place.                                                              *)
ClosedOnByte ==
  bitPc \in {"write", "done"} => bitBuf = << >> /\ UnitBits * (subTell - origin) = totalSize

(* What is read and written again is the bytes that were read. *)
CopyIsExact == bitPc = "done" => flushed = BitsFrom(origin, totalSize)

(* Lazy containers and bit streams give what the stream below holds, in      *)
(* whatever order and portions it is asked for, and write it back in place.  *)
StreamsFaithful ==
  /\ LazyIsEager /\ AnswersAgree /\ BuiltInPlace
  /\ BitsInOrder /\ ClosedOnByte /\ CopyIsExact
=============================================================================
