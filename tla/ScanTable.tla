----------------------------- MODULE ScanTable ------------------------------
(***************************************************************************)
(* scripts/scantable.py: a file of keyboard scan codes is parsed, token by  *)
(* token, into one table per modifier; each table is then packed into bytes *)
(* that the kernel's lookup_scantable() walks at every key.  The file is    *)
(* chosen a token at a time, from tokens as the lexer delivers them.  Flags *)
(* are numbers in the order of their names.                                 *)
(***************************************************************************)
EXTENDS Integers, Sequences, FiniteSets

CONSTANTS
  Cells,       \* entries of a table, 256 in the code
  Codes,       \* scan codes the file uses
  Strings,     \* entries the file uses, as sequences of bytes, without NUL
  Flags,       \* flags the file uses
  CharBits,    \* bits of an unsigned char, 8 in the code
  MaxTokens    \* tokens in the file

ASSUME ScanAssumption ==
  /\ Cells \in Nat \ {0} /\ Cells % 2 = 0 /\ Codes \subseteq 0..(Cells - 1)
  /\ Strings \subseteq Seq(1..(Cells - 1)) \ {<< >>} /\ MaxTokens \in Nat
  /\ Flags \subseteq Nat /\ CharBits \in Nat \ {0}

Modifiers == {"default", "SHIFT"}     \* CAPS, NUMLOCK and CTRL are as SHIFT
None == << >>
NoCode == -1

(* "ALT" stands for what is lexed and then ignored: ALT and parentheses. *)
Tokens ==
  {<<"SCANCODE", c>> : c \in Codes} \cup {<<"STRING", s>> : s \in Strings \cup {None}}
    \cup {<<"FLAG", f>> : f \in Flags}
    \cup {<<"SHIFT">>, <<"ESC">>, <<"NEWLINE">>, <<"ALT">>}

VARIABLES
  toks,        \* the tokens read so far
  line,        \* class State, the meaning of the current line
  tables,      \* self.tables
  flagged,     \* self.flags
  knownFlags,  \* self.known_flags
  parse        \* "reading", "accepted" or "refused"

scanVars == << toks, line, tables, flagged, knownFlags, parse >>

NewLine == [scancode |-> NoCode, entries |-> << >>, flags |-> {},
            modifier |-> "default", escape |-> FALSE]

ScanInit ==
  /\ toks = << >> /\ line = NewLine /\ parse = "reading"
  /\ tables = [m \in Modifiers |-> [c \in 0..(Cells - 1) |-> None]]
  /\ flagged = [c \in 0..(Cells - 1) |-> {}] /\ knownFlags = {}

-----------------------------------------------------------------------------
(* |= 0x80 *)
Escaped(c) == IF c >= Cells \div 2 THEN c ELSE c + Cells \div 2

Contradicts(l) == DOMAIN l.entries # {} /\ l.flags # {}

(* State.enter(): the line's entries go into the tables, over what earlier   *)
(* lines said of the same code.  A line without a scan code says nothing.    *)
Enter(l) ==
  IF l.scancode = NoCode \/ Contradicts(l) THEN UNCHANGED << tables, flagged, knownFlags >>
  ELSE LET c == IF l.escape THEN Escaped(l.scancode) ELSE l.scancode IN
    /\ tables' = [m \in Modifiers |-> IF m \in DOMAIN l.entries
                    THEN [tables[m] EXCEPT ![c] = l.entries[m]] ELSE tables[m]]
    /\ flagged' = IF l.flags = {} THEN flagged
                  ELSE [flagged EXCEPT ![c] = l.flags]
    /\ knownFlags' = knownFlags \cup l.flags

(* raise SemaError *)
Refused(l) == l.scancode # NoCode /\ Contradicts(l)

(* A string belongs to the modifier before it, and uses it up. *)
AddString(l, s) ==
  [l EXCEPT !.entries = [m \in DOMAIN l.entries \cup {l.modifier} |->
                           IF m = l.modifier THEN s ELSE l.entries[m]],
            !.modifier = "default"]

Read(tok) ==
  CASE tok[1] = "SCANCODE" -> [line EXCEPT !.scancode = tok[2]]
    [] tok[1] = "STRING"   -> AddString(line, tok[2])
    [] tok[1] = "FLAG"     -> [line EXCEPT !.flags = @ \cup {tok[2]}]
    [] tok[1] = "SHIFT"    -> [line EXCEPT !.modifier = "SHIFT"]
    [] tok[1] = "ESC"      -> [line EXCEPT !.escape = TRUE]
    [] tok[1] = "ALT"      -> line

EmptyString == <<"STRING", None>>         \* '', which raises SemaError

ReadToken ==
  /\ parse = "reading" /\ Len(toks) < MaxTokens
  /\ \E tok \in Tokens :
       /\ toks' = Append(toks, tok)
       /\ \/ /\ tok[1] = "NEWLINE" /\ Enter(line) /\ line' = NewLine
             /\ parse' = IF (Refused(line)) THEN "refused" ELSE parse
          \/ /\ tok = EmptyString /\ parse' = "refused"
             /\ UNCHANGED << line, tables, flagged, knownFlags >>
          \/ /\ tok[1] # "NEWLINE" /\ tok # EmptyString /\ line' = Read(tok)
             /\ UNCHANGED << tables, flagged, knownFlags, parse >>

EndOfFile ==
  /\ parse = "reading"
  /\ Enter(line)
  /\ parse' = IF (Refused(line)) THEN "refused" ELSE "accepted"
  /\ UNCHANGED << toks, line >>

ScanNext == ReadToken \/ EndOfFile

ScanSpec == ScanInit /\ [][ScanNext]_scanVars

-----------------------------------------------------------------------------
(* Packing *)

(* _how_many_zeroes(): cells from i on without an entry. *)
Zeroes(table, i) ==
  CHOOSE n \in 0..(Cells - i) :
    /\ \A j \in i..(i + n - 1) : table[j] = None
    /\ i + n = Cells \/ table[i + n] # None

(* generate_table(): a string and its NUL, or NUL and a length for a gap.    *)
(* p is the next cell i and the bytes t so far; Cells rounds are enough.     *)
PackNext(table, p) ==
  LET n == Zeroes(table, p.i) IN
  IF p.i = Cells THEN p
  ELSE IF table[p.i] = None
       THEN [i |-> p.i + n, t |-> p.t \o << 0, n >>]
       ELSE [i |-> p.i + 1, t |-> p.t \o table[p.i] \o << 0 >>]
Pack(table) ==
  LET pack[k \in 0..Cells] ==
        IF k = 0 THEN [i |-> 0, t |-> << >>] ELSE PackNext(table, pack[k - 1])
  IN pack[Cells].t

(* assert num < 256 *)
Packable(table) == \A i \in DOMAIN Pack(table) : Pack(table)[i] < Cells

(* The length of the C string at idx, which ends at the next NUL. *)
StrLen(t, idx) ==
  CHOOSE n \in 0..Len(t) :
    /\ \A j \in idx..(idx + n - 1) : t[j] # 0
    /\ idx + n > Len(t) \/ t[idx + n] = 0

GapUpTo(n, i) == n <= i                \* mutant: the cell after the gap is lost

GapBefore(n, i) == n < i

(* lookup_scantable(), and lookup_table(): idx walks the bytes, i counts the *)
(* cells; a gap that ends beyond n settles it.  Every round takes a byte.    *)
WalkNext(t, n, w) ==
  LET gap == w.i + t[w.idx + 1] IN
  IF w.end \/ w.idx > Len(t) THEN w
  ELSE IF t[w.idx] = 0 THEN [idx |-> w.idx + 2, i |-> gap, end |-> GapBefore(n, gap), s |-> w.s]
  ELSE IF w.i = n THEN [idx |-> w.idx, i |-> w.i, end |-> TRUE, s |-> SubSeq(t, w.idx, w.idx + StrLen(t, w.idx) - 1)]
  ELSE [idx |-> w.idx + StrLen(t, w.idx) + 1, i |-> w.i + 1, end |-> FALSE, s |-> w.s]
LookUp(t, n) ==
  LET walk[k \in 0..Len(t)] ==
        IF k = 0 THEN [idx |-> 1, i |-> 0, end |-> FALSE, s |-> None]
        ELSE WalkNext(t, n, walk[k - 1])
  IN walk[Len(t)].s

LookUpKey(t, n, escaped) == LookUp(t, IF escaped THEN Escaped(n) ELSE n)

(* generate_flags_map(): flags are numbered in the order of their names. *)
FlagBit(f) == Cardinality({g \in knownFlags : g < f})
(* generate_flags_table(), stored in an array of unsigned char: the bits set *)
FlagsByte(c) == {FlagBit(f) : f \in flagged[c]} \cap 0..(CharBits - 1)
(* scan_flags[c] & SCAN_f *)
HasFlag(c, f) == FlagBit(f) \in FlagsByte(c)

-----------------------------------------------------------------------------
(* What a file means, read off its lines rather than token by token. *)

Breaks == {0, Len(toks) + 1} \cup {i \in DOMAIN toks : toks[i][1] = "NEWLINE"}

Line(b) ==   \* the tokens of the line that ends at b
  LET a == CHOOSE x \in Breaks : x < b /\ \A y \in Breaks : y < b => y <= x
  IN (a + 1)..(b - 1)

Of(kind, L) == {i \in L : toks[i][1] = kind}

LastIn(S) == CHOOSE x \in S : \A y \in S : y <= x

HasCode(L) == Of("SCANCODE", L) # {}

CodeOf(L) ==
  LET c == toks[LastIn(Of("SCANCODE", L))][2]
  IN IF Of("ESC", L) = {} THEN c ELSE Escaped(c)

(* The strings of the line that carry modifier m. *)
StringsFor(m, L) ==
  {i \in Of("STRING", L) :
     (m = "SHIFT") <=> \E j \in Of("SHIFT", L) :
                          j < i /\ Of("STRING", L) \cap (j..(i - 1)) = {}}

Meaning(m, c) ==
  LET says == {b \in Breaks \ {0} : LET L == Line(b) IN
                 HasCode(L) /\ CodeOf(L) = c /\ StringsFor(m, L) # {}}
  IN IF says = {} THEN None
     ELSE toks[LastIn(StringsFor(m, Line(LastIn(says))))][2]

-----------------------------------------------------------------------------
ScanTypeOK ==
  /\ parse \in {"reading", "accepted", "refused"}
  /\ tables \in [Modifiers -> [0..(Cells - 1) -> Strings \cup {None}]]
  /\ flagged \in [0..(Cells - 1) -> SUBSET Flags] /\ knownFlags \subseteq Flags
  /\ line.scancode \in Codes \cup {NoCode} /\ line.flags \subseteq Flags

(* The tables say of each code and modifier what the last line about them    *)
(* says, escaped codes in the upper half; no line leaks into another.        *)
TablesMatchFile ==
  parse = "accepted" =>
    \A m \in Modifiers, c \in 0..(Cells - 1) : tables[m][c] = Meaning(m, c)

(* A file is refused for a line that gives a code both entries and flags, or *)
(* for an empty string, and for nothing else.                                *)
RefusedForALine ==
  LET Mixed(b) == LET L == Line(b) IN
        HasCode(L) /\ Of("STRING", L) # {} /\ Of("FLAG", L) # {}
      empty == \E i \in DOMAIN toks : toks[i] = EmptyString
  IN /\ parse = "refused"  => empty \/ \E b \in Breaks \ {0} : Mixed(b)
     /\ parse = "accepted" => ~empty /\ \A b \in Breaks \ {0} : ~Mixed(b)

(* At a key, with or without the escape prefix, the kernel finds in the      *)
(* packed bytes the entry of the table.                                      *)
KeysAreFound ==
  parse = "accepted" =>
    \A m \in Modifiers, n \in 0..(Cells - 1), e \in BOOLEAN :
      LookUpKey(Pack(tables[m]), n, e) = tables[m][IF e THEN Escaped(n) ELSE n]

(* Whatever the number of flags, the kernel finds at each code those flags   *)
(* of its last line that the unsigned char has bits for: names come first    *)
(* that only overwritten lines know, and the ninth and later ones are lost,  *)
(* which the assertion (it admits 31) does not notice.                       *)
FlagsAreFound ==
  parse = "accepted" =>
    \A c \in 0..(Cells - 1) :
      {f \in knownFlags : HasFlag(c, f)} = {f \in flagged[c] : FlagBit(f) < CharBits}

(* Packing and look-up are inverse on every table, and the assertion on the  *)
(* size of a gap fails for the table without any entry and for no other.     *)
PackingIsExact ==
  parse = "accepted" /\ toks = << >> =>
    \A table \in [0..(Cells - 1) -> Strings \cup {None}] :
      /\ \A n \in 0..(Cells - 1) : LookUp(Pack(table), n) = table[n]
      /\ Packable(table) <=> \E c \in 0..(Cells - 1) : table[c] # None

-----------------------------------------------------------------------------
(***************************************************************************)
(* ScanTable.lex() in scripts/scantable.py: the tokens of a file, with the  *)
(* files it includes spliced in.  _lex() calls itself for an include; its   *)
(* activations are the stack.  A file is the sequence of files it includes: *)
(* its other tokens are not told apart, and the order in which the files    *)
(* are reached stands for the order of the tokens.  Including the name      *)
(* Unreadable stands for each way an include fails on its own: the file is  *)
(* not found, holds text that is no token, or the include has no file name  *)
(* (then no name is remembered; lex() is over, and none is looked at).      *)
(***************************************************************************)
CONSTANTS
  Files,       \* files that exist
  Unreadable,  \* a name that open() or the scanner fails on
  Root,        \* the file on the command line
  MaxIncludes  \* includes in a file

ASSUME LexerAssumption ==
  /\ IsFiniteSet(Files) /\ Root \in Files /\ Unreadable \notin Files /\ MaxIncludes \in Nat

VARIABLES
  includes,    \* the includes of each file, in their order
  lexCalls,    \* active calls of _lex(), innermost last: file, tok_queue
  scanned,     \* self.scanned_files
  lexed,       \* the files whose tokens were taken, first to last
  lexing       \* "running", "done", "cyclic" or "unreadable"

lexVars == << includes, lexCalls, scanned, lexed, lexing >>

FileNames == Files \cup {Unreadable}

LexInit ==
  /\ includes \in [Files -> UNION {[1..n -> FileNames] : n \in 0..MaxIncludes}]
  /\ lexCalls = << [file |-> Root, queue |-> includes[Root]] >>
  /\ scanned = {Root} /\ lexed = << Root >> /\ lexing = "running"

(* _scan(): a file that was read before is taken for a cycle; the name is    *)
(* remembered before the file is opened.                                     *)
ScanFile(f) ==
  IF f \in scanned
  THEN lexing' = "cyclic" /\ UNCHANGED << scanned, lexed, lexCalls >>
  ELSE /\ scanned' = scanned \cup {f}
       /\ IF f = Unreadable
          THEN lexing' = "unreadable" /\ UNCHANGED << lexed, lexCalls >>
          ELSE /\ lexed' = Append(lexed, f)
               /\ LET top == Len(lexCalls) IN
                  lexCalls' = Append([lexCalls EXCEPT ![top].queue = Tail(@)],
                                   [file |-> f, queue |-> includes[f]])
               /\ UNCHANGED lexing

TopQueue == lexCalls[Len(lexCalls)].queue

LexInclude ==
  /\ lexing = "running" /\ TopQueue # << >>
  /\ ScanFile(Head(TopQueue))
  /\ UNCHANGED includes

LexReturn ==
  /\ lexing = "running" /\ TopQueue = << >>
  /\ IF Len(lexCalls) = 1
     THEN lexing' = "done" /\ UNCHANGED lexCalls
     ELSE lexCalls' = SubSeq(lexCalls, 1, Len(lexCalls) - 1) /\ UNCHANGED lexing
  /\ UNCHANGED << includes, scanned, lexed >>

LexNext == LexInclude \/ LexReturn

LexSpec == LexInit /\ [][LexNext]_lexVars

-----------------------------------------------------------------------------
Includes(f, g) == \E i \in DOMAIN includes[f] : includes[f][i] = g

(* Files that can be reached from S in any number of includes. *)
Reach(S) ==
  LET grow[n \in 0..Cardinality(Files)] ==
        IF n = 0 THEN S
        ELSE grow[n - 1] \cup {g \in FileNames :
               \E f \in grow[n - 1] \ {Unreadable} : Includes(f, g)}
  IN grow[Cardinality(Files)]

Cyclic == \E f \in Reach({Root}) \ {Unreadable} :
            f \in Reach({g \in FileNames : Includes(f, g)})

(* No more files are read than there are: _lex() ends. *)
LexTypeOK ==
  /\ lexing \in {"running", "done", "cyclic", "unreadable"}
  /\ scanned \subseteq FileNames /\ lexCalls # << >>
  /\ lexed \in Seq(Files) /\ Len(lexed) <= Cardinality(Files)

(* A file that is accepted includes nothing in a circle and nothing that     *)
(* cannot be read, and the tokens of every file it reaches are there, once.  *)
AcceptedIsComplete ==
  lexing = "done" =>
    /\ ~Cyclic /\ Unreadable \notin Reach({Root})
    /\ {lexed[i] : i \in DOMAIN lexed} = Reach({Root})
    /\ Cardinality(Reach({Root})) = Len(lexed)

(* CyclicIncludeError is raised for files that are reached twice: on a cycle *)
(* or, what the name does not say, along two paths.                          *)
RefusedIsReachedTwice ==
  LET Occurrences(f) == {p \in (Files \X (1..MaxIncludes)) :
        /\ p[1] \in Reach({Root}) /\ p[2] \in DOMAIN includes[p[1]]
        /\ includes[p[1]][p[2]] = f}
  IN lexing = "cyclic" =>
       \/ \E f \in Files \ {Root} : Cardinality(Occurrences(f)) > 1
       \/ Occurrences(Root) # {}

(* From the files that are included to the look-up in the kernel: what the   *)
(* last line about a key says is what the kernel finds.  lex() and parse()   *)
(* refuse only files that cannot be read or spliced, contradict themselves   *)
(* or give an empty string; of those they accept, packing besides fails on   *)
(* the assertion for files that leave the table of a modifier without entry. *)
ScanTablesExact ==
  /\ LexTypeOK /\ AcceptedIsComplete /\ RefusedIsReachedTwice
  /\ ScanTypeOK /\ TablesMatchFile /\ RefusedForALine
  /\ KeysAreFound /\ FlagsAreFound /\ PackingIsExact
=============================================================================
