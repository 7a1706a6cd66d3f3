-------------------------------- MODULE Docs --------------------------------
(***************************************************************************)
(* scripts/docs.py: the source files of a chapter are cut into fragments of *)
(* documentation and code, which are then put in the order that the         *)
(* documentation asks for.                                                  *)
(*                                                                         *)
(* A line is what the regular expressions see in it.                        *)
(*   kind   "open" and "whole" begin a docstring, "whole" ends it too;      *)
(*          "end" has the end of a comment, "asm" is a ;;; line, "code" any *)
(*          other;                                                          *)
(*   brace  "{", "{}" for a part of a file to embed, "}" for a closing      *)
(*          brace that names none, or "";                                   *)
(*   ord    the number after a #, or NoOrd;                                 *)
(*   cut    it has #cut;                                                    *)
(*   tail   there is text behind the end of the comment.                    *)
(* The text of line n is the number n, and of its tail -n.                  *)
(***************************************************************************)
EXTENDS Integers, Sequences, SequencesExt, FiniteSetsExt

CONSTANTS
  Chapters      \* [files, other]: the files, each a sequence of lines, and the
                \* file that is embedded, a sequence of the marks in each line

VARIABLES
  docFiles,   \* the files of the chapter
  docOther,   \* the file that {} names
  docFile,    \* the one being read
  docLine,    \* its first line that is left
  frags,      \* the fragments of the file: [file, doc, src, embed]
  chapter,    \* the fragments of the files that have documentation
  ordered,    \* the fragments in the order of the chapter
  docPc       \* "read", "order", "done" or "raised"

docVars == << docFiles, docOther, docFile, docLine, frags, chapter, ordered, docPc >>

NoOrd == -1

DocInit ==
  /\ \E c \in Chapters : docFiles = c.files /\ docOther = c.other
  /\ docFile = 1 /\ docLine = 1 /\ frags = << >> /\ chapter = << >> /\ ordered = << >>
  /\ docPc = "read"

Lines == docFiles[docFile]
IsDocstring(l) == l.kind \in {"open", "whole", "asm"}
HasCommentEnd(l) == l.kind \in {"end", "whole"}

-----------------------------------------------------------------------------
From(a, b) == [i \in 1 .. b - a + 1 |-> a + i - 1]      \* the lines a .. b

(* ... of the file that is read, with all of their text *)
TextOf(a, b) ==
  FlattenSeq([i \in 1 .. b - a + 1 |-> IF Lines[a + i - 1].tail THEN << a + i - 1, -(a + i - 1) >>
                                       ELSE << a + i - 1 >>])

(* _src(): the last line of the code that starts at line n *)
SrcEnd(n) == Min({i \in n .. Len(Lines) : IsDocstring(Lines[i])} \cup {Len(Lines) + 1}) - 1

(* _doc_fragment(): the last line of the docstring that starts at line n.    *)
(* One of /** goes on to the end of a comment, and what stands behind that is *)
(* lost; one of ;;; goes on as long as there are such lines, #cut or not.    *)
DocEnd(n) ==
  IF Lines[n].kind = "asm"
  THEN Min({i \in n .. Len(Lines) : Lines[i].kind # "asm"} \cup {Len(Lines) + 1}) - 1
  ELSE Min({i \in n .. Len(Lines) : HasCommentEnd(Lines[i])} \cup {Len(Lines)})

(* _embed_src(): the lines of another file from the first with one string to *)
(* the first with another.  The search for the second does not wait for the  *)
(* first: when it comes earlier, its line alone is embedded.                 *)
EmbedSrc(ls) ==
  LET starts == {i \in DOMAIN ls : "from" \in ls[i]}
      stops == {i \in DOMAIN ls : "to" \in ls[i]}
      first == Min(starts \cup {Len(ls) + 1})
      last == Min(stops \cup {Len(ls)})
  IN IF stops # {} /\ last < first THEN << last >> ELSE From(first, last)

(* The code that a docstring ending at line n brings along: what follows, if *)
(* it ends in {, or a part of another file.                                  *)
SrcLines(n) == IF Lines[n].brace = "{" THEN SrcEnd(n + 1) - n ELSE 0
EmbedOf(n) == IF Lines[n].brace = "{}" THEN EmbedSrc(docOther) ELSE << >>

AtDocstring == /\ docPc = "read" /\ docFile <= Len(docFiles) /\ docLine <= Len(Lines)
               /\ IsDocstring(Lines[docLine]) /\ ~Lines[docLine].cut

DocFragment ==
  /\ AtDocstring /\ Lines[DocEnd(docLine)].brace # "}"
  /\ LET end == DocEnd(docLine)
         next == end + SrcLines(end) + 1
     IN /\ frags' = Append(frags, [file |-> docFile, doc |-> From(docLine, end),
                                  src |-> TextOf(end + 1, next - 1), embed |-> EmbedOf(end)])
        /\ docLine' = next
  /\ UNCHANGED << docFiles, docOther, docFile, chapter, ordered, docPc >>

(* assert m, or the file to embed cannot be opened: the script ends.         *)
EmbedFails ==
  /\ AtDocstring /\ Lines[DocEnd(docLine)].brace = "}"
  /\ docPc' = "raised"
  /\ UNCHANGED << docFiles, docOther, docFile, docLine, frags, chapter, ordered >>

CodeFragment ==
  /\ docPc = "read" /\ docFile <= Len(docFiles) /\ docLine <= Len(Lines)
  /\ ~IsDocstring(Lines[docLine])
  /\ frags' = Append(frags, [file |-> docFile, doc |-> << >>, src |-> TextOf(docLine, SrcEnd(docLine)),
                           embed |-> << >>])
  /\ docLine' = SrcEnd(docLine) + 1
  /\ UNCHANGED << docFiles, docOther, docFile, chapter, ordered, docPc >>

AtCut == docLine <= Len(Lines) /\ IsDocstring(Lines[docLine]) /\ Lines[docLine].cut

(* The end of a file, or #cut: a file without documentation is left out.     *)
FileEnds ==
  /\ docPc = "read" /\ docFile <= Len(docFiles)
  /\ docLine > Len(Lines) \/ AtCut
  /\ chapter' = IF \E i \in DOMAIN frags : frags[i].doc # << >> THEN chapter \o frags ELSE chapter
  /\ docFile' = docFile + 1 /\ docLine' = 1 /\ frags' = << >>
  /\ UNCHANGED << docFiles, docOther, ordered, docPc >>

FilesEnd ==
  /\ docPc = "read" /\ docFile > Len(docFiles)
  /\ docPc' = "order"
  /\ UNCHANGED << docFiles, docOther, docFile, docLine, frags, chapter, ordered >>

-----------------------------------------------------------------------------
(* SourceFragment.ord: the number in the first line of the docstring *)
OrdOf(f) == IF f.doc = << >> THEN NoOrd ELSE docFiles[f.file][f.doc[1]].ord

(* this_ord of _reorder_fragments(): the last number at or before fragment   *)
(* i, of whatever file; #0 does not count.                                   *)
ThisOrd(i) ==
  LET with == {j \in 1 .. i : OrdOf(chapter[j]) > 0}
  IN IF with = {} THEN 0 ELSE OrdOf(chapter[Max(with)])

MaxOrd == Max({0} \cup {ThisOrd(i) : i \in DOMAIN chapter})

(* Mutant: the last number is left out. *)
OrdsBelowMax == [i \in 1 .. MaxOrd |-> i - 1]
OrdRange == [i \in 1 .. MaxOrd + 1 |-> i - 1]

ReorderFragments ==
  /\ docPc = "order"
  /\ LET with(o) == SelectSeq([i \in DOMAIN chapter |-> i], LAMBDA i : ThisOrd(i) = o)
         index == FlattenSeq([i \in DOMAIN OrdRange |-> with(OrdRange[i])])
     IN ordered' = [i \in DOMAIN index |-> chapter[index[i]]]
  /\ docPc' = "done"
  /\ UNCHANGED << docFiles, docOther, docFile, docLine, frags, chapter >>

DocNext == DocFragment \/ EmbedFails \/ CodeFragment \/ FileEnds \/ FilesEnd \/ ReorderFragments

DocSpec == DocInit /\ [][DocNext]_docVars

-----------------------------------------------------------------------------
FragmentLines(q) == FlattenSeq([i \in DOMAIN q |-> q[i].doc \o q[i].src])

(* The lines before the first #cut that begins a docstring: not inside a      *)
(* comment, and of ;;; lines the first.                                       *)
Before(f) ==
  LET ls == docFiles[f]
      inComment(i) == \E j \in 1 .. i - 1 : ls[j].kind = "open" /\ \A k \in j + 1 .. i - 1 : ~HasCommentEnd(ls[k])
      inAsm(i) == i > 1 /\ ls[i].kind = "asm" /\ ls[i - 1].kind = "asm"
  IN Min({i \in DOMAIN ls : IsDocstring(ls[i]) /\ ls[i].cut /\ ~inComment(i) /\ ~inAsm(i)} \cup {Len(ls) + 1}) - 1

(* No line of a file is lost or taken twice: at every time the fragments     *)
(* hold the lines before the first that is left, and at the end of the file  *)
(* all of them or those before the #cut.  All that is missing is what stands  *)
(* behind the end of a comment on the last line of a docstring.              *)
FragmentsCoverFile ==
  docPc = "read" /\ docFile <= Len(docFiles) =>
    LET lasts == {Last(f.doc) : f \in {g \in ToSet(frags) : g.doc # << >>}}
    IN /\ FragmentLines(frags) = SelectSeq(TextOf(1, docLine - 1), LAMBDA t : -t \notin lasts)
       /\ docLine > Len(Lines) \/ AtCut => docLine - 1 = Before(docFile)

(* The chapter holds every fragment once.  Two that stand under the same     *)
(* number keep their order, those under a smaller one come first.            *)
ReorderIsStable ==
  docPc = "done" =>
    /\ Len(ordered) = Len(chapter) /\ ToSet(ordered) = ToSet(chapter)
    /\ \A i, j \in DOMAIN chapter :
         LET at(k) == CHOOSE n \in DOMAIN ordered : ordered[n] = chapter[k]
         IN (ThisOrd(i) < ThisOrd(j) \/ (ThisOrd(i) = ThisOrd(j) /\ i < j)) => at(i) < at(j)

(* An embedded part ends with the first mark of its end and, if a start was  *)
(* found, begins with the first mark of the start.                           *)
EmbedIsRange ==
  \A f \in ToSet(frags \o chapter) :
    LET e == f.embed
        ls == docOther
    IN e # << >> =>
         /\ \A i \in DOMAIN e : i < Len(e) => e[i + 1] = e[i] + 1
         /\ "from" \in ls[e[1]] \/ (Len(e) = 1 /\ "to" \in ls[e[1]])
         /\ "to" \in ls[Last(e)] \/ Last(e) = Len(ls)
         /\ \A i \in DOMAIN e : i < Len(e) => "to" \notin ls[e[i]]

(* Every line of a chapter's files comes out once and in its place, but for   *)
(* the tails of docstrings and what follows a #cut.                           *)
DocsWhole == FragmentsCoverFile /\ ReorderIsStable /\ EmbedIsRange
=============================================================================
