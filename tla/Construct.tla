----------------------------- MODULE Construct -----------------------------
(***************************************************************************)
(* scripts/elftools/construct: the library of parser and builder objects    *)
(* with which elftools, and through it run.py, reads ELF files.  A          *)
(* construct is a record; Parse, Build and Sizeof are its methods _parse(), *)
(* _build() and _sizeof().  Parsing threads the stream position and the     *)
(* context, a mutable dictionary from which later constructs take lengths,  *)
(* counts and keys: both are part of a result, of a failed one too, since   *)
(* the caller may catch the exception and go on.                            *)
(*                                                                         *)
(* A value is tagged: <<"int", n>>, <<"bytes", s>>, <<"list", s>>,          *)
(* <<"obj", f>>, <<"name", x>> or Nil.  A construct named NoName has the    *)
(* name None.  Bytes are 0..Base-1, of ByteBits bits each.                  *)
(***************************************************************************)
EXTENDS Integers, Sequences, SequencesExt, FiniteSetsExt

CONSTANTS
  ByteBits,     \* 8 in the code
  Grammars,     \* a sequence of constructs to parse and build with
  MaxData       \* bound: bytes in the stream

ASSUME ConstructAssumption == ByteBits \in Nat \ {0} /\ MaxData \in Nat

Base == 2^ByteBits

Nil    == << "none" >>
Error  == << "error" >>
NoName == "<none>"
MaxSize == 1000000                     \* sys.maxsize: longer than any stream
Empty  == [x \in {} |-> Nil]           \* Container()
Obj    == "<obj>"                      \* the keys that embedding uses
Unnest == "<unnested>"
TakenObj == "<taken>"                \* see ParseStruct
Self   == "<self>"
Left   == "<left>"                     \* see BuildStruct

Ok(val, pos, ctx)   == [ok |-> TRUE, err |-> "", val |-> val, pos |-> pos, ctx |-> ctx]
Fail(err, pos, ctx) == [ok |-> FALSE, err |-> err, val |-> Nil, pos |-> pos, ctx |-> ctx]

Bind(f, x, v) == [y \in DOMAIN f \cup {x} |-> IF y = x THEN v ELSE f[y]]
Unbind(f, x)  == [y \in DOMAIN f \ {x} |-> f[y]]

(* The elements a value yields when Python iterates over it. *)
Items(v) == IF v[1] = "bytes" THEN [i \in DOMAIN v[2] |-> << "bytes", << v[2][i] >> >>]
            ELSE v[2]

RECURSIVE Parse(_, _, _, _), Build(_, _, _, _, _), Sizeof(_, _)

(* What the lambdas of the grammars compute from the context: a constant,    *)
(* an entry, one less, a comparison, the size of a construct.                *)
Apply(f, ctx) ==
  CASE f[1] = "lit"   -> f[2]
    [] f[1] = "ctx"   -> ctx[f[2]][2]
    [] f[1] = "pred"  -> ctx[f[2]][2] - 1
    [] f[1] = "eq"    -> ctx[f[2]][2] = f[3]
    [] f[1] = "full"  -> ctx[f[2]][2] # << >>
    [] f[1] = "div"   -> ctx[f[2]][2] \div f[3]
    [] f[1] = "mod"   -> ctx[f[2]][2] % f[3]
    [] f[1] = "size"  -> Sizeof(f[2], ctx)
    [] f[1] = "pad"   -> (f[3] - (Sizeof(f[2], ctx) % f[3])) % f[3]

Known(f, ctx) == f[1] \in {"lit", "size", "pad"} \/ f[2] \in DOMAIN ctx

Lit(n) == << "lit", n >>
Ctx(x) == << "ctx", x >>

(* A construct around another has its name and its flags; of the flags only  *)
(* FLAG_EMBED decides anything here.                                         *)
Subconstruct(kind, sub) == [kind |-> kind, name |-> sub.name, embed |-> sub.embed, sub |-> sub]
InheritFlags(subs) == \E k \in DOMAIN subs : subs[k].embed

-----------------------------------------------------------------------------
(* Fields *)

StaticField(name, n) ==
  [kind |-> "static", name |-> name, embed |-> FALSE, length |-> n]

(* FormatField, for integers of n bytes. *)
FormatField(name, n, little, signed) ==
  [kind |-> "format", name |-> name, embed |-> FALSE, length |-> n,
   little |-> little, signed |-> signed]
UInt8(name)   == FormatField(name, 1, TRUE, FALSE)
SInt8(name)   == FormatField(name, 1, TRUE, TRUE)
ULInt16(name) == FormatField(name, 2, TRUE, FALSE)
UBInt16(name) == FormatField(name, 2, FALSE, FALSE)

MetaField(name, f) ==
  [kind |-> "meta", name |-> name, embed |-> FALSE, length |-> f]

(* A length that is a function makes it a MetaField. *)
Field(name, f) == IF f[1] = "lit" THEN StaticField(name, f[2]) ELSE MetaField(name, f)

FieldLength(c, ctx) == IF c.kind = "meta" THEN Apply(c.length, ctx) ELSE c.length

(* _read_stream(): a short read has still moved the stream to its end. *)
ReadStream(n, data, pos, ctx) ==
  IF pos + n > Len(data) THEN Fail("field", Max({pos, Len(data)}), ctx)
  ELSE Ok(<< "bytes", SubSeq(data, pos + 1, pos + n) >>, pos + n, ctx)

(* stream.write() of a BytesIO: overwrites, and pads after a seek past the   *)
(* end.                                                                      *)
Write(out, pos, s) ==
  IF s = << >> THEN out
  ELSE [i \in 1..Max({Len(out), pos + Len(s)}) |->
          IF pos < i /\ i <= pos + Len(s) THEN s[i - pos]
          ELSE IF i <= Len(out) THEN out[i] ELSE 0]

Number(s, base) == FoldLeft(LAMBDA acc, b : acc * base + b, 0, s)

UnpackBig(s, c) ==                     \* mutant: the byte order is ignored
  << "int", Number(s, Base) >>

(* struct.unpack() *)
Unpack(s, c) ==
  LET n == Number(IF c.little THEN Reverse(s) ELSE s, Base)
  IN << "int", IF c.signed /\ 2 * n >= Base^Len(s) THEN n - Base^Len(s) ELSE n >>

(* struct.pack(), which refuses what does not fit. *)
PackInt(v, c) ==
  LET n == c.length
      low == IF c.signed THEN -(Base^n \div 2) ELSE 0
      Digit(i) == ((v[2] % Base^n) \div Base^(i - 1)) % Base
  IN IF v[1] # "int" THEN Error
     ELSE IF v[2] < low \/ v[2] >= low + Base^n THEN Error
     ELSE << "bytes", [i \in 1..n |-> Digit(IF c.little THEN i ELSE n + 1 - i)] >>

ParseField(c, data, pos, ctx) ==
  LET r == ReadStream(FieldLength(c, ctx), data, pos, ctx)
  IN IF c.kind = "format" /\ r.ok THEN [r EXCEPT !.val = Unpack(r.val[2], c)] ELSE r

(* Results of building hold the bytes written so far in val. *)
BuildField(c, v, out, pos, ctx) ==
  LET s == IF c.kind = "format" THEN PackInt(v, c) ELSE v
  IN IF s = Error THEN [Fail("field", pos, ctx) EXCEPT !.val = out]
     ELSE IF s[1] # "bytes" THEN [Fail("python", pos, ctx) EXCEPT !.val = out]
     ELSE IF Len(s[2]) # FieldLength(c, ctx) THEN [Fail("field", pos, ctx) EXCEPT !.val = out]
     ELSE Ok(Write(out, pos, s[2]), pos + Len(s[2]), ctx)

-----------------------------------------------------------------------------
(* Repeaters *)

MetaArray(f, sub) ==
  [kind |-> "array", name |-> sub.name, embed |-> sub.embed, count |-> f,
   sub |-> sub, stops |-> {}]
RangeArray(min, max, sub) ==
  [kind |-> "range", name |-> sub.name, embed |-> sub.embed, min |-> min, max |-> max,
   sub |-> sub, stops |-> {}]
RepeatUntil(stops, sub) ==
  [kind |-> "until", name |-> sub.name, embed |-> sub.embed, stops |-> stops, sub |-> sub]
(* common/construct_utils.py: leaves the last element out; it only parses. *)
RepeatUntilExcluding(stops, sub) ==
  [RepeatUntil(stops, sub) EXCEPT !.kind = "excluding"]

Array(n, sub)            == MetaArray(Lit(n), sub)
OpenRange(min, sub)      == RangeArray(min, MaxSize, sub)
GreedyRange(sub)         == OpenRange(1, sub)
OptionalGreedyRange(sub) == OpenRange(0, sub)

(* At most n elements, each from where the one before ended.  end tells why  *)
(* the loop ended, at is where the last element began.                       *)
RECURSIVE Many(_, _, _, _, _, _)
Many(c, data, pos, ctx, n, got) ==
  IF n <= 0 THEN [end |-> "count", at |-> pos, pos |-> pos, ctx |-> ctx, got |-> got]
  ELSE LET r == Parse(c.sub, data, pos, ctx) IN
    IF ~r.ok
    THEN [end |-> IF r.err = "alias" THEN "alias" ELSE "error", at |-> pos, pos |-> r.pos, ctx |-> r.ctx, got |-> got]
    ELSE IF r.val \in c.stops
    THEN [end |-> "stop", at |-> pos, pos |-> r.pos, ctx |-> r.ctx,
          got |-> IF c.kind = "excluding" THEN got ELSE Append(got, r.val)]
    ELSE Many(c, data, r.pos, r.ctx, n - 1, Append(got, r.val))

(* except ConstructError: raise ArrayError("missing terminator") *)
UntilEnds(l) == l.end = "stop"

(* A range ends before the element that failed, as far as the stream goes;   *)
(* the context keeps what that element put there.                            *)
RangeEnds(l) == IF l.end = "error" THEN l.at ELSE l.pos

ParseMany(c, data, pos, ctx) ==
  LET n == CASE c.kind = "array" -> Apply(c.count, ctx)
             [] c.kind = "range" -> c.max
             [] OTHER            -> MaxSize
      l == Many(c, data, pos, ctx, n, << >>)
      all == << "list", l.got >>
  IN CASE l.end = "alias" -> Fail("alias", l.pos, l.ctx)
       [] c.kind = "range" ->
            IF l.end = "error" /\ Len(l.got) < c.min THEN Fail("construct", l.pos, l.ctx)
            ELSE Ok(all, RangeEnds(l), l.ctx)
       [] c.kind = "array" ->
            IF l.end = "error" THEN Fail("construct", l.pos, l.ctx) ELSE Ok(all, l.pos, l.ctx)
       [] OTHER ->
            IF UntilEnds(l) THEN Ok(all, l.pos, l.ctx) ELSE Fail("construct", l.pos, l.ctx)

RECURSIVE BuildItems(_, _, _, _, _, _)
BuildItems(c, items, k, out, pos, ctx) ==
  IF k > Len(items) THEN [end |-> "count", cnt |-> k - 1, r |-> Ok(out, pos, ctx)]
  ELSE LET r == Build(c.sub, items[k], out, pos, ctx) IN
    IF ~r.ok THEN [end |-> "error", cnt |-> k - 1, r |-> r]
    ELSE IF items[k] \in c.stops
    THEN [end |-> "stop", cnt |-> k, r |-> [r EXCEPT !.ctx = ctx]]
    ELSE BuildItems(c, items, k + 1, r.val, r.pos,
                    IF c.kind = "until" THEN ctx ELSE r.ctx)

(* _build() of a range swallows the error of an element beyond mincount: the *)
(* rest of the list is not written.  RepeatUntilExcluding cannot build.      *)
BuildMany(c, v, out, pos, ctx) ==
  LET Refuse(err) == [Fail(err, pos, ctx) EXCEPT !.val = out]
      l == BuildItems(c, Items(v), 1, out, pos, ctx)
      n == Len(Items(v))
  IN CASE c.kind = "excluding" \/ v[1] \notin {"list", "bytes"} -> Refuse("python")
       [] c.kind = "array" -> IF n # Apply(c.count, ctx) THEN Refuse("construct") ELSE l.r
       [] c.kind = "range" ->
            IF n < c.min \/ n > c.max THEN Refuse("construct")
            ELSE IF l.end = "error" /\ l.r.err # "python"
                 THEN IF l.cnt < c.min THEN [l.r EXCEPT !.err = "construct"]
                      ELSE [l.r EXCEPT !.ok = TRUE, !.err = ""]
                 ELSE l.r
       [] OTHER -> IF l.end = "count" THEN [l.r EXCEPT !.ok = FALSE, !.err = "construct"]
                   ELSE l.r

-----------------------------------------------------------------------------
(* Structures.  A named field enters both the object and the context; an     *)
(* embedded structure puts its fields into the object it finds in the        *)
(* context, and takes that object out of the context.  The object is passed   *)
(* by reference: what it holds by then is under TakenObj when the structure      *)
(* has ended, by an exception too.                                            *)

Struct(name, subs) ==
  [kind |-> "struct", name |-> name, embed |-> FALSE, subs |-> subs, nested |-> TRUE]
Sequence(name, subs, nested) ==
  [kind |-> "sequence", name |-> name, embed |-> FALSE, subs |-> subs, nested |-> nested]

Reconfig(name, sub, embed) == [Subconstruct("rename", sub) EXCEPT !.name = name, !.embed = embed]
Rename(name, sub) == Reconfig(name, sub, sub.embed)
Embedded(sub)     == Reconfig(sub.name, sub, TRUE)

Add(c, obj, sc, v) ==
  IF sc.name = NoName THEN obj
  ELSE IF c.kind = "struct" THEN Bind(obj, sc.name, v) ELSE Append(obj, v)

Held(obj, r) == IF TakenObj \in DOMAIN r.ctx THEN r.ctx[TakenObj] ELSE obj

(* An object that was offered and not taken, or that an alternative took from *)
(* its copy of the context, stays in the context: now it is the structure's   *)
(* own.                                                                      *)
Settled(ctx) == LET kept == Unbind(Unbind(ctx, TakenObj), Obj)
                IN IF Obj \in DOMAIN ctx THEN Bind(kept, Self, Nil) ELSE kept

(* obj is what the fields before k have made. *)
RECURSIVE Fields(_, _, _, _, _, _)
Fields(c, k, data, pos, ctx, obj) ==
  IF k > Len(c.subs) THEN Ok(obj, pos, ctx)
  ELSE LET sc == c.subs[k]
           given == IF sc.embed THEN Bind(Unbind(Unbind(ctx, TakenObj), Self), Obj, obj) ELSE ctx
           r == Parse(sc, data, pos, given)
           held == IF sc.embed THEN Held(obj, r) ELSE obj IN
    IF ~r.ok THEN [r EXCEPT !.val = held]
    ELSE IF sc.embed THEN Fields(c, k + 1, data, r.pos, Settled(r.ctx), held)
    ELSE Fields(c, k + 1, data, r.pos,
                IF sc.name = NoName THEN r.ctx ELSE Bind(r.ctx, sc.name, r.val),
                Add(c, obj, sc, r.val))

(* A structure that follows and is not embedded takes the object its own      *)
(* structure left in the context: the object comes to hold itself ("alias").  *)
ParseStruct(c, data, pos, ctx) ==
  LET given == Obj \in DOMAIN ctx
      fresh == IF c.kind = "struct" THEN Empty ELSE << >>
      own   == ~given /\ c.nested
      ctx1  == IF given THEN Unbind(ctx, Obj) ELSE IF own THEN Empty ELSE ctx
      r     == Fields(c, 1, data, pos, ctx1, IF given THEN ctx[Obj] ELSE fresh)
      tag   == IF c.kind = "struct" THEN "obj" ELSE "list"
  IN IF Self \in DOMAIN ctx THEN Fail("alias", pos, ctx)
     ELSE [r EXCEPT !.val = IF r.ok THEN << tag, @ >> ELSE Nil,
                    !.ctx = IF own THEN ctx ELSE IF given THEN Bind(@, TakenObj, r.val) ELSE @]

(* Building: the object with its fields, or the items left of a sequence.     *)
(* What is embedded in a sequence takes its items from the same iterator,     *)
(* and what it leaves of them is under Left when it has ended.                *)
Leave(ctx, v) == IF v[1] = "iter" THEN Bind(ctx, Left, v[2]) ELSE Unbind(ctx, Left)

RECURSIVE BuildFields(_, _, _, _, _, _)
BuildFields(c, k, v, out, pos, ctx) ==
  IF k > Len(c.subs) THEN Ok(out, pos, Leave(ctx, v))
  ELSE LET sc == c.subs[k]
           isObj == c.kind = "struct"
           named == sc.name # NoName
           lacks == IF ~named \/ sc.embed THEN FALSE
                    ELSE IF isObj THEN IF v[1] = "obj" THEN sc.name \notin DOMAIN v[2] ELSE TRUE
                    ELSE IF v[1] \in {"list", "bytes", "iter"} THEN Items(v) = << >> ELSE TRUE
           it == IF sc.embed THEN IF isObj THEN v ELSE << "iter", v[2] >>
                 ELSE IF ~named THEN Nil
                 ELSE IF isObj THEN v[2][sc.name] ELSE Head(Items(v))
           ctx1 == IF sc.embed THEN Bind(Unbind(ctx, Left), Unnest, Nil)
                   ELSE IF named THEN Bind(ctx, sc.name, it) ELSE ctx
           rest(ctx2) == IF isObj THEN v
                         ELSE IF sc.embed THEN << v[1], IF Left \in DOMAIN ctx2 THEN ctx2[Left] ELSE v[2] >>
                         ELSE IF named THEN << v[1], Tail(v[2]) >> ELSE v IN
    IF lacks THEN [Fail("python", pos, Leave(ctx, v)) EXCEPT !.val = out]
    ELSE LET r == Build(sc, it, out, pos, ctx1) IN
      IF ~r.ok THEN [r EXCEPT !.ctx = Leave(@, rest(@))]
      ELSE BuildFields(c, k + 1, rest(r.ctx), r.val, r.pos, r.ctx)

BuildStruct(c, v, out, pos, ctx) ==
  LET un  == Unnest \in DOMAIN ctx
      own == ~un /\ c.nested
      r   == BuildFields(c, 1, v, out, pos,
                         IF un THEN Unbind(ctx, Unnest) ELSE IF own THEN Empty ELSE ctx)
  IN IF own THEN [r EXCEPT !.ctx = ctx] ELSE r

-----------------------------------------------------------------------------
(* Conditionals *)

(* cases is a function from keys; default is NoDefault or a construct. *)
NoDefault == [kind |-> "nodefault", name |-> NoName, embed |-> FALSE]
Switch(name, f, cases, default) ==
  [kind |-> "switch", name |-> name, embed |-> InheritFlags(cases),
   key |-> f, cases |-> cases, default |-> default]

CaseOf(c, ctx) ==
  LET key == Apply(c.key, ctx)
  IN IF key \in DOMAIN c.cases THEN c.cases[key] ELSE c.default

Select(name, subs) ==
  [kind |-> "select", name |-> name, embed |-> InheritFlags(subs),
   subs |-> subs]

(* An alternative works in a copy of the context, on the same object or       *)
(* iterator: what it did to that stays, whether it matched or not.            *)
Shared(ctx, ctx2) ==
  LET keep == [x \in {TakenObj, Left} \cap DOMAIN ctx2 |-> ctx2[x]] @@ ctx
  IN IF {Obj, TakenObj} \subseteq DOMAIN keep THEN [keep EXCEPT ![Obj] = keep[TakenObj]] ELSE keep

(* __update__(): entries the copy has lost are kept. *)
Merged(ctx, ctx2) == ctx2 @@ Shared(ctx, ctx2)

(* The first that matches, each tried from the same place. *)
RECURSIVE FirstParsed(_, _, _, _, _)
FirstParsed(subs, k, data, pos, ctx) ==
  IF k > Len(subs) THEN Fail("construct", pos, ctx)
  ELSE LET r == Parse(subs[k], data, pos, ctx)
       IN IF r.err = "alias" THEN r
          ELSE IF r.ok THEN [r EXCEPT !.ctx = Merged(ctx, @)]
          ELSE FirstParsed(subs, k + 1, data, pos, Shared(ctx, r.ctx))

(* ... each into a stream of its own, and whatever the exception. *)
RECURSIVE FirstBuilt(_, _, _, _, _, _)
FirstBuilt(subs, k, v, out, pos, ctx) ==
  IF k > Len(subs) THEN [Fail("construct", pos, ctx) EXCEPT !.val = out]
  ELSE LET r == Build(subs[k], v, << >>, 0, ctx)
           left == IF v[1] = "iter" /\ Left \in DOMAIN r.ctx THEN << v[1], r.ctx[Left] >> ELSE v
       IN IF r.ok THEN Ok(Write(out, pos, r.val), pos + Len(r.val), Merged(ctx, r.ctx))
          ELSE FirstBuilt(subs, k + 1, left, out, pos, Shared(ctx, r.ctx))

-----------------------------------------------------------------------------
(* Stream manipulation, and constructs that read nothing *)

Pointer(f, sub) ==
  [kind |-> "pointer", name |-> sub.name, embed |-> sub.embed, offset |-> f, sub |-> sub]

(* After an exception the stream stays where the pointer led. *)
ParsePointer(c, data, pos, ctx) ==
  LET r == Parse(c.sub, data, Apply(c.offset, ctx), ctx)
  IN IF r.ok THEN [r EXCEPT !.pos = pos] ELSE r

BuildPointer(c, v, out, pos, ctx) ==
  LET r == Build(c.sub, v, out, Apply(c.offset, ctx), ctx)
  IN IF r.ok THEN [r EXCEPT !.pos = pos] ELSE r

Peek(sub, builds) ==
  [kind |-> "peek", name |-> sub.name, embed |-> sub.embed, sub |-> sub, builds |-> builds]

(* Only a short read is swallowed; the stream goes back in any case. *)
ParsePeek(c, data, pos, ctx) ==
  LET r == Parse(c.sub, data, pos, ctx)
  IN IF r.err = "field" THEN Ok(Nil, pos, r.ctx) ELSE [r EXCEPT !.pos = pos]

(* Every member reads the same bytes; the master's size is then skipped. *)
Union(name, master, subs) ==
  [kind |-> "union", name |-> name, embed |-> FALSE,
   parser |-> Struct(name, << Peek(master, TRUE) >>
                           \o [k \in DOMAIN subs |-> Peek(subs[k], FALSE)]
                           \o << MetaField(NoName, << "size", master >>) >>),
   builder |-> Struct(name, << master >>)]

(* encode_bin(), decode_bin(): a byte is a sequence of bits, the highest     *)
(* first, and back.                                                          *)
EncodeBin(s) ==
  [i \in 1..(Len(s) * ByteBits) |->
     (s[(i - 1) \div ByteBits + 1] \div 2^(ByteBits - 1 - ((i - 1) % ByteBits))) % 2]
DecodeBin(s) ==
  [i \in 1..(Len(s) \div ByteBits) |->
     Number(SubSeq(s, (i - 1) * ByteBits + 1, i * ByteBits), 2)]

(* Bitwise, for a construct of a fixed size: Buffered. *)
Bitwise(sub) == Subconstruct("bits", sub)

ParseBits(c, data, pos, ctx) ==
  LET n == Sizeof(c, ctx)
      r == ReadStream(n, data, pos, ctx)
  IN IF n < 0 THEN Fail("construct", pos, ctx)
     ELSE IF ~r.ok THEN r
     ELSE [Parse(c.sub, EncodeBin(r.val[2]), 0, ctx) EXCEPT !.pos = pos + n]

BuildBits(c, v, out, pos, ctx) ==
  LET r == Build(c.sub, v, << >>, 0, ctx)
  IN IF ~r.ok THEN [r EXCEPT !.val = out, !.pos = pos]
     ELSE Ok(Write(out, pos, DecodeBin(r.val)), pos + Len(DecodeBin(r.val)), r.ctx)

Anchor(name)   == [kind |-> "anchor", name |-> name, embed |-> FALSE]
Value(name, f) == [kind |-> "value", name |-> name, embed |-> FALSE, func |-> f]
Alias(name, x) == Value(name, << "alias", x >>)
Pass           == [kind |-> "pass", name |-> NoName, embed |-> FALSE]
Terminator     == [kind |-> "end", name |-> NoName, embed |-> FALSE]

Computed(f, ctx) == CASE f[1] = "alias" -> ctx[f[2]]
                      [] f[1] = "none"  -> Nil
                      [] OTHER          -> << "int", Apply(f, ctx) >>

ParseNothing(c, data, pos, ctx) ==
  CASE c.kind = "anchor" -> Ok(<< "int", pos >>, pos, ctx)
    [] c.kind = "value"  -> Ok(Computed(c.func, ctx), pos, ctx)
    [] c.kind = "pass"   -> Ok(Nil, pos, ctx)
    [] c.kind = "end"    -> IF pos < Len(data) THEN Fail("construct", pos + 1, ctx)
                            ELSE Ok(Nil, pos, ctx)

BuildNothing(c, v, out, pos, ctx) ==
  CASE c.kind = "anchor" -> Ok(out, pos, Bind(ctx, c.name, << "int", pos >>))
    [] c.kind = "value"  -> Ok(out, pos, Bind(ctx, c.name, Computed(c.func, ctx)))
    [] OTHER -> IF v = Nil THEN Ok(out, pos, ctx)
                ELSE [Fail("python", pos, ctx) EXCEPT !.val = out]

-----------------------------------------------------------------------------
(* Adapters: _decode() after parsing, _encode() before building. *)

Adapter(kind, sub, arg) == Subconstruct(kind, sub) @@ [arg |-> arg]

(* arg is the decoding, a function from values to names, with what becomes   *)
(* of the others: "none" refuses them, "pass" lets them through, a name      *)
(* stands for them.  The encoding is its inverse.                            *)
MappingAdapter(sub, decoding, default) == Adapter("mapping", sub, << decoding, default >>)
Enum(sub, mapping, default) ==
  MappingAdapter(sub, [v \in {<< "int", k >> : k \in DOMAIN mapping} |-> mapping[v[2]]], default)
Flag(name) ==
  MappingAdapter(Field(name, Lit(1)), [v \in {<< "bytes", << b >> >> : b \in 0..1} |->
                                         IF v[2] = << 1 >> THEN "true" ELSE "false"], "false")
FlagsAdapter(sub, flags)      == Adapter("flags", sub, flags)   \* name -> one bit
FlagsEnum(sub, flags)         == FlagsAdapter(sub, flags)
ConstAdapter(sub, value)      == Adapter("const", sub, value)
Validator(sub, valid)         == Adapter("valid", sub, valid)   \* << listed, accepted >>
OneOf(sub, valids)            == Validator(sub, << valids, TRUE >>)
NoneOf(sub, invalids)         == Validator(sub, << invalids, FALSE >>)
PaddingAdapter(sub, strict)   == Adapter("padding", sub, strict)
LengthValueAdapter(sub)       == Adapter("lengthvalue", sub, 0)
CStringAdapter(sub)           == Adapter("cstring", sub, 0)
IndexingAdapter(sub)          == Adapter("index", sub, 0)    \* of index 0
SlicingAdapter(sub, start)    == Adapter("slice", sub, start)
ExprAdapter(sub, k)           == Adapter("expr", sub, k)     \* obj * k, and obj / k
TunnelAdapter(sub, inner)     == Adapter("tunnel", sub, inner)
PaddedStringAdapter(sub, pad) == Adapter("padded", sub, pad) \* on the right
BitIntegerAdapter(sub, swapped, signed) == Adapter("bitint", sub, << swapped, signed >>)

Adapters == {"mapping", "flags", "const", "valid", "padding", "lengthvalue", "cstring", "index", "slice",
             "expr", "padded", "bitint", "initial", "uleb", "sleb"}

(* A part of a byte, if the bits do not fill the last one, comes first. *)
SwapBytes(bits) ==
  LET n == Len(bits) \div ByteBits
      part(j) == SubSeq(bits, j * ByteBits + 1, Min({(j + 1) * ByteBits, Len(bits)}))
  IN FlattenSeq([i \in 1..(n + 1) |-> part(n + 1 - i)])

BinToInt(s, signed) ==
  LET n == Number(s, 2) IN IF signed /\ 2 * n >= 2^Len(s) THEN n - 2^Len(s) ELSE n

RStrip(s, pad) ==
  LET keep == {i \in 0..Len(s) : \A j \in (i + 1)..Len(s) : s[j] = pad}
  IN SubSeq(s, 1, Min(keep))

(* dwarf/structs.py: seven bits of a byte, the highest one set while more    *)
(* bytes follow.                                                             *)
Half == Base \div 2
LebDigits(v) == [i \in DOMAIN v[2] |-> v[2][i][2][1] % Half]

ULeb(v) == Number(Reverse(LebDigits(v)), Half)
SLebUnsigned(v) == ULeb(v)             \* mutant: the sign bit is not looked at
SLeb(v) == LET n == Len(v[2])
           IN IF 2 * LebDigits(v)[n] >= Half THEN ULeb(v) - Half^n ELSE ULeb(v)

(* The values from Reserved on, but for the last, say nothing of a length.   *)
Escape   == Base - 1
Reserved == Base - 2
InitialLength(o) == IF o["first"][2] < Reserved THEN o["first"]
                    ELSE IF o["first"][2] = Escape THEN o["second"] ELSE Error

Accepted(c, v) == IF (v \in c.arg[1]) = c.arg[2] THEN v ELSE Error

Decode(c, v) ==
  CASE c.kind = "mapping" -> IF v \in DOMAIN c.arg[1] THEN << "name", c.arg[1][v] >>
                             ELSE CASE c.arg[2] = "pass" -> v
                                    [] c.arg[2] = "none" -> Error
                                    [] OTHER             -> << "name", c.arg[2] >>
    [] c.kind = "flags" -> << "obj", [x \in DOMAIN c.arg |-> << "int", (v[2] \div c.arg[x]) % 2 >>] >>
    [] c.kind = "const" -> IF v = c.arg THEN v ELSE Error
    [] c.kind = "valid" -> Accepted(c, v)
    [] c.kind = "slice" -> << "list", SubSeq(v[2], c.arg + 1, Len(v[2])) >>
    [] c.kind = "expr"  -> << "int", v[2] * c.arg >>
    [] c.kind = "padding" ->
         IF c.arg /\ \E i \in DOMAIN v[2] : v[2][i] # 0 THEN Error ELSE v
    [] c.kind = "lengthvalue" -> v[2][2]
    [] c.kind = "cstring" -> << "bytes", FlattenSeq([i \in 1..(Len(v[2]) - 1) |-> v[2][i][2]]) >>
    [] c.kind = "index"   -> v[2][1]
    [] c.kind = "padded"  -> << "bytes", RStrip(v[2], c.arg) >>
    [] c.kind = "bitint"  -> << "int", BinToInt(IF c.arg[1] THEN SwapBytes(v[2]) ELSE v[2], c.arg[2]) >>
    [] c.kind = "initial" -> InitialLength(v[2])
    [] c.kind = "uleb"    -> << "int", ULeb(v) >>
    [] c.kind = "sleb"    -> << "int", SLeb(v) >>

Bits(n, width) == [i \in 1..width |-> (n \div 2^(width - i)) % 2]

(* The adapters of dwarf/structs.py have no _encode(). *)
Encode(c, v, ctx) ==
  LET size == Sizeof(c.sub, ctx) IN
  CASE c.kind = "mapping" ->
         LET keys == {k \in DOMAIN c.arg[1] : << "name", c.arg[1][k] >> = v}
         IN IF keys # {} THEN CHOOSE k \in keys : TRUE ELSE IF c.arg[2] = "pass" THEN v ELSE Error
    [] c.kind = "flags" -> << "int", MapThenSumSet(LAMBDA x : c.arg[x] * v[2][x][2], DOMAIN c.arg) >>
    [] c.kind = "const" -> IF v \in {Nil, c.arg} THEN c.arg ELSE Error
    [] c.kind = "valid" -> Accepted(c, v)
    [] c.kind = "slice" -> << "list", [i \in 1..c.arg |-> Nil] \o v[2] >>
    [] c.kind = "expr"  -> << "int", v[2] \div c.arg >>
    [] c.kind = "padding" -> << "bytes", [i \in 1..size |-> 0] >>
    [] c.kind = "lengthvalue" -> << "list", << << "int", Len(Items(v)) >>, v >> >>
    [] c.kind = "cstring" -> << "bytes", Append(v[2], 0) >>
    [] c.kind = "index"   -> << "list", << v >> >>
    [] c.kind = "padded"  -> << "bytes", [i \in 1..size |-> IF i <= Len(v[2]) THEN v[2][i] ELSE c.arg] >>
    [] c.kind = "bitint"  -> IF v[2] < 0 /\ ~c.arg[2] THEN Error
                             ELSE << "bytes", IF c.arg[1] THEN SwapBytes(Bits(v[2], size)) ELSE Bits(v[2], size) >>
    [] OTHER -> Error

ParseAdapter(c, data, pos, ctx) ==
  LET r == Parse(c.sub, data, pos, ctx)
      v == Decode(c, r.val)
  IN IF ~r.ok THEN r
     ELSE IF v = Error THEN Fail("construct", r.pos, r.ctx) ELSE [r EXCEPT !.val = v]

BuildAdapter(c, v, out, pos, ctx) ==
  LET e == Encode(c, v, ctx)
  IN IF e = Error THEN [Fail("construct", pos, ctx) EXCEPT !.val = out]
     ELSE Build(c.sub, e, out, pos, ctx)

(* The inner construct has a stream of its own, and the same context. *)
ParseTunnel(c, data, pos, ctx) ==
  LET r == Parse(c.sub, data, pos, ctx)
  IN IF r.ok THEN [Parse(c.arg, r.val[2], 0, r.ctx) EXCEPT !.pos = r.pos] ELSE r

BuildTunnel(c, v, out, pos, ctx) ==
  LET r == Build(c.arg, v, << >>, 0, ctx)
  IN IF r.ok THEN Build(c.sub, << "bytes", r.val >>, out, pos, r.ctx)
     ELSE [r EXCEPT !.val = out, !.pos = pos]

-----------------------------------------------------------------------------
(* The methods *)

Parse(c, data, pos, ctx) ==
  CASE c.kind \in {"static", "format", "meta"}               -> ParseField(c, data, pos, ctx)
    [] c.kind \in {"array", "range", "until", "excluding"}   -> ParseMany(c, data, pos, ctx)
    [] c.kind \in {"struct", "sequence"}                     -> ParseStruct(c, data, pos, ctx)
    [] c.kind \in Adapters                                   -> ParseAdapter(c, data, pos, ctx)
    [] c.kind \in {"anchor", "value", "pass", "end"}         -> ParseNothing(c, data, pos, ctx)
    [] c.kind = "rename"    -> Parse(c.sub, data, pos, ctx)
    [] c.kind = "union"     -> ParseStruct(c.parser, data, pos, ctx)
    [] c.kind = "switch"    -> Parse(CaseOf(c, ctx), data, pos, ctx)
    [] c.kind = "nodefault" -> Fail("construct", pos, ctx)
    [] c.kind = "select"    -> FirstParsed(c.subs, 1, data, pos, ctx)
    [] c.kind = "pointer"   -> ParsePointer(c, data, pos, ctx)
    [] c.kind = "peek"      -> ParsePeek(c, data, pos, ctx)
    [] c.kind = "bits"      -> ParseBits(c, data, pos, ctx)
    [] c.kind = "tunnel"    -> ParseTunnel(c, data, pos, ctx)

Build(c, v, out, pos, ctx) ==
  CASE c.kind \in {"static", "format", "meta"}               -> BuildField(c, v, out, pos, ctx)
    [] c.kind \in {"array", "range", "until", "excluding"}   -> BuildMany(c, v, out, pos, ctx)
    [] c.kind \in {"struct", "sequence"}                     -> BuildStruct(c, v, out, pos, ctx)
    [] c.kind \in Adapters                                   -> BuildAdapter(c, v, out, pos, ctx)
    [] c.kind \in {"anchor", "value", "pass", "end"}         -> BuildNothing(c, v, out, pos, ctx)
    [] c.kind = "rename"    -> Build(c.sub, v, out, pos, ctx)
    [] c.kind = "union"     -> BuildStruct(c.builder, v, out, pos, ctx)
    [] c.kind = "switch"    -> Build(CaseOf(c, ctx), v, out, pos, ctx)
    [] c.kind = "nodefault" -> [Fail("construct", pos, ctx) EXCEPT !.val = out]
    [] c.kind = "select"    -> FirstBuilt(c.subs, 1, v, out, pos, ctx)
    [] c.kind = "pointer"   -> BuildPointer(c, v, out, pos, ctx)
    [] c.kind = "peek"      -> IF c.builds THEN Build(c.sub, v, out, pos, ctx)
                               ELSE Ok(out, pos, ctx)
    [] c.kind = "bits"      -> BuildBits(c, v, out, pos, ctx)
    [] c.kind = "tunnel"    -> BuildTunnel(c, v, out, pos, ctx)

Unsized == -1                          \* SizeofError

Sizes(subs, ctx) ==
  LET all == [k \in DOMAIN subs |-> Sizeof(subs[k], ctx)]
  IN IF Unsized \in ToSet(all) THEN Unsized ELSE FoldLeft(LAMBDA n, m : n + m, 0, all)

Sizeof(c, ctx) ==
  CASE c.kind \in {"static", "format"} -> c.length
    [] c.kind = "meta"   -> IF Known(c.length, ctx) THEN Apply(c.length, ctx) ELSE Unsized
    [] c.kind = "array"  -> LET n == Sizeof(c.sub, ctx)
                            IN IF n = Unsized \/ ~Known(c.count, ctx) THEN Unsized
                               ELSE n * Apply(c.count, ctx)
    [] c.kind = "struct"   -> Sizes(c.subs, Empty)
    [] c.kind = "sequence" -> Sizes(c.subs, IF c.nested THEN Empty ELSE ctx)
    [] c.kind = "union"    -> Sizeof(c.builder, ctx)
    [] c.kind = "switch" -> IF Known(c.key, ctx) THEN Sizeof(CaseOf(c, ctx), ctx) ELSE Unsized
    [] c.kind = "bits"   -> LET n == Sizeof(c.sub, ctx)
                            IN IF n = Unsized \/ n % ByteBits # 0 THEN Unsized ELSE n \div ByteBits
    [] c.kind \in Adapters \cup {"rename", "tunnel"} -> Sizeof(c.sub, ctx)
    [] c.kind \in {"pointer", "peek", "anchor", "value", "pass", "end"} -> 0
    [] OTHER -> Unsized

-----------------------------------------------------------------------------
(* Macros *)

Padding(f)            == PaddingAdapter(Field(NoName, f), FALSE)
Magic(s)              == ConstAdapter(Field(NoName, Lit(Len(s))), << "bytes", s >>)
BitField(name, n, swapped, signed) == BitIntegerAdapter(Field(name, Lit(n)), swapped, signed)
Bit(name)             == BitField(name, 1, FALSE, FALSE)
BitStruct(name, subs) == Bitwise(Struct(name, subs))
EmbeddedBitStruct(subs) == Bitwise(Embedded(Struct(NoName, subs)))
Optional(sub)         == Select(sub.name, << sub, Pass >>)
SeqOfOne(name, subs, nested) == IndexingAdapter(Sequence(name, subs, nested))
Aligned(sub, modulus) == SeqOfOne(sub.name, << sub, Padding(<< "pad", sub, modulus >>) >>, FALSE)
AlignedStruct(name, subs, modulus) == Struct(name, [k \in DOMAIN subs |-> Aligned(subs[k], modulus)])
PrefixedArray(sub, field) ==
  LengthValueAdapter(Sequence(sub.name, << field, MetaArray(Ctx(field.name), sub) >>, FALSE))
PascalString(name, field) ==
  LengthValueAdapter(Sequence(name, << field, MetaField("data", Ctx(field.name)) >>, TRUE))
PaddedString(name, n, pad) == PaddedStringAdapter(Field(name, Lit(n)), pad)
CString(name) ==
  Rename(name, CStringAdapter(RepeatUntil({<< "bytes", << 0 >> >>}, Field(NoName, Lit(1)))))
IfThenElse(name, f, then, else) ==
  Switch(name, f, [b \in BOOLEAN |-> IF b THEN then ELSE else], NoDefault)
If(f, sub) == IfThenElse(sub.name, f, sub, Value("elsevalue", << "none" >>))

-----------------------------------------------------------------------------
(* A stream of any content is parsed, the value is built again, and what was *)
(* built is parsed again.                                                    *)

VARIABLES
  gram,       \* the construct, an index of Grammars
  stream,     \* the bytes it is given
  parsed,     \* result of parse_stream()
  built,      \* result of build()
  reparsed,   \* result of parse() of what was built
  conPc       \* "parse", "build", "reparse" or "done"

conVars == << gram, stream, parsed, built, reparsed, conPc >>

Bytes == 0..(Base - 1)
NoResult == Ok(Nil, 0, Empty)

ConInit ==
  /\ gram \in DOMAIN Grammars
  /\ stream \in UNION {[1..n -> Bytes] : n \in 0..MaxData}
  /\ parsed = NoResult /\ built = NoResult /\ reparsed = NoResult
  /\ conPc = "parse"

ParseStream ==
  /\ conPc = "parse"
  /\ parsed' = Parse(Grammars[gram], stream, 0, Empty)
  /\ conPc' = IF parsed'.ok THEN "build" ELSE "done"
  /\ UNCHANGED << gram, stream, built, reparsed >>

BuildStream ==
  /\ conPc = "build"
  /\ built' = Build(Grammars[gram], parsed.val, << >>, 0, Empty)
  /\ conPc' = IF built'.ok THEN "reparse" ELSE "done"
  /\ UNCHANGED << gram, stream, parsed, reparsed >>

ParseAgain ==
  /\ conPc = "reparse"
  /\ reparsed' = Parse(Grammars[gram], built.val, 0, Empty)
  /\ conPc' = "done"
  /\ UNCHANGED << gram, stream, parsed, built >>

ConNext == ParseStream \/ BuildStream \/ ParseAgain
ConSpec == ConInit /\ [][ConNext]_conVars

-----------------------------------------------------------------------------
(* Of the grammars of the run: a value that was parsed can be built, and      *)
(* what is built parses to the same value, whichever bytes lay in the        *)
(* padding and in the stretches a pointer skipped.  Not of every grammar: an  *)
(* embedded alternative that failed late leaves its fields in the object, and *)
(* then builds in place of the one that matched.                              *)
RoundTrip ==
  /\ conPc = "done" /\ parsed.ok => built.ok /\ reparsed.ok /\ reparsed.val = parsed.val
  /\ parsed.err # "alias"

(* Where sizeof() answers, without a context, that many bytes are consumed:  *)
(* Union, Aligned and Bitwise skip by it.                                    *)
SizeIsConsumed ==
  parsed.ok /\ conPc # "parse" /\ Sizeof(Grammars[gram], Empty) # Unsized
    => parsed.pos = Sizeof(Grammars[gram], Empty)

(* What a parse consumes decides what it returns: those bytes alone parse to *)
(* the same value, so that a range, a select, a peek or a union leaves the   *)
(* stream just behind what it took.  A pointer may lead elsewhere.           *)
PrefixDecides ==
  LET g == Grammars[gram]
      leads == IF "subs" \in DOMAIN g THEN \E k \in DOMAIN g.subs : g.subs[k].kind = "pointer"
               ELSE FALSE
      r == Parse(g, SubSeq(stream, 1, parsed.pos), 0, Empty)
  IN conPc # "parse" /\ parsed.ok /\ ~leads =>
       /\ parsed.pos \in 0..Len(stream)
       /\ r.ok /\ r.val = parsed.val /\ r.pos = parsed.pos

(* _parse(), _build() and _sizeof() of a construct agree with each other.    *)
ParseBuildAgree == RoundTrip /\ SizeIsConsumed /\ PrefixDecides
=============================================================================
