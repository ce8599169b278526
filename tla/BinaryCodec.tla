----------------------------- MODULE BinaryCodec -----------------------------
(***************************************************************************)
(* The binary families: toBinary and fromBinary.  The writer and the       *)
(* reader are emitted from the type on their own and agree on nothing but  *)
(* the order of what goes by.  The bytes are a sequence of tokens, one per *)
(* write, tagged by width: a reader that asks for another width than the   *)
(* one that comes next has lost its place.                                 *)
(***************************************************************************)
EXTENDS JsonWire

\* Declared ahead of the definitions they are made of.
RECURSIVE WritesNothing(_)
RECURSIVE Write(_, _)
RECURSIVE Read(_, _)

Tok(tag, of) == [tag |-> tag, of |-> of]
Length(n) == Tok("length", n)
Bits(set) == Tok("bits", set)
Fault(why) == Tok("thrown", why)

\* emit...ToBinary leaves no code: nothing in the value tells two apart.
WritesNothing(t0) ==
    LET t == Resolve(t0)
    IN  \/ t.kind = "literal"
        \/ /\ t.kind = "object" /\ ~WalksIndex(t)
           /\ \A i \in DOMAIN DataFields(t) :
                ~DataFields(t)[i].optional /\ WritesNothing(DataFields(t)[i].type)
        \/ /\ t.kind = "tuple"
           /\ \A i \in DOMAIN t.slots :
                /\ ~t.slots[i].optional
                /\ WritesNothing(t.slots[i].type)

\* emitTupleFromBinary starts `ret = []`, but not for a tuple of no slots.
ReadsNothing(t) == Resolve(t).kind = "tuple" /\ Resolve(t).slots = <<>>

Optionals(s) == {i \in DOMAIN s : s[i].optional}
Requireds(s) == SelectSeq(s, LAMBDA x : ~x.optional)

-----------------------------------------------------------------------------
\* serEnum writes the number of an enum member as an unsigned word.
AsUint32(v) == IF v = Num("-1") THEN Num("4294967295") ELSE v

\* A bitmap of the optional ones that are there, then each of those.
WriteOptionals(n, writes) ==
    IF n = 0 THEN <<>>
    ELSE <<Bits(DOMAIN writes)>> \o FlattenSeq([i \in 1 .. n |-> IF i \in DOMAIN writes THEN writes[i] ELSE <<>>])

\* emitIndexSignatureToBinary: the count is put in front once the loop is over.
WriteEntries(t, v) ==
    LET Entry(k) == <<Tok("string", k)>> \o Write(t.index[1], v.props[k])
        keys == SetToSeq(IndexKeys(t, v))
    IN  IF WalksIndex(t) THEN <<Tok("count", Len(keys))>> \o FlattenSeq([i \in DOMAIN keys |-> Entry(keys[i])]) ELSE <<>>

\* emitPropertyToBinary
WriteField(f, v) == Write(f.type, Prop(v, f.name))

WriteObject(t, v) ==
    LET optional == SelectSeq(DataFields(t), LAMBDA f : f.optional)
        present == {i \in DOMAIN optional : Prop(v, optional[i].name) # Undefined}
        required == Requireds(DataFields(t))
    IN  FlattenSeq([i \in DOMAIN required |-> WriteField(required[i], v)])
        \o WriteOptionals(Len(optional), [i \in present |-> WriteField(optional[i], v)])
        \o WriteEntries(t, v)

\* emitTupleMemberToBinary: the rest's count is the value's length less the
\* fixed slots, whatever the value leaves out.
WriteRest(t, v) ==
    LET rest == SubSeq(v.items, Fixed(t) + 1, Len(v.items))
    IN  CASE ~HasRest(t) \/ WritesNothing(Last(t.slots).type) -> <<>>
          [] Len(v.items) < Fixed(t) -> <<Tok("underflow", "length")>>
          [] OTHER -> <<Length(Len(v.items) - Fixed(t))>>
                      \o FlattenSeq([i \in DOMAIN rest |-> Write(Last(t.slots).type, rest[i])])

WriteTuple(t, v) ==
    LET fixed == SubSeq(t.slots, 1, Fixed(t))
        required == SetToSortSeq(DOMAIN fixed \ Optionals(fixed), <)
        optional == SetToSortSeq(Optionals(fixed), <)
        present == {j \in DOMAIN optional : ItemAt(v, optional[j]) # Undefined}
        Required(i) == Write(fixed[required[i]].type, ItemAt(v, required[i]))
        given == [j \in present |-> Write(fixed[optional[j]].type, ItemAt(v, optional[j]))]
    IN  FlattenSeq([i \in DOMAIN required |-> Required(i)]) \o WriteOptionals(Len(optional), given) \o WriteRest(t, v)

\* emitMergedPropToBinary: the candidate's number, then the candidate; nothing
\* when none takes the value.
WriteAs(cs, i, x) ==
    CASE Len(cs) = 1 -> Write(cs[1], x)
      [] Len(cs) > 1 /\ i = 0 -> <<>>
      [] OTHER -> <<Tok("byte", ToString(i))>> \o Write(cs[i], x)
WriteMergedProp(cs, x) == WriteAs(cs, FirstOf({i \in DOMAIN cs : MemberValid(cs[i], x)}), x)

MergedRequired(os) == SelectSeq(MergedNames(os), LAMBDA n : RequiredIn(os, n))
MergedOptional(os) == SelectSeq(MergedNames(os), LAMBDA n : ~RequiredIn(os, n))

MergedPresent(os, optional, v) ==
    {i \in DOMAIN optional : Prop(v, optional[i]) # Undefined /\ Survives(os, optional[i], v)}
WriteMergedNames(os, names, picked, v) ==
    [i \in picked |-> WriteMergedProp(Candidates(os, names[i]), Prop(v, names[i]))]
WriteMerged(os, required, optional, v) ==
    FlattenSeq(WriteMergedNames(os, required, DOMAIN required, v))
    \o WriteOptionals(Len(optional), WriteMergedNames(os, optional, MergedPresent(os, optional, v), v))

\* emitUnionToBinaryFlat
WriteArm(t, arm, v) ==
    CASE arm = 0 -> <<Fault("no union member")>>
      [] IsObjectArm(t, arm) ->
           <<Tok("byte", "object")>> \o WriteMerged(Objects(t), MergedRequired(Objects(t)), MergedOptional(Objects(t)), v)
      [] OTHER -> <<Tok("byte", ToString(arm))>> \o Write(DataMembers(t)[arm], v)
WriteUnion(t, v) == WriteArm(t, TheArm(t, v), v)

WriteArray(t, v) ==
    <<Length(Len(v.items))>> \o FlattenSeq([i \in DOMAIN v.items |-> Write(t.child, v.items[i])])
WriteIterable(t, v) ==
    LET Pair(e) == Write(t.inner[1], e.items[1]) \o Write(t.inner[2], e.items[2])
        Item(e) == IF t.kind = "map" THEN Pair(e) ELSE Write(t.inner[1], e)
    IN  <<Length(Len(v.items))>> \o FlattenSeq([i \in DOMAIN v.items |-> Item(v.items[i])])

Write(t0, v) ==
    LET t == Resolve(t0)
    IN  CASE t.kind \in {"null", "undefined", "void", "boolean"} -> <<Tok("byte", v.of)>>
          [] t.kind \in {"number", "date"} -> <<Tok("double", v.of)>>
          [] t.kind \in {"string", "bigint"} -> <<Tok("string", v.of)>>
          [] t.kind \in {"any", "unknown"} -> <<Tok("json", Text(v))>>
          [] t.kind = "regexp" -> <<Tok("string", v.of), Tok("string", "flags")>>
          [] t.kind = "enum" -> <<Tok("enum", AsUint32(v))>>
          [] t.kind = "array" -> WriteArray(t, v)
          [] t.kind \in {"map", "set"} -> WriteIterable(t, v)
          [] t.kind = "tuple" -> WriteTuple(t, v)
          [] t.kind = "object" -> WriteObject(t, v)
          [] t.kind = "union" -> WriteUnion(t, v)
          [] OTHER -> <<>>

-----------------------------------------------------------------------------
(* Readers: what is read, and the tokens that are left. *)

Lost == [value |-> Thrown("out of place"), rest |-> <<>>]
Got(value, rest) == [value |-> value, rest |-> rest]
Next1(tag, rest) == rest # <<>> /\ rest[1].tag = tag

\* One after the other: the values and what is left.
AndThen(value, others) == [values |-> <<value>> \o others.values, rest |-> others.rest]
RECURSIVE ReadEach(_, _)
ReadOthers(first, types) == AndThen(first.value, ReadEach(types, first.rest))
ReadEach(types, rest) ==
    IF types = <<>> THEN [values |-> <<>>, rest |-> rest] ELSE ReadOthers(Read(types[1], rest), Tail(types))

Repeat(types, n) == FlattenSeq([i \in 1 .. n |-> types])
Broken(read) == \E i \in DOMAIN read.values : Threw(read.values[i])

\* readOptionalBitmapInit and the bit checks: `required`, then those of
\* `optional` whose bit is set.
WithBits(bits, read) == [set |-> bits, values |-> read.values, rest |-> read.rest]
ReadSet(types, bits, order, rest) == WithBits(bits, ReadEach([j \in DOMAIN order |-> types[order[j]]], rest))
ReadOptionals(types, rest) ==
    CASE types = <<>> -> [set |-> {}, values |-> <<>>, rest |-> rest]
      [] types # <<>> /\ ~Next1("bits", rest) -> [set |-> {}, values |-> <<Lost.value>>, rest |-> <<>>]
      [] OTHER -> ReadSet(types, rest[1].of, SetToSortSeq(rest[1].of, <), Tail(rest))
Parted(first, second) ==
    [first |-> first.values, set |-> second.set, second |-> second.values, rest |-> second.rest,
     values |-> first.values \o second.values]
ReadAfter(first, optional) == Parted(first, ReadOptionals(optional, first.rest))
ReadParts(required, optional, rest) == ReadAfter(ReadEach(required, rest), optional)
NthOf(set, i) == Cardinality({j \in set : j <= i})

RECURSIVE ReadEntries(_, _, _)
AndEntry(key, value, others) == [keys |-> <<key>> \o others.keys, values |-> <<value>> \o others.values, rest |-> others.rest]
OtherReadEntries(key, first, type, n) == AndEntry(key, first.value, ReadEntries(type, n - 1, first.rest))
ReadEntries(type, n, rest) ==
    CASE n = 0 -> [keys |-> <<>>, values |-> <<>>, rest |-> rest]
      [] n # 0 /\ ~Next1("string", rest) -> [keys |-> <<"?">>, values |-> <<Lost.value>>, rest |-> <<>>]
      [] OTHER -> OtherReadEntries(rest[1].of, Read(type, Tail(rest)), type, n)

ReadIndex(t, rest) ==
    CASE ~WalksIndex(t) -> [keys |-> <<>>, values |-> <<>>, rest |-> rest]
      [] WalksIndex(t) /\ ~Next1("count", rest) -> [keys |-> <<"?">>, values |-> <<Lost.value>>, rest |-> <<>>]
      [] OTHER -> ReadEntries(t.index[1], rest[1].of, Tail(rest))

TypesOf(s) == [i \in DOMAIN s |-> s[i].type]
PositionOf(s, name) == CHOOSE i \in DOMAIN s : s[i].name = name
NamesOf(s, picked) == {s[i].name : i \in picked}

ReadProps(required, parts) ==
    [n \in NamesOf(required, {i \in DOMAIN required : ~ReadsNothing(required[i].type)}) |->
       parts.first[PositionOf(required, n)]]
ReadGiven(optional, parts) ==
    [n \in NamesOf(optional, parts.set) |-> parts.second[NthOf(parts.set, PositionOf(optional, n))]]
ReadKeyed(index) == [k \in ToSet(index.keys) |-> index.values[CHOOSE i \in DOMAIN index.keys : index.keys[i] = k]]
ReadObjectOf(required, optional, parts, index) ==
    IF Broken(parts) \/ Broken(index) THEN Lost
    ELSE Got(Obj(ReadKeyed(index) @@ ReadGiven(optional, parts) @@ ReadProps(required, parts)), index.rest)
ReadFields(t, required, optional, parts) == ReadObjectOf(required, optional, parts, ReadIndex(t, parts.rest))
ReadFieldsOf(t, required, optional, rest) ==
    ReadFields(t, required, optional, ReadParts(TypesOf(required), TypesOf(optional), rest))
ReadObject(t, rest) ==
    ReadFieldsOf(t, Requireds(DataFields(t)), SelectSeq(DataFields(t), LAMBDA f : f.optional), rest)

\* emitTupleMemberFromBinary
ReadRest(t, rest) ==
    CASE ~HasRest(t) \/ ReadsNothing(Last(t.slots).type) -> [values |-> <<>>, rest |-> rest]
      [] HasRest(t) /\ ~Next1("length", rest) -> [values |-> <<Lost.value>>, rest |-> <<>>]
      [] OTHER -> ReadEach(Repeat(<<Last(t.slots).type>>, rest[1].of), Tail(rest))

\* emitTupleFromBinary: only the slots that were there are assigned; the
\* optional ones follow the required ones.
ReadSlot(n, parts, i) ==
    CASE i <= n -> parts.first[i]
      [] i > n /\ (i - n) \in parts.set -> parts.second[NthOf(parts.set, i - n)]
      [] OTHER -> Undefined
ReadLength(t, n, parts, others) ==
    CASE others.values # <<>> -> Fixed(t)
      [] others.values = <<>> /\ parts.set # {} -> n + (CHOOSE j \in parts.set : \A k \in parts.set : k <= j)
      [] OTHER -> n
ReadTupleOf(t, n, parts, others) ==
    IF Broken(parts) \/ Broken(others) THEN Lost
    ELSE Got(Arr([i \in 1 .. ReadLength(t, n, parts, others) |-> ReadSlot(n, parts, i)] \o others.values), others.rest)
ReadSlots(t, n, parts) == ReadTupleOf(t, n, parts, ReadRest(t, parts.rest))
FixedSlots(t) == SubSeq(t.slots, 1, Fixed(t))
ReadTuple(t, rest) ==
    ReadSlots(t, Len(Requireds(FixedSlots(t))),
              ReadParts(TypesOf(Requireds(FixedSlots(t))),
                        TypesOf(SelectSeq(FixedSlots(t), LAMBDA s : s.optional)), rest))

\* emitMergedPropFromBinary
ReadCandidate(cs, i, rest) == IF i = 0 THEN Lost ELSE Read(cs[i], rest)
ReadMergedProp(cs, rest) ==
    CASE Len(cs) = 1 -> Read(cs[1], rest)
      [] Len(cs) > 1 /\ ~Next1("byte", rest) -> Lost
      [] OTHER -> ReadCandidate(cs, FirstOf({i \in DOMAIN cs : ToString(i) = rest[1].of}), Tail(rest))

\* The fields `names` of merged objects, one after the other.
RECURSIVE ReadMergedProps(_, _, _)
OtherMergedProps(os, first, names) == AndThen(first.value, ReadMergedProps(os, names, first.rest))
ReadMergedProps(os, names, rest) ==
    IF names = <<>> THEN [values |-> <<>>, rest |-> rest]
    ELSE OtherMergedProps(os, ReadMergedProp(Candidates(os, names[1]), rest), Tail(names))

\* emitUnionFromBinaryFlat
MergedObject(names, values) == Obj([n \in ToSet(names) |-> values[CHOOSE i \in DOMAIN names : names[i] = n]])
BothMerged(names, first, second) ==
    IF Broken(first) \/ Broken(second) THEN Lost
    ELSE Got(MergedObject(names, first.values \o second.values), second.rest)
ReadMergedOptional(os, required, picked, first, rest) ==
    BothMerged(required \o picked, first, ReadMergedProps(os, picked, rest))
Picked(names, order) == [j \in DOMAIN order |-> names[order[j]]]
ReadMergedOf(os, required, optional, first) ==
    CASE optional = <<>> -> ReadMergedOptional(os, required, <<>>, first, first.rest)
      [] optional # <<>> /\ ~Next1("bits", first.rest) -> Lost
      [] OTHER -> ReadMergedOptional(os, required, Picked(optional, SetToSortSeq(first.rest[1].of, <)),
                                     first, Tail(first.rest))
ReadMerged(os, required, optional, rest) == ReadMergedOf(os, required, optional, ReadMergedProps(os, required, rest))

ReadMember(ms, i, rest) == IF i = 0 THEN Lost ELSE Read(ms[i], rest)
ReadArm(ms, os, rest) ==
    CASE ~Next1("byte", rest) -> Lost
      [] Next1("byte", rest) /\ os # <<>> /\ rest[1].of = "object" ->
           ReadMerged(os, MergedRequired(os), MergedOptional(os), Tail(rest))
      [] OTHER -> ReadMember(ms, FirstOf({i \in DOMAIN ms : ~Mergeable(ms[i]) /\ ToString(i) = rest[1].of}), Tail(rest))
ReadUnion(t, rest) == ReadArm(DataMembers(t), Objects(t), rest)

\* A word of one width read as a value of the kind.
ReadWord(t, rest) ==
    LET word == rest[1].of
    IN  CASE t.kind = "null" -> Null
          [] t.kind \in {"undefined", "void"} -> Undefined
          [] t.kind = "bigint" -> ToBigInt(Str(word))
          [] t.kind = "date" -> Leaf("date", word)
          [] t.kind \in {"any", "unknown", "enum"} -> word
          [] OTHER -> Leaf(t.kind, word)
WordTag(kind) ==
    CASE kind \in {"null", "undefined", "void", "boolean"} -> "byte"
      [] kind \in {"number", "date"} -> "double"
      [] kind \in {"any", "unknown"} -> "json"
      [] kind = "enum" -> "enum"
      [] OTHER -> "string"

\* The source, then the flags.
ReadRegExp(rest) ==
    IF Next1("string", rest) /\ Next1("string", Tail(rest)) THEN Got(ToRegExp(Str(rest[1].of)), Tail(Tail(rest)))
    ELSE Lost

PairsOf(values, n) == [i \in 1 .. n |-> Arr(<<values[2 * i - 1], values[2 * i]>>)]
ReadItems(t, n, read) ==
    IF Broken(read) THEN Lost
    ELSE Got([js |-> t.kind, items |-> IF t.kind = "map" THEN PairsOf(read.values, n) ELSE read.values], read.rest)
ReadCounted(t, types, rest) ==
    IF Next1("length", rest) THEN ReadItems(t, rest[1].of, ReadEach(Repeat(types, rest[1].of), Tail(rest))) ELSE Lost

ReadArray(t, rest) == ReadCounted(t, <<t.child>>, rest)
ReadIterable(t, rest) == ReadCounted(t, t.inner, rest)
ReadLiteral(t, rest) == Got(t.value, rest)

Read(t0, rest) ==
    LET t == Resolve(t0)
    IN  CASE t.kind = "literal" -> ReadLiteral(t, rest)
          [] ReadsNothing(t) -> Got(Undefined, rest)
          [] t.kind = "regexp" -> ReadRegExp(rest)
          [] t.kind = "array" -> ReadArray(t, rest)
          [] t.kind \in {"map", "set"} -> ReadIterable(t, rest)
          [] t.kind = "tuple" /\ ~ReadsNothing(t) -> ReadTuple(t, rest)
          [] t.kind = "object" -> ReadObject(t, rest)
          [] t.kind = "union" -> ReadUnion(t, rest)
          [] OTHER -> IF Next1(WordTag(t.kind), rest) THEN Got(ReadWord(t, rest), Tail(rest)) ELSE Lost

-----------------------------------------------------------------------------
\* createBinaryEncoderFn and createBinaryDecoderFn.
Bytes(tokens) == [js |-> "bytes", tokens |-> tokens]

BinaryEncode(t, v) ==
    IF ~Serializable(t) THEN Thrown("alwaysThrow")
    ELSE LET tokens == Write(t, v)
         IN  IF \E i \in DOMAIN tokens : tokens[i].tag = "thrown" THEN Thrown("no union member") ELSE Bytes(tokens)

BinaryDecode(t, bytes) == IF Threw(bytes) THEN bytes ELSE Read(t, bytes.tokens).value
=============================================================================
