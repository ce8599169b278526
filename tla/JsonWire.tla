------------------------------ MODULE JsonWire -------------------------------
(***************************************************************************)
(* The single-pass encoder (stringifyJson), the decoders (restoreFromJson, *)
(* compactFromJson, unknownKeysToUndefinedWire) and the composites that    *)
(* createJsonEncoderFn and createJsonDecoderFn hand out, one per strategy. *)
(***************************************************************************)
EXTENDS UnknownKeys

\* Declared ahead of the definitions they are made of.
RECURSIVE Direct(_, _)
RECURSIVE Restore(_, _, _)
RECURSIVE NoopIn(_, _, _)
RECURSIVE CompactNoopIn(_, _)

\* A number, or an enum of numbers, is written as it is.
Bare(t) == \/ t.kind = "number"
           \/ t.kind = "enum" /\ \A x \in t.values : x.js = "number"

\* isNoopForStringifyJson: the text is JSON.stringify's own.
StringifyNoop(t0) ==
    LET t == Resolve(t0)
    IN  \/ t.kind \in {"any", "unknown", "string"}
        \/ t.kind = "enum" /\ ~Bare(t)
        \/ t.kind = "literal" /\ ~BigLiteral(t)

\* emitPropertyStringifyJson: the fields that write something, whether or not
\* the value has them.
DirectNames(t, v) == {n \in DataNames(t) : ~(Field(t, n).optional /\ Prop(v, n) = Undefined)}

\* emitIndexSignatureStringifyJson: an entry that is undefined is left out.
DirectKeys(t, v) == {k \in IndexKeys(t, v) : v.props[k] # Undefined}
DirectEntry(t, v, k) == Direct(t.index[1], v.props[k])

\* emitObjectStringifyJson sorts optional fields first and gives every field
\* but the last a comma; a stripped field that comes last leaves one behind.
LastRequired(t) ==
    LET required == SelectSeq(t.fields, LAMBDA f : ~f.optional /\ ~FunctionLike(f.type))
    IN  IF required = <<>> THEN <<>> ELSE <<Last(required)>>
TrailingComma(t, v) ==
    /\ LastRequired(t) # <<>>
    /\ Stripped(LastRequired(t)[1].type)
    /\ DirectNames(t, v) \union DirectKeys(t, v) # {}

DirectObject(t, v) ==
    IF TrailingComma(t, v) THEN Thrown("SyntaxError")
    ELSE Obj([k \in DirectNames(t, v) \union DirectKeys(t, v) |->
                IF k \in DataNames(t) THEN Direct(Field(t, k).type, Prop(v, k)) ELSE DirectEntry(t, v, k)])

\* emitTupleRestStringifyJson pushes only what is truthy: a number, or an enum
\* of numbers, is pushed as it is, not as text.
DirectRest(t, v) ==
    LET type == Last(t.slots).type
        pushed == SelectSeq(SubSeq(v.items, Fixed(t) + 1, Len(v.items)),
                            LAMBDA e : ~(Bare(Resolve(type)) /\ e.of = "0"))
    IN  [i \in DOMAIN pushed |-> Direct(type, pushed[i])]

\* emitTupleMemberStringifyJson
DirectSlot(s, x) == IF s.optional /\ x = Undefined THEN Null ELSE Direct(s.type, x)

DirectTuple(t, v) ==
    Arr([i \in 1 .. Fixed(t) |-> DirectSlot(t.slots[i], ItemAt(v, i))]
        \o IF HasRest(t) THEN DirectRest(t, v) ELSE <<>>)

DirectArray(t, v) == Arr([i \in DOMAIN v.items |-> Direct(t.child, v.items[i])])
DirectIterable(t, v) ==
    LET Pair(e) == Arr([side \in DOMAIN e.items |-> Direct(t.inner[side], e.items[side])])
    IN  Arr([i \in DOMAIN v.items |-> IF t.kind = "map" THEN Pair(v.items[i]) ELSE Direct(t.inner[1], v.items[i])])
DirectLiteral(t, v) == IF BigLiteral(t) THEN ToText(v) ELSE Text(v)

\* emitMergedPropStringify
SameCode(cs) == \A i \in DOMAIN cs : StringifyNoop(cs[i])
DirectAs(cs, wrapped, i, x) ==
    CASE Len(cs) = 1 -> Direct(cs[1], x)
      [] Len(cs) > 1 /\ ~wrapped /\ SameCode(cs) -> Text(x)
      [] Len(cs) > 1 /\ (wrapped \/ ~SameCode(cs)) /\ i = 0 -> Thrown("no union member")
      [] OTHER -> IF wrapped THEN Envelope(i, Direct(cs[i], x)) ELSE Direct(cs[i], x)
MergedDirect(os, name, cs, v) ==
    DirectAs(cs, SubWrapped(cs), TheCandidate(os, name, cs, v), Prop(v, name))

\* Optional fields lead with a comma, the first required one does not: one
\* that is written before it leaves a leading comma.
LeadingComma(os, order, names) ==
    \E i, j \in DOMAIN order :
        i < j /\ ~RequiredIn(os, order[i]) /\ order[i] \in names /\ RequiredIn(os, order[j])

DirectMerged(os, names, v) ==
    IF LeadingComma(os, MergedNames(os), names) THEN Thrown("SyntaxError")
    ELSE Obj([k \in names |-> MergedDirect(os, k, Candidates(os, k), v)])

\* emitUnionStringifyJsonFlat
DirectArm(t, arm, v) ==
    IF IsObjectArm(t, arm) THEN DirectMerged(Objects(t), MergedWritten(Objects(t), v), v)
    ELSE Direct(DataMembers(t)[arm], v)
DirectByArm(t, arm, v) ==
    CASE arm = 0 -> Thrown("no union member")
      [] arm # 0 /\ Enveloped(t) -> Envelope(ArmIndex(t, arm), DirectArm(t, arm, v))
      [] OTHER -> DirectArm(t, arm, v)
DirectUnion(t, v) ==
    IF Objects(t) = <<>> /\ ~Enveloped(t) THEN Text(v) ELSE DirectByArm(t, TheArm(t, v), v)

Direct(t0, v) ==
    LET t == Resolve(t0)
    IN  CASE t.kind \in {"bigint", "regexp"} -> ToText(v)
          [] t.kind = "literal" -> DirectLiteral(t, v)
          [] t.kind = "date" -> Text(v)
          [] t.kind \in {"undefined", "void"} -> Null
          [] t.kind = "number" -> IF v.of \in NonFinite THEN Thrown("SyntaxError") ELSE v
          [] t.kind = "array" -> DirectArray(t, v)
          [] t.kind = "tuple" -> DirectTuple(t, v)
          [] t.kind \in {"map", "set"} -> DirectIterable(t, v)
          [] t.kind = "object" -> DirectObject(t, v)
          [] t.kind = "union" -> DirectUnion(t, v)
          [] OTHER -> IF Text(v) = Undefined THEN Thrown("SyntaxError") ELSE Text(v)

-----------------------------------------------------------------------------
(* Decoders. *)

\* emitMergedPropRestore
NamedIn(cs, w) == {j \in DOMAIN cs : w.items[1] = Num(ToString(j))}
RestoredAs(cs, wrapped, w, compact) ==
    CASE Len(cs) = 1 -> Restore(cs[1], w, compact)
      [] Len(cs) > 1 /\ (~wrapped \/ ~IsEnvelope(w)) -> w
      [] Len(cs) > 1 /\ wrapped /\ IsEnvelope(w) /\ NamedIn(cs, w) = {} -> Thrown("bad union index")
      [] OTHER -> Restore(cs[FirstOf(NamedIn(cs, w))], w.items[2], compact)
MergedRestored(cs, w, compact) == RestoredAs(cs, SubWrapped(cs), w, compact)

RestoreMerged(os, names, w, compact) ==
    Obj([k \in DOMAIN w.props \union names |->
           IF k \in names THEN MergedRestored(Candidates(os, k), Prop(w, k), compact) ELSE w.props[k]])
RestoreObjectArm(os, w, compact) ==
    IF w.js # "object" THEN w
    ELSE RestoreMerged(os, {k \in ToSet(MergedNames(os)) : RequiredIn(os, k) \/ Prop(w, k) # Undefined}, w, compact)

\* emitUnionRestoreFromJsonFlat
NamedArm(ms, w) == {i \in DOMAIN ms : ~Mergeable(ms[i]) /\ w.items[1] = Num(ToString(i))}
RestoreArm(ms, os, w, compact) ==
    CASE w.js # "array" \/ w.items = <<>> -> Thrown("bad union index")
      [] w.js = "array" /\ w.items # <<>> /\ os # <<>> /\ ItemAt(w, 1) = Num("0") ->
           RestoreObjectArm(os, ItemAt(w, 2), compact)
      [] OTHER -> IF NamedArm(ms, w) = {} THEN Thrown("bad union index")
                  ELSE Restore(ms[FirstOf(NamedArm(ms, w))], ItemAt(w, 2), compact)
RestoreUnion(t, w, compact) == IF Enveloped(t) THEN RestoreArm(DataMembers(t), Objects(t), w, compact) ELSE w

\* emitPropertyRestoreFromJson: the fields that are given a value.
RestoredNames(t, w, compact) ==
    {n \in DataNames(t) : /\ ~(Field(t, n).optional /\ Prop(w, n) = Undefined)
                          /\ HasProp(w, n) \/ Restore(Field(t, n).type, Prop(w, n), compact) # Undefined}

\* emitIndexSignatureRestoreFromJson
RestoredEntry(t, w, k, compact) ==
    IF k \in IndexKeys(t, w) THEN Restore(t.index[1], w.props[k], compact) ELSE w.props[k]

RestoreObject(t, w, compact) ==
    LET names == RestoredNames(t, w, compact)
    IN  IF w.js # "object" THEN w
        ELSE Obj([k \in DOMAIN w.props \union names |->
                    IF k \in names THEN Restore(Field(t, k).type, Prop(w, k), compact)
                    ELSE RestoredEntry(t, w, k, compact)])

\* emitObjectCompactFromJson: fields by position.
RestoreCompact(t, w) ==
    LET fs == DataFields(t)
        At(i) == LET e == IF w.js = "array" THEN ItemAt(w, i) ELSE Undefined
                 IN IF fs[i].optional /\ e \in {Null, Undefined} THEN Undefined
                    ELSE Restore(fs[i].type, e, TRUE)
        Position(n) == CHOOSE i \in DOMAIN fs : fs[i].name = n
        present == {n \in DataNames(t) : ~Field(t, n).optional \/ At(Position(n)) # Undefined}
    IN  Obj([n \in present |-> At(Position(n))])

\* emitTupleMemberRestoreFromJson
RestoredSlot(s, e, compact) ==
    IF s.optional /\ e \in {Null, Undefined} THEN Undefined ELSE Restore(s.type, e, compact)

RestoreTuple(t, w, compact) ==
    IF w.js # "array" THEN w
    ELSE Arr([i \in DOMAIN w.items |-> RestoredSlot(SlotType(t, i), w.items[i], compact)])

\* emitNativeIterableRestoreFromJson
RestoreIterable(t, w, compact) ==
    LET Pair(e) == Arr([side \in DOMAIN e.items |-> Restore(t.inner[side], e.items[side], compact)])
        Item(e) == IF t.kind = "map" THEN Pair(e) ELSE Restore(t.inner[1], e, compact)
    IN  [js |-> t.kind, items |-> [i \in DOMAIN w.items |-> Item(w.items[i])]]

RestoreLiteral(t, w) == IF BigLiteral(t) THEN ToBigInt(w) ELSE w

Restore(t0, w, compact) ==
    LET t == Resolve(t0)
    IN  CASE t.kind \in {"undefined", "void"} -> Undefined
          [] t.kind = "bigint" -> ToBigInt(w)
          [] t.kind = "literal" -> RestoreLiteral(t, w)
          [] t.kind = "date" -> ToDate(w)
          [] t.kind = "regexp" -> ToRegExp(w)
          [] t.kind = "array" /\ w.js = "array" -> Arr([i \in DOMAIN w.items |-> Restore(t.child, w.items[i], compact)])
          [] t.kind = "tuple" -> RestoreTuple(t, w, compact)
          [] t.kind \in {"map", "set"} /\ w.js = "array" -> RestoreIterable(t, w, compact)
          [] t.kind = "object" -> IF compact /\ ~HasIndex(t) THEN RestoreCompact(t, w)
                                  ELSE RestoreObject(t, w, compact)
          [] t.kind = "union" -> RestoreUnion(t, w, compact)
          [] OTHER -> w

\* compactFromJson
FromCompact(t, w) == Restore(t, w, TRUE)

-----------------------------------------------------------------------------
(* When an emitted function is the identity, it is dropped from a composite *)
(* and from the functions that would call it.                               *)

\* A slip: an enveloped union counts as left as it is.
UnionNoopAlways(t) == \E i \in DOMAIN t.members : ~Stripped(t.members[i])

\* unionJsonNoop
UnionNoop(t) == ~Enveloped(t) /\ \E i \in DOMAIN t.members : ~Stripped(t.members[i])

IdentityKinds == {"string", "number", "boolean", "null", "any", "unknown", "enum"}

\* The leaves of which the JSON families leave every value as it is.
IdentityLeaf(t) == t.kind \in IdentityKinds \/ (t.kind = "literal" /\ ~BigLiteral(t))

\* jsonNoopRecursive: mode is "prepare" or "restore".

\* jsonNoopObjectChildren: a promise is deleted by prepareForJson.
ObjectNoop(t, mode, seen) ==
    /\ \A i \in DOMAIN t.fields :
         IF Stripped(t.fields[i].type) THEN mode = "restore" \/ Resolve(t.fields[i].type).kind # "promise"
         ELSE NoopIn(t.fields[i].type, mode, seen)
    /\ \A i \in DOMAIN t.index : NoopIn(t.index[i], mode, seen)

NoopIn(t0, mode, seen) ==
    LET t == Resolve(t0)
        N(part) == NoopIn(part, mode, seen \union {t0})
    IN  \/ t0 \in seen
        \/ IdentityLeaf(t)
        \/ t.kind \in {"undefined", "date"} /\ mode = "prepare"
        \/ t.kind = "array" /\ N(t.child)
        \/ t.kind = "tuple" /\ \A i \in DOMAIN t.slots : ~t.slots[i].optional /\ N(t.slots[i].type)
        \/ t.kind = "union" /\ UnionNoop(t)
        \/ t.kind = "object" /\ ObjectNoop(t, mode, seen \union {t0})

\* compactFromJsonNoopRecursive: an object is always rebuilt.
CompactNoopIn(t0, seen) ==
    LET t == Resolve(t0)
        N(part) == CompactNoopIn(part, seen \union {t0})
    IN  \/ t0 \in seen
        \/ IdentityLeaf(t)
        \/ t.kind = "array" /\ N(t.child)
        \/ t.kind = "tuple" /\ \A i \in DOMAIN t.slots : ~t.slots[i].optional /\ N(t.slots[i].type)
        \/ t.kind = "union" /\ UnionNoop(t)

\* isNoopForPrepareJsonSafe
SafeNoop(t0) ==
    LET t == Resolve(t0)
    IN  \/ t.kind \in IdentityKinds \union {"undefined"}
        \/ t.kind = "literal" /\ ~BigLiteral(t)
        \/ t.kind \in {"array", "tuple"} /\ ExtraProof(t)

\* primitiveIsLive
PrepareLive(t) == ~NoopIn(t, "prepare", {})
RestoreLive(t, compact) == ~(IF compact THEN CompactNoopIn(t, {}) ELSE NoopIn(t, "restore", {}))

-----------------------------------------------------------------------------
(* jsonCompositeBody *)

EncoderStrategies == {"clone", "mutate", "direct", "compact"}
DecoderStrategies == {"preserve", "strip", "compact"}

\* rootNeedsDataOnlyWrap
Wrapped(t, v) == IF t.kind \in {"undefined", "void"} THEN Arr(<<v>>) ELSE v

JsonEncode(strategy, t, v) ==
    CASE ~Serializable(t) -> Thrown("alwaysThrow")
      [] Serializable(t) /\ strategy = "direct" ->
           IF Resolve(t).kind \in {"undefined", "void"} THEN Text(Wrapped(t, Undefined)) ELSE Direct(t, v)
      [] Serializable(t) /\ strategy = "mutate" ->
           Text(Wrapped(t, IF PrepareLive(t) THEN Prepare(t, v) ELSE v))
      [] Serializable(t) /\ strategy = "compact" -> Text(Wrapped(t, IF SafeNoop(t) THEN v ELSE Compact(t, v)))
      [] OTHER -> Text(Wrapped(t, IF SafeNoop(t) THEN v ELSE Safe(t, v, FALSE)))

JsonDecode(strategy, t, text) ==
    LET wire == IF strategy = "strip" /\ UnknownLive(t, TRUE) THEN ToUndefined(t, text, TRUE) ELSE text
        compact == strategy = "compact"
    IN  CASE Threw(text) -> text
          [] text = Undefined -> Thrown("SyntaxError")
          [] ~RestoreLive(t, compact) -> wire
          [] OTHER -> IF compact THEN FromCompact(t, wire) ELSE Restore(t, wire, FALSE)
=============================================================================
