----------------------------- MODULE JsonCodec ------------------------------
(***************************************************************************)
(* The JSON families: prepareForJson (mutate), prepareForJsonSafe (clone), *)
(* stringifyJson (direct) and compactForJson encode; restoreFromJson and   *)
(* compactFromJson decode.  The wire is the tree JSON.parse reads from the *)
(* text an encoder leaves, or a thrown marker where there is no text or it *)
(* does not parse.                                                         *)
(***************************************************************************)
EXTENDS Validation, SequencesExt

CONSTANTS Digits, Dates, Patterns       \* the texts BigInt(), Date and RegExp can read

\* Declared ahead of the definitions they are made of.
RECURSIVE CompatibleIn(_, _)
RECURSIVE ExtraProofIn(_, _)
RECURSIVE Prepare(_, _)
RECURSIVE Safe(_, _, _)

\* JSON.stringify then JSON.parse, native.  Undefined: nothing is written.
RECURSIVE Text(_)
Text(v) ==
    CASE v.js \in {"string", "boolean", "null", "thrown"} -> v
      [] v.js = "number" -> IF v.of \in NonFinite THEN Null ELSE v
      [] v.js = "date" -> IF v.of = "invalid" THEN Null ELSE Str(v.of)
      [] v.js = "bigint" -> Thrown("TypeError")
      [] v.js = "array" ->
           Arr([i \in DOMAIN v.items |->
                  LET e == Text(v.items[i]) IN IF e = Undefined THEN Null ELSE e])
      [] v.js = "object" ->
           Obj([k \in {n \in DOMAIN v.props : Text(v.props[n]) # Undefined} |-> Text(v.props[k])])
      [] v.js \in {"map", "set", "promise", "regexp"} -> Obj(<<>>)
      [] OTHER -> Undefined

ToText(v) == IF v.js \in {"null", "undefined"} \union Composite THEN Thrown("TypeError") ELSE Str(v.of)
ToBigInt(v) == IF v.js \in {"string", "number", "bigint"} /\ v.of \in Digits
               THEN Leaf("bigint", v.of) ELSE Thrown("SyntaxError")
ToDate(v) == IF v.js = "string" /\ v.of \in Dates THEN Leaf("date", v.of) ELSE Leaf("date", "invalid")

\* The source and the flags between the slashes of the text.
ToRegExp(v) == IF v.js = "string" /\ v.of \in Patterns THEN Leaf("regexp", v.of) ELSE Thrown("TypeError")

BigLiteral(t) == t.kind = "literal" /\ t.value.js = "bigint"

-----------------------------------------------------------------------------
(* What decides the shape of a union on the wire. *)

\* unionMemberEnvelopes
Mergeable(m) == Resolve(m).kind = "object" /\ ~HasIndex(Resolve(m))

\* isJsonCompatible
\* objectChildrenCompat
ObjectCompatible(t, seen) ==
    /\ \A i \in DOMAIN t.fields : FunctionLike(t.fields[i].type) \/ CompatibleIn(t.fields[i].type, seen)
    /\ \A i \in DOMAIN t.index : CompatibleIn(t.index[i], seen)
CompatibleIn(t0, seen) ==
    LET t == Resolve(t0)
        inner == IF t0.kind = "ref" THEN seen \union {t0} ELSE seen
        C(part) == CompatibleIn(part, inner)
    IN  \/ t0 \in seen
        \/ t.kind \in {"string", "number", "boolean", "null", "any", "unknown", "enum"}
        \/ t.kind = "literal" /\ ~BigLiteral(t)
        \/ t.kind = "array" /\ C(t.child)
        \/ t.kind = "tuple" /\ \A i \in DOMAIN t.slots : C(t.slots[i].type)
        \/ t.kind = "object" /\ ObjectCompatible(t, inner)
        \/ t.kind = "union" /\ \A i \in DOMAIN t.members : C(t.members[i]) /\ ~Mergeable(t.members[i])
Compatible(t) == CompatibleIn(t, {})

\* AtomicNeedsTuple: the union's values travel as <<index, value>>.
Enveloped(t) == \E i \in DOMAIN DataMembers(t) : ~Compatible(DataMembers(t)[i])

Distinct(s) == FoldLeft(LAMBDA acc, x : IF x \in ToSet(acc) THEN acc ELSE Append(acc, x), <<>>, s)

\* buildFlatLayout: object members are merged into one, field by field; the
\* other members keep their index.
Objects(t) == LET os == SelectSeq(DataMembers(t), Mergeable) IN [i \in DOMAIN os |-> Resolve(os[i])]
MergedNames(os) ==
    Distinct(FlattenSeq([i \in DOMAIN os |-> [j \in DOMAIN DataFields(os[i]) |-> DataFields(os[i])[j].name]]))
Declaring(os, name) == SelectSeq(os, LAMBDA o : name \in DataNames(o))
FieldTypes(os, name) == Distinct([i \in DOMAIN os |-> Field(os[i], name).type])
Candidates(os, name) == FieldTypes(Declaring(os, name), name)
HasStrippedCandidate(os, name) == \E i \in DOMAIN os : name \in FieldNames(os[i]) \ DataNames(os[i])
RequiredIn(os, name) ==
    /\ \A i \in DOMAIN os : name \in DataNames(os[i]) /\ ~Field(os[i], name).optional
    /\ ~HasStrippedCandidate(os, name)

\* A slip: the first candidate speaks for the others.
SubWrappedByFirst(cs) == Len(cs) > 1 /\ ~Compatible(cs[1])

SubWrapped(cs) == Len(cs) > 1 /\ \E i \in DOMAIN cs : ~Compatible(cs[i])

\* detectFlatDiscriminant: a required literal field that tells the members apart.
Telling(f) == ~f.optional /\ Resolve(f.type).kind = "literal" /\ ~BigLiteral(Resolve(f.type))
Discriminants(os) ==
    {name \in UNION {DataNames(os[i]) : i \in DOMAIN os} :
        /\ Len(os) > 1
        /\ \A i \in DOMAIN os : name \in DataNames(os[i]) /\ Telling(Field(os[i], name))
        /\ \A i, j \in DOMAIN os : i # j => Field(os[i], name).type # Field(os[j], name).type}

\* discCandidateGuard, or the candidate's own check.
Tagged(o, tag, v) == Prop(v, tag) = Resolve(Field(o, tag).type).value
ByDiscriminant(os, name, c, tag, v) ==
    \E i \in DOMAIN os : Field(os[i], name).type = c /\ Tagged(os[i], tag, v)
CandidateTakes(os, name, c, wrapped, tags, v) ==
    IF wrapped /\ tags # {} THEN ByDiscriminant(Declaring(os, name), name, c, CHOOSE tag \in tags : TRUE, v)
    ELSE MemberValid(c, Prop(v, name))

FirstOf(set) == IF set = {} THEN 0 ELSE CHOOSE i \in set : \A j \in set : i <= j

\* The candidate that takes a field's value, 0 when none does.
TheCandidate(os, name, cs, v) ==
    FirstOf({i \in DOMAIN cs : CandidateTakes(os, name, cs[i], SubWrapped(cs), Discriminants(os), v)})

\* mergedPropSurvivingGuard
Survives(os, name, v) ==
    HasStrippedCandidate(os, name) =>
        \E i \in DOMAIN Candidates(os, name) : MemberValid(Candidates(os, name)[i], Prop(v, name))

\* The fields a merged object writes.
MergedWritten(os, v) ==
    {k \in ToSet(MergedNames(os)) : RequiredIn(os, k) \/ (Prop(v, k) # Undefined /\ Survives(os, k, v))}

\* atomicEncodeDispatch: the first member that takes the value, else the
\* merged object, one past the members, else no arm.
MemberArms(ms, v) == {i \in DOMAIN ms : ~Mergeable(ms[i]) /\ MemberValid(ms[i], v)}
TheArm(t, v) ==
    FirstOf(MemberArms(DataMembers(t), v)
            \union (IF Objects(t) # <<>> /\ IsObjectValue(v) THEN {Len(DataMembers(t)) + 1} ELSE {}))
IsObjectArm(t, arm) == arm = Len(DataMembers(t)) + 1

Envelope(i, v) == Arr(<<Num(ToString(i)), v>>)
IsEnvelope(v) == v.js = "array" /\ Len(v.items) = 2 /\ v.items[1].js = "number"

-----------------------------------------------------------------------------
(* Encoders. *)

\* isExtraProof: no undeclared key can hide in the value.
ExtraProofIn(t0, seen) ==
    LET t == Resolve(t0)
        X(part) == ExtraProofIn(part, seen \union {t0})
    IN  /\ t0 \notin seen
        /\ \/ t.kind \in {"string", "number", "boolean", "null", "literal", "enum"}
           \/ t.kind = "array" /\ X(t.child)
           \/ t.kind = "tuple" /\ \A i \in DOMAIN t.slots : X(t.slots[i].type)
           \/ t.kind = "union" /\ \A i \in DOMAIN t.members : X(t.members[i])
ExtraProof(t) == ExtraProofIn(t, {})

\* mergedPropPrepareBody
PreparedAs(cs, wrapped, i, x) ==
    CASE Len(cs) = 1 -> Prepare(cs[1], x)
      [] Len(cs) > 1 /\ (~wrapped \/ i = 0) -> x
      [] OTHER -> Envelope(i, Prepare(cs[i], x))
MergedPrepared(os, name, cs, v) ==
    PreparedAs(cs, SubWrapped(cs), TheCandidate(os, name, cs, v), Prop(v, name))

\* The fields that are written back, and what becomes of the object.
Rewritten(os, v) ==
    [k \in MergedWritten(os, v) |-> MergedPrepared(os, k, Candidates(os, k), v)]
PutBack(kept, given, v) ==
    Obj([k \in kept \union {n \in DOMAIN given : given[n] # Undefined} |->
           IF k \in DOMAIN given THEN given[k] ELSE v.props[k]])
PrepareMerged(os, v) ==
    PutBack({k \in DOMAIN v.props : k \in ToSet(MergedNames(os)) => Survives(os, k, v)}, Rewritten(os, v), v)

\* jsonStringifyLeaks: a promise is deleted, where JSON.stringify would write it.
Leaks(t) == {n \in FieldNames(t) : Resolve(Field(t, n).type).kind = "promise"}

\* emitPropertyPrepareForJson: the fields that are given a new value.
PreparedNames(t, v) ==
    {n \in DataNames(t) : /\ ~(Field(t, n).optional /\ Prop(v, n) = Undefined)
                          /\ Prepare(Field(t, n).type, Prop(v, n)) # Prop(v, n)}

\* emitIndexSignaturePrepareForJson
PreparedEntry(t, v, k) == IF k \in IndexKeys(t, v) THEN Prepare(t.index[1], v.props[k]) ELSE v.props[k]

\* prepareForJson rewrites the value in place: what it does not mention stays.
PrepareObject(t, v) ==
    Obj([k \in (DOMAIN v.props \ Leaks(t)) \union PreparedNames(t, v) |->
           IF k \in PreparedNames(t, v) THEN Prepare(Field(t, k).type, Prop(v, k)) ELSE PreparedEntry(t, v, k)])

SlotType(t, i) == LET s == t.slots[IF i <= Len(t.slots) THEN i ELSE Len(t.slots)] IN s

PrepareTuple(t, v) ==
    Arr([i \in DOMAIN v.items |->
           LET s == SlotType(t, i)
           IN  IF s.optional /\ v.items[i] = Undefined THEN Null ELSE Prepare(s.type, v.items[i])])

PrepareIterable(t, v) ==
    LET Pair(e) == Arr([side \in DOMAIN e.items |-> Prepare(t.inner[side], e.items[side])])
    IN  Arr([i \in DOMAIN v.items |->
               IF t.kind = "map" THEN Pair(v.items[i]) ELSE Prepare(t.inner[1], v.items[i])])

PrepareLiteral(t, v) == IF BigLiteral(t) THEN ToText(v) ELSE v

PreparedArm(t, arm, v) ==
    CASE arm = 0 -> Thrown("no union member")
      [] IsObjectArm(t, arm) -> Envelope(0, IF v.js = "object" THEN PrepareMerged(Objects(t), v) ELSE v)
      [] OTHER -> Envelope(arm, Prepare(DataMembers(t)[arm], v))
PrepareUnion(t, v) == IF Enveloped(t) THEN PreparedArm(t, TheArm(t, v), v) ELSE v

Prepare(t0, v) ==
    LET t == Resolve(t0)
    IN  CASE t.kind \in {"bigint", "regexp"} -> ToText(v)
          [] t.kind = "literal" -> PrepareLiteral(t, v)
          [] t.kind = "array" /\ v.js = "array" -> Arr([i \in DOMAIN v.items |-> Prepare(t.child, v.items[i])])
          [] t.kind = "tuple" /\ v.js = "array" -> PrepareTuple(t, v)
          [] t.kind \in {"map", "set"} /\ v.js = t.kind -> PrepareIterable(t, v)
          [] t.kind = "object" /\ v.js = "object" -> PrepareObject(t, v)
          [] t.kind = "union" -> PrepareUnion(t, v)
          [] OTHER -> v

-----------------------------------------------------------------------------
\* prepareForJsonSafe and, with compact, compactForJson: the declared shape is
\* rebuilt.  Compact writes a plain object as the sequence of its fields.

\* emitMergedPropPrepareSafe
SafeAs(cs, wrapped, i, x, compact) ==
    CASE Len(cs) = 1 -> Safe(cs[1], x, compact)
      [] Len(cs) > 1 /\ ~wrapped -> x
      [] OTHER -> IF i = 0 THEN Undefined ELSE Envelope(i, Safe(cs[i], x, compact))
MergedSafe(os, name, cs, v, compact) ==
    SafeAs(cs, SubWrapped(cs), TheCandidate(os, name, cs, v), Prop(v, name), compact)

\* emitUnionPrepareForJsonSafe
SafeMerged(os, v, compact) ==
    Obj([k \in MergedWritten(os, v) |-> MergedSafe(os, k, Candidates(os, k), v, compact)])
SafeArm(t, arm, v, compact) ==
    IF IsObjectArm(t, arm) THEN SafeMerged(Objects(t), v, compact) ELSE Safe(DataMembers(t)[arm], v, compact)

\* An arm's index in the envelope; the merged object's is 0.
ArmIndex(t, arm) == IF IsObjectArm(t, arm) THEN 0 ELSE arm
SafeByArm(t, arm, v, compact) ==
    CASE arm = 0 -> Thrown("no union member")
      [] arm # 0 /\ Enveloped(t) -> Envelope(ArmIndex(t, arm), SafeArm(t, arm, v, compact))
      [] OTHER -> SafeArm(t, arm, v, compact)
SafeUnion(t, v, compact) ==
    IF Objects(t) = <<>> /\ ~Enveloped(t) THEN v ELSE SafeByArm(t, TheArm(t, v), v, compact)

\* safeChildExpr, buildSafeIndexSignatureObject: the entries that are copied.
SafeEntry(t, v, k, compact) ==
    IF k \in DataNames(t) THEN Safe(Field(t, k).type, Prop(v, k), compact) ELSE Safe(t.index[1], v.props[k], compact)

\* buildSafeObjectClone
SafeObjectClone(t, v, compact) ==
    LET names == {n \in DataNames(t) : ~(Field(t, n).optional /\ Prop(v, n) = Undefined)}
    IN  Obj([k \in names \union IndexKeys(t, v) |-> SafeEntry(t, v, k, compact)])

\* emitObjectPrepareForJsonSafe: with as many keys as fields, all of them
\* required and proof against undeclared keys, the value itself is used.
SafeObject(t, v, compact) ==
    LET fs == DataFields(t)
        shortcut == /\ ~HasIndex(t) /\ fs # <<>> /\ v.js = "object"
                    /\ \A i \in DOMAIN fs : ~fs[i].optional /\ ExtraProof(fs[i].type)
                    /\ Cardinality(DOMAIN v.props) = Len(fs)
    IN  IF shortcut THEN v ELSE SafeObjectClone(t, v, compact)

\* collectCompactDeclaredSlots: the position of a field on the compact wire.
CompactSlots(t) == DataFields(t)

\* emitObjectCompactForJson
CompactObject(t, v) ==
    Arr([i \in DOMAIN CompactSlots(t) |->
           LET f == CompactSlots(t)[i]
           IN  IF f.optional /\ Prop(v, f.name) = Undefined THEN Null ELSE Safe(f.type, Prop(v, f.name), TRUE)])

\* emitTuplePrepareForJsonSafe: every fixed slot is written.
Fixed(t) == IF HasRest(t) THEN Len(t.slots) - 1 ELSE Len(t.slots)
WrittenSlots(t, v) == IF HasRest(t) /\ Len(v.items) > Fixed(t) THEN Len(v.items) ELSE Fixed(t)
SafeTuple(t, v, compact) ==
    IF ExtraProof(t) \/ v.js # "array" THEN v
    ELSE Arr([i \in 1 .. WrittenSlots(t, v) |->
           LET s == SlotType(t, i)
           IN  IF s.optional /\ ItemAt(v, i) = Undefined THEN Null ELSE Safe(s.type, ItemAt(v, i), compact)])

SafeArray(t, v, compact) ==
    IF ExtraProof(t) \/ v.js # "array" THEN v
    ELSE Arr([i \in DOMAIN v.items |-> Safe(t.child, v.items[i], compact)])

SafeIterable(t, v, compact) ==
    LET Pair(e) == Arr([side \in DOMAIN e.items |-> Safe(t.inner[side], e.items[side], compact)])
    IN  Arr([i \in DOMAIN v.items |->
               IF t.kind = "map" THEN Pair(v.items[i]) ELSE Safe(t.inner[1], v.items[i], compact)])

SafeDate(v) == IF v.js = "date" /\ v.of # "invalid" THEN Str(v.of) ELSE Thrown("RangeError")
SafeLiteral(t, v) == IF BigLiteral(t) THEN ToText(v) ELSE v

Safe(t0, v, compact) ==
    LET t == Resolve(t0)
    IN  CASE t.kind \in {"bigint", "regexp"} -> ToText(v)
          [] t.kind = "literal" -> SafeLiteral(t, v)
          [] t.kind = "date" -> SafeDate(v)
          [] t.kind = "array" -> SafeArray(t, v, compact)
          [] t.kind = "tuple" -> SafeTuple(t, v, compact)
          [] t.kind \in {"map", "set"} /\ v.js = t.kind -> SafeIterable(t, v, compact)
          [] t.kind = "object" -> IF compact /\ ~HasIndex(t) THEN CompactObject(t, v) ELSE SafeObject(t, v, compact)
          [] t.kind = "union" -> SafeUnion(t, v, compact)
          [] OTHER -> v

\* compactForJson
Compact(t, v) == Safe(t, v, TRUE)
=============================================================================
