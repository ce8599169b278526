----------------------------- MODULE UnknownKeys -----------------------------
(***************************************************************************)
(* The unknown-keys families (hasUnknownKeys, unknownKeyErrors,            *)
(* unknownKeysToUndefined, on values and on the JSON wire) and the clone   *)
(* family (cloneExactShape), which rebuilds exactly the declared shape.    *)
(***************************************************************************)
EXTENDS JsonCodec

\* Declared ahead of the definitions they are made of.
RECURSIVE HasUnknown(_, _)
RECURSIVE UnknownErrors(_, _, _)
RECURSIVE ToUndefined(_, _, _)
RECURSIVE UnknownNoopIn(_, _, _)
RECURSIVE CloneableIn(_, _)
RECURSIVE CloneNoop(_)
RECURSIVE Clone(_, _)

\* collectObjectChildNames: the names an object type tracks.
TrackedNames(t) == {n \in FieldNames(t) : ~FunctionLike(Field(t, n).type)}
UnknownOf(t, v) ==
    IF t.fields = <<>> \/ HasIndex(t) \/ v.js # "object" THEN {} ELSE DOMAIN v.props \ TrackedNames(t)

\* FamilyAtomic: kinds no family descends into.
AtomicKinds == {"any", "unknown", "null", "undefined", "void", "string", "number", "boolean", "bigint",
                "symbol", "literal", "never", "enum", "regexp"}
Descends(t) == Resolve(t).kind \notin AtomicKinds

\* The index signature is descended into unless its values are atomic.
WalksEntries(t) == WalksIndex(t) /\ Descends(t.index[1])
Entries(t, v) == IF WalksEntries(t) /\ v.js = "object" THEN DOMAIN v.props ELSE {}

\* siblingNamedSkipCode: only the families that write skip the keys the type
\* declares by name.
OtherEntries(t, v) == Entries(t, v) \ FieldNames(t)

\* emitUnionUnknownKeysMerged: only the keys of the merged object are checked,
\* and not at all beside a member with an index signature.
MergedUnknown(t, v) ==
    IF \/ \E i \in DOMAIN DataMembers(t) : HasIndex(Resolve(DataMembers(t)[i]))
       \/ MergedNames(Objects(t)) = <<>>
       \/ v.js # "object"
    THEN {} ELSE DOMAIN v.props \ ToSet(MergedNames(Objects(t)))

\* The fields and the slots that are descended into.
Present(t, v) ==
    {n \in TrackedNames(t) : ~(Field(t, n).optional /\ Prop(v, n) = Undefined)}
PresentSlots(t, v) ==
    {i \in 1 .. Len(v.items) : /\ i <= Len(t.slots) \/ HasRest(t)
                               /\ Descends(SlotType(t, i).type)
                               /\ ~(SlotType(t, i).optional /\ v.items[i] = Undefined)}

-----------------------------------------------------------------------------
(* hasUnknownKeys: is there one? *)

FieldHasUnknown(t, v, n) == HasUnknown(Field(t, n).type, Prop(v, n))
EntryHasUnknown(t, v, k) == HasUnknown(t.index[1], v.props[k])
ObjectHasUnknown(t, v) ==
    \/ UnknownOf(t, v) # {}
    \/ \E n \in Present(t, v) : FieldHasUnknown(t, v, n)
    \/ \E k \in Entries(t, v) : EntryHasUnknown(t, v, k)
ArrayHasUnknown(t, v) ==
    v.js = "array" /\ Descends(t.child) /\ \E i \in DOMAIN v.items : HasUnknown(t.child, v.items[i])
SlotHasUnknown(t, v, i) == HasUnknown(SlotType(t, i).type, v.items[i])
TupleHasUnknown(t, v) == v.js = "array" /\ \E i \in PresentSlots(t, v) : SlotHasUnknown(t, v, i)
IterableHasUnknown(t, v) ==
    v.js = t.kind /\ \E i \in DOMAIN v.items :
        IF t.kind = "set" THEN HasUnknown(t.inner[1], v.items[i])
        ELSE \E side \in {1, 2} : HasUnknown(t.inner[side], v.items[i].items[side])
UnionHasUnknown(t, v) == MergedUnknown(t, v) # {}

HasUnknown(t0, v) ==
    LET t == Resolve(t0)
    IN  CASE t.kind = "object" -> ObjectHasUnknown(t, v)
          [] t.kind = "array" -> ArrayHasUnknown(t, v)
          [] t.kind = "tuple" -> TupleHasUnknown(t, v)
          [] t.kind \in {"map", "set"} -> IterableHasUnknown(t, v)
          [] t.kind = "union" -> UnionHasUnknown(t, v)
          [] OTHER -> FALSE

-----------------------------------------------------------------------------
(* unknownKeyErrors: one error per unknown key, at its path. *)

Never(keys, path) == {Err(Append(path, k), "never") : k \in keys}
FieldUnknownErrors(t, v, n, path) == UnknownErrors(Field(t, n).type, Prop(v, n), Append(path, n))
EntryUnknownErrors(t, v, k, path) == UnknownErrors(t.index[1], v.props[k], Append(path, k))
ObjectUnknownErrors(t, v, path) ==
    Never(UnknownOf(t, v), path)
    \union UNION {FieldUnknownErrors(t, v, n, path) : n \in Present(t, v)}
    \union UNION {EntryUnknownErrors(t, v, k, path) : k \in Entries(t, v)}
ArrayUnknownErrors(t, v, path) ==
    IF v.js # "array" \/ ~Descends(t.child) THEN {}
    ELSE UNION {UnknownErrors(t.child, v.items[i], Append(path, ToString(i))) : i \in DOMAIN v.items}
SlotUnknownErrors(t, v, i, path) == UnknownErrors(SlotType(t, i).type, v.items[i], Append(path, ToString(i)))
TupleUnknownErrors(t, v, path) ==
    IF v.js # "array" THEN {} ELSE UNION {SlotUnknownErrors(t, v, i, path) : i \in PresentSlots(t, v)}
MapUnknownErrors(t, v, path) ==
    IF v.js # "map" THEN {}
    ELSE UNION {UnknownErrors(t.inner[side], v.items[i].items[side], Append(path, ToString(i)))
                  : i \in DOMAIN v.items, side \in {1, 2}}
SetUnknownErrors(t, v, path) ==
    IF v.js # "set" THEN {}
    ELSE UNION {UnknownErrors(t.inner[1], v.items[i], Append(path, ToString(i))) : i \in DOMAIN v.items}
UnionUnknownErrors(t, v, path) == Never(MergedUnknown(t, v), path)

UnknownErrors(t0, v, path) ==
    LET t == Resolve(t0)
    IN  CASE t.kind = "object" -> ObjectUnknownErrors(t, v, path)
          [] t.kind = "array" -> ArrayUnknownErrors(t, v, path)
          [] t.kind = "tuple" -> TupleUnknownErrors(t, v, path)
          [] t.kind = "map" -> MapUnknownErrors(t, v, path)
          [] t.kind = "set" -> SetUnknownErrors(t, v, path)
          [] t.kind = "union" -> UnionUnknownErrors(t, v, path)
          [] OTHER -> {}

-----------------------------------------------------------------------------
(* unknownKeysToUndefined and its JSON wire form: a tuple is never descended *)
(* into, on the wire neither a Map nor a Set, and a union's object is inside *)
(* its envelope there.                                                       *)

Blank(v, keys) == Obj([k \in DOMAIN v.props |-> IF k \in keys THEN Undefined ELSE v.props[k]])

BlankUnion(t, v, wire) ==
    IF ~(wire /\ Enveloped(t)) THEN IF v.js = "object" THEN Blank(v, MergedUnknown(t, v)) ELSE v
    ELSE IF IsEnvelope(v) /\ v.items[1] = Num("0") /\ v.items[2].js = "object"
    THEN Arr(<<v.items[1], Blank(v.items[2], MergedUnknown(t, v.items[2]))>>)
    ELSE v

BlankField(t, v, n, wire) == ToUndefined(Field(t, n).type, v.props[n], wire)
BlankEntry(t, v, k, wire) == ToUndefined(t.index[1], v.props[k], wire)
BlankObject(t, v, wire) ==
    LET cleared == Blank(v, UnknownOf(t, v))
    IN  Obj([k \in DOMAIN v.props |->
               CASE k \in Present(t, v) -> BlankField(t, v, k, wire)
                 [] k \in OtherEntries(t, v) -> BlankEntry(t, v, k, wire)
                 [] OTHER -> cleared.props[k]])
BlankArray(t, v, wire) == Arr([i \in DOMAIN v.items |-> ToUndefined(t.child, v.items[i], wire)])
BlankIterable(t, v, wire) ==
    LET Pair(e) == Arr([side \in DOMAIN e.items |-> ToUndefined(t.inner[side], e.items[side], wire)])
        Item(e) == IF t.kind = "map" THEN Pair(e) ELSE ToUndefined(t.inner[1], e, wire)
    IN  [v EXCEPT !.items = [i \in DOMAIN v.items |-> Item(v.items[i])]]

ToUndefined(t0, v, wire) ==
    LET t == Resolve(t0)
    IN  CASE t.kind = "object" /\ v.js = "object" -> BlankObject(t, v, wire)
          [] t.kind = "array" /\ v.js = "array" -> BlankArray(t, v, wire)
          [] t.kind \in {"map", "set"} /\ v.js = t.kind /\ ~wire -> BlankIterable(t, v, wire)
          [] t.kind = "union" -> BlankUnion(t, v, wire)
          [] OTHER -> v

-----------------------------------------------------------------------------
(* When a family has nothing to do for a type. *)

\* unknownKeysNoopObject: a named field asks for a probe, unless there is an
\* index signature.
ObjectUnknownNoop(t, blind, seen) ==
    /\ HasIndex(t) \/ t.fields = <<>>
    /\ \A n \in TrackedNames(t) : UnknownNoopIn(Field(t, n).type, blind, seen)
    /\ WalksEntries(t) => UnknownNoopIn(t.index[1], blind, seen)
UnionUnknownNoop(t) ==
    \/ \E i \in DOMAIN DataMembers(t) : HasIndex(Resolve(DataMembers(t)[i]))
    \/ MergedNames(Objects(t)) = <<>>

\* unknownKeysNoopRecursive: blind is the containers the family never enters.
UnknownNoopIn(t0, blind, seen) ==
    LET t == Resolve(t0)
        N(part) == UnknownNoopIn(part, blind, seen \union {t0})
    IN  \/ t0 \in seen
        \/ t.kind \in blind \union AtomicKinds \union {"function", "promise", "date"}
        \/ t.kind = "object" /\ ObjectUnknownNoop(t, blind, seen \union {t0})
        \/ t.kind = "array" /\ N(t.child)
        \/ t.kind = "tuple" /\ \A i \in DOMAIN t.slots : N(t.slots[i].type)
        \/ t.kind \in {"map", "set"} /\ \A i \in DOMAIN t.inner : N(t.inner[i])
        \/ t.kind = "union" /\ UnionUnknownNoop(t)
HasUnknownNoop(t) == UnknownNoopIn(t, {}, {})
UnknownLive(t, wire) == ~UnknownNoopIn(t, IF wire THEN {"tuple", "map", "set"} ELSE {"tuple"}, {})

-----------------------------------------------------------------------------
(* cloneExactShape *)

\* emitUnionCloneExactShape has no code for a union with a plain object member.
CloneableIn(t0, seen) ==
    LET t == Resolve(t0)
        parts == IF t.kind = "object" THEN {t.fields[i].type : i \in DOMAIN t.fields}
                                           \union (IF WalksIndex(t) THEN {t.index[1]} ELSE {})
                 ELSE Parts(t)
    IN  \/ t0 \in seen
        \/ (t.kind = "union" => Objects(t) = <<>>)
           /\ \A p \in parts : CloneableIn(p, seen \union {t0})
Cloneable(t) == CloneableIn(t, {})

\* cloneExactShapeNoopRecursive: the clone is the value itself.
CloneNoop(t0) ==
    LET t == Resolve(t0)
    IN  IF t.kind = "union"
        THEN Objects(t) = <<>> /\ \A i \in DOMAIN DataMembers(t) : CloneNoop(DataMembers(t)[i])
        ELSE t.kind \notin {"object", "array", "tuple", "map", "set", "date", "regexp"}

\* A slip: the clone is a spread of the object.
CloneObjectSpread(t, v) ==
    LET names == {n \in DataNames(t) : ~(Field(t, n).optional /\ Prop(v, n) = Undefined)}
    IN  Obj([k \in DOMAIN v.props |-> IF k \in names THEN Clone(Field(t, k).type, v.props[k]) ELSE v.props[k]])

\* opaqueValueSlot: a function, a symbol or a promise is copied by reference.
CloneField(t, v, n) ==
    IF Stripped(Field(t, n).type) THEN Prop(v, n) ELSE Clone(Field(t, n).type, Prop(v, n))
CloneEntry(t, v, k) == Clone(t.index[1], v.props[k])
CloneObject(t, v) ==
    LET names == {n \in FieldNames(t) : ~(Field(t, n).optional /\ Prop(v, n) = Undefined)}
    IN  Obj([k \in names \union IndexKeys(t, v) |->
               IF k \in names THEN CloneField(t, v, k) ELSE CloneEntry(t, v, k)])

\* emitTupleCloneExactShape: every fixed slot, cut to the value's length where
\* a slot is optional and nothing follows.
CloneTuple(t, v) ==
    LET identity == \A i \in DOMAIN t.slots : CloneNoop(t.slots[i].type)
        optional == \E i \in DOMAIN t.slots : t.slots[i].optional
        length == IF optional /\ ~HasRest(t) /\ Len(v.items) < Fixed(t) THEN Len(v.items)
                  ELSE WrittenSlots(t, v)
    IN  IF identity THEN v
        ELSE Arr([i \in 1 .. length |->
                    IF SlotType(t, i).optional /\ ItemAt(v, i) = Undefined THEN Undefined
                    ELSE Clone(SlotType(t, i).type, ItemAt(v, i))])

CloneUnion(t, v) ==
    LET arms == {i \in DOMAIN DataMembers(t) :
                   ~CloneNoop(DataMembers(t)[i]) /\ MemberValid(DataMembers(t)[i], v)}
    IN  IF arms = {} THEN v
        ELSE Clone(DataMembers(t)[CHOOSE i \in arms : \A j \in arms : i <= j], v)

CloneArray(t, v) == Arr([i \in DOMAIN v.items |-> Clone(t.child, v.items[i])])
CloneIterable(t, v) ==
    LET Pair(e) == Arr([side \in DOMAIN e.items |-> Clone(t.inner[side], e.items[side])])
        Item(e) == IF t.kind = "map" THEN Pair(e) ELSE Clone(t.inner[1], e)
    IN  [v EXCEPT !.items = [i \in DOMAIN v.items |-> Item(v.items[i])]]

Clone(t0, v) ==
    LET t == Resolve(t0)
    IN  CASE t.kind = "object" -> CloneObject(t, v)
          [] t.kind = "array" -> CloneArray(t, v)
          [] t.kind = "tuple" -> CloneTuple(t, v)
          [] t.kind \in {"map", "set"} -> CloneIterable(t, v)
          [] t.kind = "union" -> CloneUnion(t, v)
          [] OTHER -> v
=============================================================================
