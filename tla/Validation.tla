----------------------------- MODULE Validation -----------------------------
(***************************************************************************)
(* What the generated `validate` and `validationErrors` functions compute. *)
(* The emitters build JavaScript; a definition here is the meaning of the  *)
(* code an emitter builds for a type, at a value.                          *)
(***************************************************************************)
EXTENDS RunTypes, TLC

\* Declared ahead of the definitions they are made of.
RECURSIVE Validate(_, _)
RECURSIVE Errors(_, _, _)

\* ValidateEmitter has no code for a symbol; a tuple slot of a function is
\* checked to be absent.
Checkable(t) == Renders({"symbol"}, t, {})

\* looseCheckGate: an object type with only optional fields takes, as a union
\* member, a value with one of those fields or with no key at all.
LooseGate(t0, v) ==
    LET t == Resolve(t0)
    IN  t.kind = "object" =>
          \/ HasIndex(t)
          \/ t.fields = <<>>
          \/ \E i \in DOMAIN t.fields : ~t.fields[i].optional
          \/ \E name \in FieldNames(t) : HasProp(v, name)
          \/ ~HasKeys(v)

\* A field whose check is not empty: an optional `any` has none.
AnyKind(t) == Resolve(t).kind \in {"any", "unknown"}
Contributes(f) == ~Stripped(f.type) /\ ~(f.optional /\ AnyKind(f.type))

\* The brand guard: only a plain object, unless a required field tells.
BrandGuarded(t) ==
    \/ HasIndex(t)
    \/ \A i \in DOMAIN t.fields : Contributes(t.fields[i]) => t.fields[i].optional

ObjectGuard(t, v) == IF BrandGuarded(t) THEN v.js = "object" ELSE IsObjectValue(v)

\* emitPropertyValidate
FieldValid(f, v) ==
    \/ Stripped(f.type)
    \/ f.optional /\ Prop(v, f.name) = Undefined
    \/ IF AnyKind(f.type) THEN f.optional \/ HasProp(v, f.name)
       ELSE Validate(f.type, Prop(v, f.name))

\* emitTupleMemberValidate
SlotValid(t, i, v) ==
    LET s == t.slots[i]
    IN  CASE FunctionLike(s.type) -> ItemAt(v, i) = Undefined
          [] s.rest /\ ~FunctionLike(s.type) ->
               \A j \in i .. Len(v.items) : Validate(s.type, v.items[j])
          [] OTHER -> \/ s.optional /\ ItemAt(v, i) = Undefined
                      \/ Validate(s.type, ItemAt(v, i))

TupleShape(t, v) == v.js = "array" /\ (HasRest(t) \/ Len(v.items) <= Len(t.slots))

\* emitUnionValidate
MemberValid(m, v) ==
    Validate(m, v) /\ LooseGate(m, v) /\ (ObjectLike(m) => IsObjectValue(v))

\* The checks of the kinds, as the arms of emitKindDefault.
LiteralValid(t, v) == v = t.value
EnumValid(t, v) == v \in t.values
ArrayValid(t, v) == v.js = "array" /\ \A i \in DOMAIN v.items : Validate(t.child, v.items[i])
TupleValid(t, v) == TupleShape(t, v) /\ \A i \in DOMAIN t.slots : SlotValid(t, i, v)
MapValid(t, v) ==
    /\ v.js = "map"
    /\ \A i \in DOMAIN v.items, side \in {1, 2} : Validate(t.inner[side], v.items[i].items[side])
SetValid(t, v) == v.js = "set" /\ \A i \in DOMAIN v.items : Validate(t.inner[1], v.items[i])
UnionValid(t, v) == \E i \in DOMAIN DataMembers(t) : MemberValid(DataMembers(t)[i], v)
IndexValid(t, v) == \A k \in IndexKeys(t, v) : Validate(t.index[1], v.props[k])
ObjectValid(t, v) ==
    ObjectGuard(t, v) /\ IndexValid(t, v) /\ \A i \in DOMAIN t.fields : FieldValid(t.fields[i], v)
LeafValid(t, v) ==
    CASE t.kind \in {"any", "unknown"} -> TRUE
      [] t.kind = "literal" -> LiteralValid(t, v)
      [] t.kind = "enum" -> EnumValid(t, v)
      [] t.kind = "number" -> v.js = "number" /\ v.of \notin NonFinite
      [] t.kind = "date" -> v.js = "date" /\ v.of # "invalid"
      [] OTHER -> v.js = t.kind

Validate(t0, v) ==
    LET t == Resolve(t0)
    IN  CASE t.kind = "array" -> ArrayValid(t, v)
          [] t.kind = "tuple" -> TupleValid(t, v)
          [] t.kind = "map" -> MapValid(t, v)
          [] t.kind = "set" -> SetValid(t, v)
          [] t.kind = "union" -> UnionValid(t, v)
          [] t.kind = "object" -> ObjectValid(t, v)
          [] OTHER -> LeafValid(t, v)

-----------------------------------------------------------------------------
(* The errors of a value: where (a path of names and positions) and what    *)
(* was expected there.                                                      *)

Err(path, expected) == [path |-> path, expected |-> expected]
ErrUnless(ok, path, expected) == IF ok THEN {} ELSE {Err(path, expected)}

FieldErrors(f, v, path) ==
    CASE Stripped(f.type) -> {}
      [] ~Stripped(f.type) /\ AnyKind(f.type) ->
           ErrUnless(f.optional \/ HasProp(v, f.name), Append(path, f.name), "any")
      [] OTHER -> IF f.optional /\ Prop(v, f.name) = Undefined THEN {}
                  ELSE Errors(f.type, Prop(v, f.name), Append(path, f.name))

\* A slip: an absent optional slot is an error.
SlotErrorsStrict(t, i, v, path) ==
    LET s == t.slots[i]
    IN  CASE FunctionLike(s.type) -> ErrUnless(ItemAt(v, i) = Undefined, Append(path, ToString(i)), "undefined")
          [] s.rest /\ ~FunctionLike(s.type) ->
               UNION {Errors(s.type, v.items[j], Append(path, ToString(j))) : j \in i .. Len(v.items)}
          [] OTHER -> Errors(s.type, ItemAt(v, i), Append(path, ToString(i)))

SlotErrors(t, i, v, path) ==
    LET s == t.slots[i]
    IN  CASE FunctionLike(s.type) -> ErrUnless(ItemAt(v, i) = Undefined, Append(path, ToString(i)), "undefined")
          [] s.rest /\ ~FunctionLike(s.type) ->
               UNION {Errors(s.type, v.items[j], Append(path, ToString(j))) : j \in i .. Len(v.items)}
          [] OTHER -> IF s.optional /\ ItemAt(v, i) = Undefined THEN {}
                      ELSE Errors(s.type, ItemAt(v, i), Append(path, ToString(i)))

ItemErrors(t, v, path) ==
    UNION {Errors(t, v.items[i], Append(path, ToString(i))) : i \in DOMAIN v.items}
ArrayErrors(t, v, path) == IF v.js # "array" THEN {Err(path, "array")} ELSE ItemErrors(t.child, v, path)
SetErrors(t, v, path) == IF v.js # "set" THEN {Err(path, "set")} ELSE ItemErrors(t.inner[1], v, path)
MapErrors(t, v, path) ==
    IF v.js # "map" THEN {Err(path, "map")}
    ELSE UNION {Errors(t.inner[side], v.items[i].items[side], Append(path, ToString(i)))
                  : i \in DOMAIN v.items, side \in {1, 2}}
TupleErrors(t, v, path) ==
    IF ~TupleShape(t, v) THEN {Err(path, "tuple")}
    ELSE UNION {SlotErrors(t, i, v, path) : i \in DOMAIN t.slots}
IndexErrors(t, v, path) ==
    UNION {Errors(t.index[1], v.props[k], Append(path, k)) : k \in IndexKeys(t, v)}
ObjectErrors(t, v, path) ==
    IF ~ObjectGuard(t, v) THEN {Err(path, "object")}
    ELSE IndexErrors(t, v, path) \union UNION {FieldErrors(t.fields[i], v, path) : i \in DOMAIN t.fields}
\* The union's errors are its validate's answer, and name no member.
UnionErrors(t, v, path) == ErrUnless(Validate(t, v), path, "union")
LiteralErrors(t, v, path) == ErrUnless(LiteralValid(t, v), path, "literal")

Errors(t0, v, path) ==
    LET t == Resolve(t0)
    IN  CASE t.kind = "array" -> ArrayErrors(t, v, path)
          [] t.kind = "tuple" -> TupleErrors(t, v, path)
          [] t.kind = "map" -> MapErrors(t, v, path)
          [] t.kind = "set" -> SetErrors(t, v, path)
          [] t.kind = "union" -> UnionErrors(t, v, path)
          [] t.kind = "object" -> ObjectErrors(t, v, path)
          [] t.kind = "literal" -> LiteralErrors(t, v, path)
          [] OTHER -> ErrUnless(LeafValid(t, v), path, t.kind)
=============================================================================
