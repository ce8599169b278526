------------------------------ MODULE RunTypes ------------------------------
(***************************************************************************)
(* Reflected types and the JavaScript values the generated functions take. *)
(*                                                                         *)
(* A type is a record with a kind; a "ref" names a declaration of Env,     *)
(* which is how a type reaches itself.  A value is a record with what      *)
(* typeof and instanceof tell of it (js) and its contents: of for a leaf,  *)
(* items for arrays, sets and maps (a map's items are pairs), props for    *)
(* plain objects.  The text of a string, the digits of a bigint and the    *)
(* ISO text of a date are tokens, shared where JavaScript prints them      *)
(* alike, so that a decoder that mistakes one for another is seen.         *)
(***************************************************************************)
EXTENDS Naturals, Sequences, FiniteSets

CONSTANT Env        \* the declarations: name |-> type

\* Declared ahead of the definitions they are made of.
RECURSIVE Holds(_, _)                   \* a value of tag js somewhere inside v
RECURSIVE Renders(_, _, _)

-----------------------------------------------------------------------------
(* Values. *)

Leaf(js, of) == [js |-> js, of |-> of]
Undefined == Leaf("undefined", "undefined")
Null == Leaf("null", "null")
Str(s) == Leaf("string", s)
Num(n) == Leaf("number", n)
Arr(items) == [js |-> "array", items |-> items]
Obj(props) == [js |-> "object", props |-> props]
Thrown(why) == Leaf("thrown", why)      \* a function that threw instead of returning

NonFinite == {"NaN", "Infinity"}
Composite == {"array", "object", "map", "set"}
ObjectTags == Composite \union {"date", "promise", "regexp"}       \* typeof v === 'object', null apart

IsObjectValue(v) == v.js \in ObjectTags
HasProp(v, name) == v.js = "object" /\ name \in DOMAIN v.props
Prop(v, name) == IF HasProp(v, name) THEN v.props[name] ELSE Undefined
ItemAt(v, i) == IF i <= Len(v.items) THEN v.items[i] ELSE Undefined
HasKeys(v) == \/ v.js = "object" /\ DOMAIN v.props # {}
              \/ v.js = "array" /\ v.items # <<>>

Holds(v, js) ==
    \/ v.js = js
    \/ v.js \in {"array", "map", "set"} /\ \E i \in DOMAIN v.items : Holds(v.items[i], js)
    \/ v.js = "object" /\ \E k \in DOMAIN v.props : Holds(v.props[k], js)

Threw(v) == Holds(v, "thrown")

Without(props, names) == [k \in DOMAIN props \ names |-> props[k]]
SetProp(props, name, v) == [k \in DOMAIN props \union {name} |-> IF k = name THEN v ELSE props[k]]

-----------------------------------------------------------------------------
(* Types. *)

Kind(kind) == [kind |-> kind]
Literal(v) == [kind |-> "literal", value |-> v]
ArrayOf(t) == [kind |-> "array", child |-> t]
Tuple(slots) == [kind |-> "tuple", slots |-> slots]
MapOf(k, v) == [kind |-> "map", inner |-> <<k, v>>]
SetOf(t) == [kind |-> "set", inner |-> <<t>>]
Union(members) == [kind |-> "union", members |-> members]
Ref(name) == [kind |-> "ref", name |-> name]
Enum(values) == [kind |-> "enum", values |-> values]
Object(fields, index) == [kind |-> "object", fields |-> fields, index |-> index]

Resolve(t) == IF t.kind = "ref" THEN Env[t.name] ELSE t

FieldNames(t) == {t.fields[i].name : i \in DOMAIN t.fields}
HasRest(t) == \E i \in DOMAIN t.slots : t.slots[i].rest

\* isFunctionLikeKind
FunctionLike(t) == Resolve(t).kind = "function"

\* isStrippedUnionMember: what the data projection of a type leaves out.
Stripped(t) == Resolve(t).kind \in {"function", "symbol", "promise", "never"}

\* isObjectLikeKind
ObjectLike(t) == Resolve(t).kind \in {"object", "array", "tuple"}

\* strippedPropertyDrop: the fields of an object type that reach the wire.
DataFields(t) == SelectSeq(t.fields, LAMBDA f : ~Stripped(f.type))
DataNames(t) == {DataFields(t)[i].name : i \in DOMAIN DataFields(t)}
Field(t, name) == t.fields[CHOOSE i \in DOMAIN t.fields : t.fields[i].name = name]

\* dataOnlyUnionMembers: the surviving members, or all of them when none survives.
DataMembers(t) ==
    LET survivors == SelectSeq(t.members, LAMBDA m : ~Stripped(m))
    IN  IF survivors = <<>> THEN t.members ELSE survivors

\* The index signature of an object type that the families iterate over: a
\* function-valued one is skipped.
HasIndex(t) == t.kind = "object" /\ t.index # <<>>
WalksIndex(t) == HasIndex(t) /\ ~FunctionLike(t.index[1])
IndexKeys(t, v) ==
    IF v.js = "object" /\ WalksIndex(t) THEN DOMAIN v.props \ FieldNames(t) ELSE {}

\* The types a type is directly made of, as a walk for unsupported leaves
\* reaches them: a stripped field and a stripped union member are dropped,
\* anything else is walked.
Parts(t) ==
    CASE t.kind = "array" -> {t.child}
      [] t.kind = "tuple" -> {t.slots[i].type : i \in DOMAIN t.slots}
      [] t.kind \in {"map", "set"} -> {t.inner[i] : i \in DOMAIN t.inner}
      [] t.kind = "union" -> {DataMembers(t)[i] : i \in DOMAIN DataMembers(t)}
      [] t.kind = "object" -> {DataFields(t)[i].type : i \in DOMAIN DataFields(t)}
                              \union (IF WalksIndex(t) THEN {t.index[1]} ELSE {})
      [] OTHER -> {}

\* CodeNS from some leaf: the family's entry for the type is a function that
\* always throws.  A declaration under compilation counts as supported.
Renders(leaves, t0, seen) ==
    LET t == Resolve(t0)
    IN  \/ t0 \in seen
        \/ /\ t.kind \notin leaves
           /\ \A part \in Parts(t) :
                Renders(leaves, part, IF t0.kind = "ref" THEN seen \union {t0} ELSE seen)

Serializable(t) == Renders({"function", "symbol", "promise", "never"}, t, {})
=============================================================================
