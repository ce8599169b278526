--------------------------- MODULE MCTypeFunctions ---------------------------
EXTENDS TypeFunctions

N == Kind("number")
S == Kind("string")
B == Kind("boolean")
Big == Kind("bigint")
D == Kind("date")
R == Kind("regexp")
Level == Enum({Num("1"), Str("1")})
A == Literal(Str("a"))
One == Literal(Num("1"))
Req(name, t) == [name |-> name, type |-> t, optional |-> FALSE]
Opt(name, t) == [name |-> name, type |-> t, optional |-> TRUE]
Slot(t) == [type |-> t, optional |-> FALSE, rest |-> FALSE]
SlotOpt(t) == [type |-> t, optional |-> TRUE, rest |-> FALSE]
Rest(t) == [type |-> t, optional |-> FALSE, rest |-> TRUE]
Plain(fields) == Object(fields, <<>>)

\* Objects of which the estimate falls short: two that share four fields, and
\* two that a value can be at once.
Four(t) == Plain(<<Req("a", t), Req("b", t), Req("c", t), Req("d", t)>>)
SharedFour == Union(<<Four(N), Four(D)>>)
Either == Union(<<Plain(<<Req("a", N)>>), Plain(<<Req("b", N)>>)>>)
Both == Obj([k \in {"a", "b"} |-> Num("1")])

\* A list and a tree reach themselves.
MCEnv ==
    [List |-> Plain(<<Req("v", N), Opt("next", Ref("List"))>>),
     Tree |-> Plain(<<Req("kids", ArrayOf(Ref("Tree"))), Opt("at", D)>>)]

MCTypes ==
    {N, D, Big, Kind("any"), Kind("undefined"), SharedFour, Either,
     ArrayOf(Big), ArrayOf(ArrayOf(S)), ArrayOf(R), Level,
     Plain(<<Req("a", Level), Opt("b", R)>>), Union(<<Level, R>>), Union(<<R, Plain(<<Req("a", Level)>>)>>),
     Plain(<<Req("a", S), Opt("b", N)>>),
     Plain(<<Opt("a", D), Opt("b", Kind("any"))>>), Plain(<<Opt("a", N), Req("b", D)>>),
     Plain(<<Req("a", Plain(<<Opt("x", Big)>>)), Opt("b", ArrayOf(Plain(<<Req("y", S)>>)))>>),
     Plain(<<Req("a", S), Opt("f", Kind("function")), Req("b", N)>>),
     Object(<<>>, <<D>>), Object(<<Req("a", S)>>, <<Plain(<<Req("a", S)>>)>>),
     Tuple(<<Slot(S), SlotOpt(Big)>>), Tuple(<<Slot(D), Rest(S)>>), Tuple(<<Slot(Plain(<<Req("a", S)>>)), SlotOpt(N)>>),
     MapOf(S, D), MapOf(N, Plain(<<Req("a", N)>>)), SetOf(Big),
     Ref("List"), Ref("Tree"),
     Union(<<S, N>>), Union(<<S, Big>>), Union(<<D, S, ArrayOf(N)>>), Union(<<A, One>>),
     Union(<<ArrayOf(Big), Plain(<<Req("a", S)>>)>>),
     Union(<<Plain(<<Req("a", A), Req("b", Big)>>), Plain(<<Req("a", One), Req("b", S)>>)>>),
     Union(<<Plain(<<Req("b", N), Opt("a", S)>>), Plain(<<Req("b", D)>>), Kind("null")>>),
     Union(<<Plain(<<Req("a", Union(<<N, S>>))>>), Plain(<<Req("a", Big), Opt("b", N)>>)>>),
     Union(<<Plain(<<Req("a", S)>>), Kind("undefined")>>),
     Union(<<Tuple(<<Slot(N), Slot(D)>>), ArrayOf(S)>>), Union(<<D, Plain(<<Opt("a", N)>>)>>),
     MapOf(S, Union(<<Big, N>>)), ArrayOf(Union(<<S, Kind("undefined")>>)), SetOf(Union(<<S, D>>)),
     ArrayOf(Union(<<Plain(<<Req("a", A), Opt("b", D)>>), Plain(<<Req("a", One), Opt("b", Big)>>)>>)),
     Tuple(<<Slot(Union(<<N, Big>>)), SlotOpt(Plain(<<Opt("a", S)>>)), SlotOpt(D)>>),
     Object(<<Opt("a", N)>>, <<Union(<<N, S>>)>>),
     Plain(<<Opt("a", Union(<<N, Kind("undefined")>>)), Req("b", Tuple(<<Slot(S)>>))>>),
     Plain(<<Req("a", Union(<<S, D>>)), Opt("b", Union(<<N, Plain(<<Req("x", N)>>)>>))>>)}

-----------------------------------------------------------------------------
\* Some values of a type, two to a leaf, lists of up to two, and a key that is
\* not declared.
Cross(n, F(_)) == {s \in UNION {[1 .. n -> UNION {F(i) : i \in 1 .. n}]} : \A i \in 1 .. n : s[i] \in F(i)}
Lists(set) == {<<>>} \union {<<x>> : x \in set} \union {<<x, CHOOSE y \in set : TRUE>> : x \in set}

RECURSIVE Some(_, _)
SomeObjects(t, depth) ==
    LET n == Len(t.fields)
        Missing == Leaf("missing", "missing")
        OfField(i) == Some(t.fields[i].type, depth)
                      \union (IF t.fields[i].optional THEN {Missing, Undefined} ELSE {})
        Made(c) == [name \in {t.fields[i].name : i \in {j \in 1 .. n : c[j] # Missing}} |->
                      c[CHOOSE i \in 1 .. n : t.fields[i].name = name]]
        objects == {Made(c) : c \in Cross(n, OfField)}
        entries == IF HasIndex(t) THEN {[k \in {"k"} |-> v] : v \in Some(t.index[1], depth)} \union {<<>>} ELSE {<<>>}
        weak == \A i \in 1 .. n : t.fields[i].optional
        extra == IF HasIndex(t) \/ weak THEN {<<>>} ELSE {<<>>, [k \in {"z"} |-> Str("1")]}
    IN  {Obj(o @@ e @@ x) : o \in objects, e \in entries, x \in extra}

SomeTuples(t, depth) ==
    LET OfSlot(i) == Some(t.slots[i].type, depth) \union (IF t.slots[i].optional THEN {Undefined} ELSE {})
        full == Cross(Fixed(t), OfSlot)
        short == IF Fixed(t) > 0 /\ t.slots[Fixed(t)].optional
                 THEN {SubSeq(s, 1, Len(s) - 1) : s \in full} ELSE {}
        tails == IF HasRest(t) THEN Lists(Some(Last(t.slots).type, depth)) ELSE {<<>>}
    IN  {Arr(s \o r) : s \in full, r \in tails} \union {Arr(s) : s \in short}

Some(t0, depth) ==
    LET t == Resolve(t0)
        Inner(i) == Some(t.inner[i], depth)
    IN  CASE t0.kind = "ref" /\ depth = 0 -> {}
          [] t0.kind = "ref" /\ depth > 0 -> Some(t, depth - 1)
          [] t.kind = "literal" -> {t.value}
          [] t.kind = "string" -> {Str("1"), Str("a")}
          [] t.kind = "number" -> {Num("0"), Num("1")}
          [] t.kind = "boolean" -> {Leaf("boolean", "true")}
          [] t.kind = "bigint" -> {Leaf("bigint", "0"), Leaf("bigint", "1")}
          [] t.kind = "date" -> {Leaf("date", "1"), Leaf("date", "2020")}
          [] t.kind = "regexp" -> {Leaf("regexp", "/a/g"), Leaf("regexp", "1")}
          [] t.kind = "enum" -> t.values
          [] t.kind \in {"any", "unknown"} -> {Str("1"), Arr(<<Num("1")>>)}
          [] t.kind = "array" -> {Arr(l) : l \in Lists(Some(t.child, depth))}
          [] t.kind = "tuple" -> SomeTuples(t, depth)
          [] t.kind = "map" -> {[js |-> "map", items |-> l] : l \in Lists({Arr(s) : s \in Cross(2, Inner)})}
          [] t.kind = "set" -> {[js |-> "set", items |-> l] : l \in {<<>>} \union {<<x>> : x \in Inner(1)}}
          [] t.kind = "union" -> UNION {Some(t.members[i], depth) : i \in DOMAIN t.members}
          [] t.kind = "object" -> SomeObjects(t, depth)
          [] t.kind = "function" -> {Leaf("function", "f")}
          [] OTHER -> {Leaf(t.kind, t.kind)}

MCDigits == {"0", "1"}
MCDates == {"1", "2020"}
MCPatterns == {"1", "/a/g"}
MCCases == {<<Kind("any"), Null>>, <<Either, Both>>} \union UNION {{<<t, v>> : v \in {x \in Some(t, 2) : Validate(t, x)}} : t \in MCTypes}
MCOdd == {Num("NaN"), Leaf("date", "invalid"), Leaf("symbol", "s"), Obj([k \in {"a"} |-> Num("NaN")])}
=============================================================================
