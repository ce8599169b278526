--------------------------- MODULE EnrichClosure ---------------------------
(***************************************************************************)
(* What enrichment wants to stand in the mirror files: for a type, one     *)
(* constant per named type it reaches, each with a skeleton that the       *)
(* developer fills in.  There are two families of mirrors, friendly texts  *)
(* and mock data.                                                          *)
(*                                                                         *)
(* A type is a record [k, tag, checks, parts]: its kind, what tells it     *)
(* from others of that kind, the constraints of its format, and its parts, *)
(* labelled as the mirrors label them.  A type of kind "name" is a         *)
(* reference to a declaration.                                             *)
(***************************************************************************)
EXTENDS Naturals, Sequences, FiniteSets, SequencesExt

CONSTANTS
    Names,     \* declared types
    Display,   \* the identifier of each; instances of a generic type share one
    FileOf,    \* the source file each is declared in
    Declared,  \* the order in which a source file declares its types
    Versions,  \* versions of the source files
    Declares,  \* what each declares: Names -> body, or Gone
    Roots      \* the types the command is run for

Families == {"friendly", "mock"}

Sources == {FileOf[n] : n \in Names}

Gone == [k |-> "gone", tag |-> "", checks |-> {}, parts |-> <<>>]

Body(d, t) == IF t.k = "name" THEN d[t.tag] ELSE t

\* Parameters that no value can fail, and constraints that carry a count.
NonFailing == {"isCurrency", "mockSamples", "trim", "lowercase", "uppercase", "capitalize",
               "replace", "replaceAll"}

CountBearing == {"minLength", "maxLength", "min", "max", "lt", "gt"}

Constraints(t) == t.checks \ NonFailing

(***************************************************************************)
(* The structural id of a type: the names on the way do not count, but an  *)
(* enumeration's own name is part of what it is.                           *)
(***************************************************************************)
RECURSIVE IdOn(_, _, _)
IdOn(d, t, path) ==
    IF t.k = "name" /\ Contains(path, t.tag)
    THEN [k |-> "back", up |-> Len(path) - CHOOSE i \in DOMAIN path : path[i] = t.tag]
    ELSE LET b  == Body(d, t)
             on == IF t.k = "name" THEN Append(path, t.tag) ELSE path
         IN [k |-> b.k, tag |-> b.tag, checks |-> b.checks,
             parts |-> [i \in DOMAIN b.parts |->
                           <<b.parts[i].label, IdOn(d, b.parts[i].type, on)>>]]

Id(d, t) == IdOn(d, t, <<>>)

(***************************************************************************)
(* Names in the order a walk from the root meets them.  A node is known by *)
(* its id, so of two declarations with one structure the first is shown.   *)
(***************************************************************************)
RECURSIVE Reach(_, _, _)
Reach(d, parts, met) ==
    IF parts = <<>> THEN met
    ELSE LET t  == Head(parts).type
             on == IF t.k # "name" THEN Reach(d, t.parts, met)
                   ELSE IF Contains(met, t.tag) THEN met
                   ELSE Reach(d, Body(d, t).parts, Append(met, t.tag))
         IN Reach(d, Tail(parts), on)

Named(n) == [k |-> "name", tag |-> n, checks |-> {}, parts |-> <<>>]

ReachedFrom(d, n) == Reach(d, d[n].parts, <<n>>)

Resolves(d, n) == \A m \in Range(ReachedFrom(d, n)) : d[m] # Gone

Shown(d, root, t) ==
    LET met  == ReachedFrom(d, root)
        same == {i \in DOMAIN met : Id(d, Named(met[i])) = Id(d, t)}
    IN met[CHOOSE i \in same : \A j \in same : i <= j]

(***************************************************************************)
(* Object literals.  How one ends decides whether another property can be  *)
(* put after the last: with a comma, bare, or (only after an edit) with    *)
(* two commas, which no longer parses.  "dead" are the properties that     *)
(* were commented out inside it.                                           *)
(***************************************************************************)
P(key, val) == [key |-> key, val |-> val]
Text(by)    == [is |-> "text", by |-> by]
Blank       == Text([n |-> 0])
Given       == Text([n |-> 0, as |-> "[1, 3]"])
Ref(var)    == [is |-> "ref", var |-> var]
Arr(vals)   == [is |-> "arr", vals |-> vals]

Obj(props, end) == [is |-> "obj", props |-> props, end |-> end, dead |-> {}]

Inline(props) == Obj(props, "bare")

Lines(props) == Obj(props, IF props = <<>> THEN "bare" ELSE "comma")

\* The blank of one constraint: a plural template if it carries a count.
ErrorBlank(key) ==
    IF key \in CountBearing THEN Inline(<<P("one", Blank), P("other", Blank)>>) ELSE Blank

Meta(checks) ==
    <<P("rt$label", Blank),
      P("rt$errors", Inline(<<P("type", Blank)>> \o
          LET keys == SetToSeq(checks) IN [i \in DOMAIN keys |-> P(keys[i], ErrorBlank(keys[i]))]))>>

Bare(fam) == IF fam = "friendly" THEN Inline(Meta({})) ELSE Inline(<<P("pool", Blank)>>)

(***************************************************************************)
(* The skeleton of a node.  c knows the constants that are already named   *)
(* and the types being emitted: a reference back to one of those is cut to *)
(* a blank, any other named type below the root is a reference.            *)
(***************************************************************************)
BaseOf(c, id) == (CHOOSE x \in c.names : x.id = id).base

RECURSIVE Render(_, _, _, _)
Render(fam, c, t, top) ==
    LET b       == Body(c.d, t)
        part(i) == P(b.parts[i].label, Render(fam, c, b.parts[i].type, FALSE))
        all     == [i \in DOMAIN b.parts |-> part(i)]
        meta    == IF fam = "friendly" THEN Meta({}) ELSE <<>>
        length  == IF fam = "mock" THEN <<P("rt$length", Given)>> ELSE <<>>
    IN CASE t.k = "name" /\ ~top ->
              IF Id(c.d, t) \in c.open THEN Bare(fam) ELSE Ref(BaseOf(c, Id(c.d, t)))
         [] b.k = "tuple" ->
              Inline(meta \o <<P("rt$slots", Arr([i \in DOMAIN all |-> all[i].val]))>>)
         [] b.k = "variadic"       -> Inline(meta \o <<P("rt$items", Bare(fam))>> \o length)
         [] b.k \in {"map", "set"} -> Inline(meta \o all)
         [] b.k = "array"          -> Inline(meta \o all \o length)
         [] b.k = "object" ->
              IF b.parts = <<>> /\ fam = "friendly" THEN Bare(fam) ELSE Lines(meta \o all)
         [] OTHER -> IF fam = "friendly" THEN Inline(Meta(Constraints(b))) ELSE Bare(fam)

(***************************************************************************)
(* The ids of the parts a constant's body owns, by path.                   *)
(***************************************************************************)
RECURSIVE IdPairs(_, _, _)
IdPairs(d, parts, path) ==
    IF parts = <<>> THEN {}
    ELSE LET p  == Head(parts)
             at == Append(path, p.label)
         IN {<<at, Id(d, p.type)>>}
            \cup IdPairs(d, IF p.type.k = "name" THEN <<>> ELSE p.type.parts, at)
            \cup IdPairs(d, Tail(parts), path)

ChildIds(d, t) ==
    LET pairs == IdPairs(d, Body(d, t).parts, <<>>)
    IN [path \in {x[1] : x \in pairs} |-> (CHOOSE x \in pairs : x[1] = path)[2]]

(***************************************************************************)
(* The walk: a type's constant comes after those it refers to.             *)
(***************************************************************************)
RECURSIVE Mentions(_)
Mentions(parts) ==
    IF parts = <<>> THEN <<>>
    ELSE LET t == Head(parts).type
         IN (CASE t.k = "name"     -> <<t>>
               [] t.k = "variadic" -> <<>>
               [] OTHER            -> Mentions(t.parts)) \o Mentions(Tail(parts))

UniqueName(base, used) ==
    IF base \notin used THEN base
    ELSE LET spare(i) == base \o ToString(i)
         IN spare(CHOOSE i \in 2..Cardinality(used) + 2 :
                     spare(i) \notin used /\ \A j \in 2..i - 1 : spare(j) \in used)

RECURSIVE EmitNamed(_, _, _)
EmitNamed(root, w, types) ==
    IF types = <<>> THEN w
    ELSE
    LET t    == Head(types)
        id   == Id(w.d, t)
        body == Body(w.d, t)
        name == Shown(w.d, root, t)
        base == UniqueName(Display[name], w.used)
        enter == [w EXCEPT !.names = @ \cup {[id |-> id, base |-> base]},
                           !.used  = @ \cup {base},
                           !.open  = @ \cup {id}]
        below == EmitNamed(root, enter, IF body.k = "variadic" THEN <<>> ELSE Mentions(body.parts))
        const == [var |-> base, type |-> Display[name], of |-> Named(name), file |-> FileOf[name],
                  id |-> id, ids |-> ChildIds(w.d, t),
                  body |-> [fam \in Families |-> Render(fam, below, t, TRUE)]]
        known == \E x \in w.names : x.id = id
    IN EmitNamed(root,
                 IF known THEN w
                 ELSE [below EXCEPT !.open = @ \ {id}, !.consts = Append(@, const)],
                 Tail(types))

EmitClosure(d, root) ==
    EmitNamed(root, [d |-> d, names |-> {}, used |-> {}, open |-> {}, consts |-> <<>>],
              <<Named(root)>>).consts

(***************************************************************************)
(* Several roots are merged by variable; types that do not resolve are     *)
(* skipped.  The constants of one file and family are one specification.   *)
(***************************************************************************)
RECURSIVE PlanMany(_, _)
PlanMany(d, roots) ==
    IF roots = <<>> THEN <<>>
    ELSE LET before == PlanMany(d, Front(roots))
             vars   == {before[i].var : i \in DOMAIN before}
         IN IF ~Resolves(d, Last(roots)) THEN before
            ELSE before \o SelectSeq(EmitClosure(d, Last(roots)), LAMBDA c : c.var \notin vars)

\* Positions of the first constant of each file.
DeclFiles(closure) ==
    SelectSeq([i \in DOMAIN closure |-> i],
              LAMBDA i : \A j \in 1..i - 1 : closure[j].file # closure[i].file)

BuildSpecs(closure) ==
    LET home == [v \in {closure[i].var : i \in DOMAIN closure} |->
                    (CHOOSE c \in Range(closure) : c.var = v).file]
        spec(src, fam) == [src |-> src, fam |-> fam, home |-> home,
                           consts |-> SelectSeq(closure, LAMBDA c : c.file = src)]
        firsts == DeclFiles(closure)
        file(k) == closure[firsts[(k + 1) \div 2]].file
    IN [k \in 1..2 * Len(firsts) |-> spec(file(k), IF k % 2 = 1 THEN "friendly" ELSE "mock")]

\* A command plans for one root, the daemon for all the types of a source file.
\* (Joined with an empty function, TLC tabulates them once.)
RootPlans ==
    [v \in Versions |->
        [n \in Roots |-> IF Resolves(Declares[v], n)
                         THEN BuildSpecs(EmitClosure(Declares[v], n)) ELSE <<>>] @@ << >>] @@ << >>

FilePlans ==
    [v \in Versions |->
        [src \in Sources |-> BuildSpecs(PlanMany(Declares[v],
                                SelectSeq(Declared, LAMBDA n : FileOf[n] = src)))] @@ << >>] @@ << >>
=============================================================================
