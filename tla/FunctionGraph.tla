---------------------------- MODULE FunctionGraph ----------------------------
(***************************************************************************)
(* Which functions a build generates, what each of them refers to, and     *)
(* what a cache file must say to be used in place of generating one.       *)
(*                                                                         *)
(* The families are "val" (validate: a public operation, which a project   *)
(* may override), "pjs" (the primitive that prepares a value for JSON) and *)
(* "je" (the JSON encoder, a fixed text around the primitive).  A type is  *)
(* a node of a finite graph; what a family can do with a kind of type is   *)
(* given by the constant sets below.                                       *)
(***************************************************************************)
EXTENDS Naturals, FiniteSets

CONSTANTS
    Types,       \* the types of every program
    Kids,        \* [Types -> SUBSET Types]: the types a type is built from
    Compound,    \* arrays, objects, tuples, unions and classes
    Absorbing,   \* objects and unions: a member a family refuses is left out
    Unions,      \* their text tells members apart by the val function
    Circular,    \* flagged by the serializer: a call, never inlined
    Plain,       \* JSON carries the value as it is
    Patterned,   \* string formats whose samples the JavaScript engine tests
    Refused,     \* <<family, type>>: a leaf for which there is no text
    Warned,      \* <<family, type, code>>: what walking the type reports
    Used,        \* <<family, type, name>>: built-in functions the text calls
    Builtins,    \* the table of built-in functions
    Programs,    \* states of the project a build may find
    Project,     \* [Programs -> what the state consists of]
    Short(_),    \* the short hash of a structural id
    DepthCap,    \* inheritedProvenanceDepthCap
    Told         \* [Types -> SUBSET Types]: those a search from a type meets

Walkers == {"val", "pjs"}

\* Noop families whose parents leave the identity child out.
ComposeAround == {"pjs"}

ASSUME GraphAssumption ==
    /\ IsFiniteSet(Types) /\ IsFiniteSet(Builtins)
    /\ Kids \in [Types -> SUBSET Types]
    /\ UNION {Compound, Unions, Circular, Plain, Patterned} \subseteq Types
    /\ Absorbing \subseteq Compound
    /\ Refused \subseteq Walkers \X (Types \ Compound)
    /\ \A w \in Warned : w[1] = "pjs" => w[2] \notin Plain
    /\ \A r \in Refused : r[1] = "pjs" => r[2] \notin Plain

(* A program names some of its types (an alias or an interface), overrides *)
(* operations of some, and demands functions at call sites; `rank` is the  *)
(* order in which its types are interned, `options` the build options that *)
(* change generated text.                                                  *)
Named(p) == Project[p].named
Overrides(p) == Project[p].over
Sites(p) == Project[p].sites
Rank(p) == Project[p].rank
HasRuntime(p) == Project[p].runtime
Options(p) == Project[p].options

ASSUME ProjectAssumption ==
    \A p \in Programs :
       /\ Named(p) \subseteq Compound
       /\ IsFiniteSet(Overrides(p))
       /\ \A o \in Overrides(p) : o.type \in Types /\ o.op \in {"val", "je"}
       /\ \A o1, o2 \in Overrides(p) : o1.type = o2.type /\ o1.op = o2.op => o1 = o2
       /\ \A s \in Sites(p) : s.type \in Types /\ s.op \in {"val", "je"}
                             /\ s.armed \in BOOLEAN
       /\ Rank(p) \in [Types -> Nat]
       /\ \A t, u \in Types : Rank(p)[t] = Rank(p)[u] => t = u
       /\ HasRuntime(p) \in BOOLEAN

(***************************************************************************)
(* What can be reached from a set of nodes along a successor function.     *)
(***************************************************************************)
Closure(next, from) ==
    LET grown[n \in 0..Cardinality(DOMAIN next)] ==
            IF n = 0 THEN from ELSE UNION {{t} \cup next[t] : t \in grown[n-1]}
    IN  grown[Cardinality(DOMAIN next)]

Reaches == [t \in Types |-> Closure(Kids, {t})]

Reach(t) == Reaches[t]

Cyclic(t) == t \in Closure(Kids, Kids[t])

(***************************************************************************)
(* The search that tells a call site about the types it pulls in goes from *)
(* slot to slot, each type once, and turns back below a depth.  A type met *)
(* deep is not entered, even if a shorter way leads to it that comes later *)
(* in the order of the slots: what is told is a constant, such that every  *)
(* type was met from one above it, and nothing below a type that was       *)
(* entered is left out.                                                    *)
(***************************************************************************)
IsSearch(t, depth) ==
    LET told == DOMAIN depth
    IN  /\ t \in told /\ depth[t] = 0
        /\ \A u \in told \ {t} :
              \E v \in told : u \in Kids[v] /\ depth[v] <= DepthCap /\ depth[u] = depth[v] + 1
        /\ \A v \in told : depth[v] <= DepthCap => Kids[v] \subseteq told

ASSUME SearchAssumption ==
    /\ DepthCap \in Nat
    /\ Told \in [Types -> SUBSET Types]
    /\ \A t \in Types : \E depth \in [Told[t] -> 0..(DepthCap + 1)] : IsSearch(t, depth)

(***************************************************************************)
(* Identity.  The structural id of a type spells out everything it is      *)
(* built from, with the overrides of those parts, and no alias names.  The *)
(* short hash of an id grows when an id interned earlier already has it.   *)
(***************************************************************************)
\* Altered form: only the type's own overrides are folded in.
SidOwn(p, t) == [type |-> t, over |-> {o \in Overrides(p) : o.type = t}]

Sid(p, t) == [type |-> t, over |-> {o \in Overrides(p) : o.type \in Reach(t)}]

Interned(p) == UNION {Reach(s.type) : s \in Sites(p)}

Taken(p, t) == {u \in Interned(p) : /\ Rank(p)[u] < Rank(p)[t]
                                    /\ Short(Sid(p, u)) = Short(Sid(p, t))}

Hashes ==
    [p \in Programs |-> [t \in Types |->
        [short |-> Short(Sid(p, t)), grown |-> Cardinality(Taken(p, t))]]]

HashOf(p, t) == Hashes[p][t]

\* The hash this build gave a structural id, if it has interned it.
HasHash(p, sid, id) == \E t \in Interned(p) : Sid(p, t) = sid /\ HashOf(p, t) = id

OfHash(p, id) == {t \in Interned(p) : HashOf(p, t) = id}

Key(p, f, t, armed) == [fam |-> f, id |-> HashOf(p, t), armed |-> armed]

\* A call names the structural id it was compiled against and the hash baked
\* into the text.
CallTo(p, f, t) == [fam |-> f, of |-> Sid(p, t), id |-> HashOf(p, t)]

KeyOf(call) == [fam |-> call.fam, id |-> call.id, armed |-> FALSE]

PureKey(name) == [fam |-> "pure", id |-> [short |-> name, grown |-> 0], armed |-> FALSE]

(***************************************************************************)
(* Overrides.                                                              *)
(***************************************************************************)
OverrideOp(f) == IF f = "val" THEN "val" ELSE "none"

Bodies(p, t, op) == {o.body : o \in {x \in Overrides(p) : x.type = t /\ x.op = op}}

Overridden(p, f, t) == Bodies(p, t, OverrideOp(f)) # {}

\* The primitive of a type whose encoder is overridden is not generated.
Pruned(p, f, t) == f = "pjs" /\ Bodies(p, t, "je") # {}

(***************************************************************************)
(* The walk of one function: which types its text expands, which it calls. *)
(***************************************************************************)
External(p, f, t) == Overridden(p, f, t) \/ t \in Circular \/ t \in Named(p)

Stripped(f, t) == {c \in Kids[t] : t \in Absorbing /\ <<f, c>> \in Refused}

Kept(f, t) == Kids[t] \ Stripped(f, t)

Inlined(p, f) == [t \in Types |-> {c \in Kept(f, t) : ~External(p, f, c)}]

Regions ==
    [p \in Programs |-> [f \in Walkers |-> [t \in Types |-> Closure(Inlined(p, f), {t})]]]

Region(p, f, t) == Regions[p][f][t]

\* A type met again below itself must be a call although it is inlined.
Revisited(p, f, t) ==
    {c \in Region(p, f, t) : c \in Closure(Inlined(p, f), Inlined(p, f)[c])}

Identity(f, t) == f = "pjs" /\ Reach(t) \subseteq Plain

Composed(p, f, c) == f \in ComposeAround /\ Identity(f, c) /\ ~Overridden(p, f, c)

Called(p, f, t) ==
    LET met == UNION {Kept(f, u) : u \in Region(p, f, t)}
    IN  {c \in met : /\ External(p, f, c) \/ c \in Revisited(p, f, t)
                     /\ ~Composed(p, f, c)}

\* A union's text narrows its compound members by their val functions.
Narrowed(p, f, t) ==
    IF f = "val" THEN {}
    ELSE UNION {Kept(f, u) \cap Compound : u \in Region(p, f, t) \cap Unions}

\* A leaf without text refuses every type whose text would hold its own.
Refuses(p, f, t) == \E c \in Region(p, f, t) : <<f, c>> \in Refused

(***************************************************************************)
(* What a walk reports, the engine's answers aside.                        *)
(***************************************************************************)
Codes(p, f, t) ==
    IF Refuses(p, f, t) THEN {"refused"}
    ELSE {w[3] : w \in {x \in Warned : x[1] = f /\ x[2] \in Region(p, f, t)}}
         \cup {"omitted" : u \in {x \in Region(p, f, t) : Stripped(f, x) # {}}}

Tested(p, f, t) == IF f = "val" THEN Region(p, f, t) \cap Patterned ELSE {}

\* The call sites that are told what concerns a type.
Provenance(p, t) == {s.at : s \in {x \in Sites(p) : t \in Told[x.type]}}

\* A walk of which no call site is told keeps no finding.
Attributed(p, t, codes) == {c \in codes : Provenance(p, t) # {}}

ReportAt(codes, sites) == {[code |-> c, at |-> a] : c \in codes, a \in sites}

(***************************************************************************)
(* The text generated for a type: `calls` are baked into it.               *)
(***************************************************************************)
Guarded(t, armed) == armed /\ Cyclic(t)

\* `slot` is the key the text registers itself under, `holds` the types it
\* expands.
Text(p, f, t, armed) ==
    LET noop == Identity(f, t) /\ ~Guarded(t, armed)
        kind == IF Refuses(p, f, t) THEN "throws"
                ELSE IF noop THEN "noop" ELSE "live"
    IN  [slot  |-> Key(p, f, t, armed),
         of    |-> Sid(p, t),
         built |-> Options(p),
         kind  |-> kind,
         holds |-> IF kind = "live" THEN Region(p, f, t) ELSE {},
         calls |-> IF kind # "live" THEN {}
                   ELSE {CallTo(p, f, c) : c \in Called(p, f, t)}
                        \cup {CallTo(p, "val", c) : c \in Narrowed(p, f, t)},
         pure  |-> IF kind # "live" THEN {}
                   ELSE {u[3] : u \in {x \in Used : x[1] = f /\ x[2] \in Region(p, f, t)}}
                        \cup {"findCycle" : x \in {y \in {t} : Guarded(y, armed)}}]

Redirect(p, op, t) ==
    [slot |-> Key(p, op, t, FALSE), of |-> Sid(p, t), built |-> Options(p), kind |-> "redirect",
     holds |-> {}, calls |-> {}, pure |-> Bodies(p, t, op)]

(* The encoder binds its primitive unless the rendered graph shows it to   *)
(* be the identity; with nothing to bind or to guard it is native JSON.    *)
EncoderCalls(p, t, live) == {CallTo(p, "pjs", u) : u \in {x \in {t} : live}}

Encoder(p, t, armed, live) ==
    [slot  |-> Key(p, "je", t, armed),
     of    |-> Sid(p, t),
     built |-> Options(p),
     kind  |-> IF live \/ Guarded(t, armed) THEN "live" ELSE "noop",
     holds |-> {},
     calls |-> EncoderCalls(p, t, live),
     pure  |-> {"findCycle" : x \in {y \in {t} : Guarded(y, armed)}}]

(***************************************************************************)
(* Entries.  `hard` are same-family calls made without a check, `soft` the *)
(* calls into other families and the built-in functions.                   *)
(***************************************************************************)
Entry(key, text) ==
    [key  |-> key, text |-> text,
     hard |-> {KeyOf(c) : c \in {x \in text.calls : x.fam = key.fam}},
     soft |-> {KeyOf(c) : c \in {x \in text.calls : x.fam # key.fam}}
              \cup {PureKey(n) : n \in text.pure}]

Nothing == [type |-> "none", over |-> {}]

Missing(key) ==
    [key |-> key, hard |-> {}, soft |-> {},
     text |-> [slot |-> key, of |-> Nothing, built |-> "none", kind |-> "missing",
               holds |-> {}, calls |-> {}, pure |-> {}]]

PureEntry(name) ==
    [key |-> PureKey(name), hard |-> {}, soft |-> {},
     text |-> [slot |-> PureKey(name), of |-> Nothing, built |-> "none", kind |-> "pure",
               holds |-> {}, calls |-> {}, pure |-> {}]]

KeysOf(graph) == {e.key : e \in graph}

Rendered(graph) == {e.key : e \in {x \in graph : x.text.kind # "missing"}}

\* The functions the call sites of a program ask for, and the primitives
\* their encoders bind.
Demanded(p) == {Key(p, s.op, s.type, s.armed) : s \in Sites(p)}

RootsOf(p, f) ==
    IF f = "val"
    THEN {Key(p, "val", s.type, s.armed) : s \in {x \in Sites(p) : x.op = "val"}}
    ELSE {Key(p, "pjs", s.type, FALSE) : s \in {x \in Sites(p) : x.op = "je"}}

EncodersOf(p) == {Key(p, "je", s.type, s.armed) : s \in {x \in Sites(p) : x.op = "je"}}

(***************************************************************************)
(* The disk cache: one file per hash and family, for the plain text.  The  *)
(* header names the structural id; every call is recorded with its id.     *)
(* Builds with different options keep their files in different directories.*)
(***************************************************************************)
File(p, key) == [fam |-> key.fam, id |-> key.id, root |-> Options(p)]

\* Altered form: the calls are not checked.
UsableByHeader(p, t, record) == record.readable /\ record.text.of = Sid(p, t)

Usable(p, t, record) ==
    /\ record.readable
    /\ record.text.of = Sid(p, t)
    /\ \A c \in record.text.calls : HasHash(p, c.of, c.id)

\* An encoder refers to nothing but its own type: the header decides.
UsableEncoder(p, t, record) == record.readable /\ record.text.of = Sid(p, t)

(***************************************************************************)
(* Finishing a graph: drop what calls something absent, add the built-in   *)
(* functions, stub what is still missing, leave out what nothing reaches.  *)
(***************************************************************************)
\* The calls a text makes without a check, by key.
Hards(graph) ==
    [k \in KeysOf(graph) |->
        KeysOf(graph) \cap UNION {e.hard : e \in {x \in graph : x.key = k}}]

Dangling(graph) == {e.key : e \in {x \in graph : ~(x.hard \subseteq Rendered(graph))}}

Cascade(graph) == {e \in graph : Closure(Hards(graph), {e.key}) \cap Dangling(graph) = {}}

ServeBuiltins(graph) ==
    graph \cup {PureEntry(n) : n \in {x \in Builtins :
                    \E e \in graph : PureKey(x) \in e.soft}}

AddMissingStubs(graph, demanded) ==
    LET refs == demanded \cup UNION {e.hard \cup e.soft : e \in graph}
    IN  graph \cup {Missing(k) : k \in refs \ KeysOf(graph)}

\* Functions that no demanded function leads to are not served.
Refs(graph) ==
    [k \in KeysOf(graph) |->
        KeysOf(graph) \cap UNION {e.hard \cup e.soft : e \in {x \in graph : x.key = k}}]

Roots(graph, demanded) ==
    (demanded \cap KeysOf(graph)) \cup {e.key : e \in {x \in graph : x.text.kind \in {"pure", "missing"}}}

Reachable(graph, demanded) ==
    {e \in graph : e.key \in Closure(Refs(graph), Roots(graph, demanded))}
=============================================================================
