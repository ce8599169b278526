----------------------------- MODULE BuildCache -----------------------------
(***************************************************************************)
(* Builds that share a disk cache.                                         *)
(*                                                                         *)
(* A build collects the functions its call sites demand, family by family, *)
(* taking the text of a function from the cache when the file there is     *)
(* usable; composes the encoders; follows the calls into other families    *)
(* until nothing is missing; and serves the finished graph.  Several       *)
(* builds of different states of a project may run at once, and any of     *)
(* them may be killed: what is on disk is all that survives.               *)
(***************************************************************************)
EXTENDS FunctionGraph

CONSTANTS
    Builders,    \* processes that build
    MaxBuilds,   \* builds started in all
    MaxFaults,   \* faults in all
    MaxRounds    \* passes of the cross-family loop

ASSUME BoundsAssumption == {MaxBuilds, MaxFaults, MaxRounds} \subseteq Nat /\ MaxRounds # 0

VARIABLES
    disk,     \* the files of the cache
    build,    \* what each builder is doing
    started,  \* how many builds have been started
    faults    \* how many faults have occurred

vars == <<disk, build, started, faults>>

Idle == [phase |-> "idle"]

Phases == {"collect", "compose", "link"}

Busy(b) == build[b].phase \in Phases

TypeOK ==
    /\ \A r \in disk : /\ DOMAIN r = {"file", "text", "codes", "readable"}
                       /\ r.readable \in BOOLEAN
                       /\ \A q \in disk : q.file = r.file => q = r
    /\ \A b \in Builders :
          \/ build[b] = Idle
          \/ /\ build[b].phase \in Phases \cup {"done"}
             /\ build[b].prog \in Programs
             /\ build[b].engine \in {"up", "dead"}
             /\ build[b].asked \subseteq Patterned
             /\ build[b].rounds \in 0..MaxRounds
    /\ started \in 0..MaxBuilds
    /\ faults \in 0..MaxFaults

Init ==
    /\ disk = {}
    /\ build = [b \in Builders |-> Idle]
    /\ started = 0
    /\ faults = 0

(***************************************************************************)
(* A build starts with the functions its call sites demand and the bodies  *)
(* of the overrides, which are functions of the project.                   *)
(***************************************************************************)
Opened(p) ==
    [phase  |-> "collect",
     prog   |-> p,
     todo   |-> UNION {RootsOf(p, f) : f \in Walkers},
     graph  |-> {PureEntry(o.body) : o \in Overrides(p)},
     found  |-> {},
     engine |-> IF HasRuntime(p) THEN "up" ELSE "dead",
     asked  |-> {},
     rounds |-> 0,
     size   |-> 0]

Start(b, p) ==
    /\ ~Busy(b)
    /\ started < MaxBuilds
    /\ started' = started + 1
    /\ build' = [build EXCEPT ![b] = Opened(p)]
    /\ UNCHANGED <<disk, faults>>

(***************************************************************************)
(* One function of the work list, which has a fixed order; the files of    *)
(* its members are distinct.  The type of a key is found by its hash.      *)
(***************************************************************************)
First(todo) == {CHOOSE k \in todo : TRUE}

Jobs(b, phases) ==
    IF build[b].phase \in phases /\ build[b].todo # {} THEN First(build[b].todo) ELSE {}

Requests(b) == Jobs(b, {"collect", "link"})

TypeAt(p, key) == CHOOSE t \in OfHash(p, key.id) : TRUE

Known(p, key) == OfHash(p, key.id) # {}

FilesAt(file) == {r \in disk : r.file = file}

\* Altered form: the calls of an entry are not put on the work list.
AdvanceAlone(work, key, entry, codes) ==
    [work EXCEPT
        !.graph = @ \cup {entry},
        !.todo  = @ \ {key},
        !.found = @ \cup ReportAt(codes, Provenance(work.prog, TypeAt(work.prog, key)))]

\* What the rest of the build learns when a job adds an entry and findings.
Advance(work, key, entry, codes) ==
    [work EXCEPT
        !.graph = @ \cup {entry},
        !.todo  = (@ \cup entry.hard) \ (KeysOf(work.graph) \cup {key}),
        !.found = @ \cup ReportAt(codes, Provenance(work.prog, TypeAt(work.prog, key)))]

Ignorable(work, key) ==
    \/ ~Known(work.prog, key)
    \/ key \in KeysOf(work.graph)
    \/ Pruned(work.prog, key.fam, TypeAt(work.prog, key))

Ignore(b) ==
    /\ \E k \in Requests(b) :
          /\ Ignorable(build[b], k)
          /\ build' = [build EXCEPT ![b].todo = @ \ {k}]
    /\ UNCHANGED <<disk, started, faults>>

\* A request for an overridden operation, its guarded variant aside.
Replaced(work, key) ==
    ~key.armed /\ Overridden(work.prog, key.fam, TypeAt(work.prog, key))

RedirectEntry(work, key, op) ==
    Entry(key, Redirect(work.prog, op, TypeAt(work.prog, key)))

\* An overridden operation is served by the project's own function.
UseOverride(b) ==
    /\ \E k \in Requests(b) :
          /\ ~Ignorable(build[b], k)
          /\ Replaced(build[b], k)
          /\ \E e \in {RedirectEntry(build[b], k, OverrideOp(k.fam))} :
                build' = [build EXCEPT ![b] = Advance(@, k, e, {})]
    /\ UNCHANGED <<disk, started, faults>>

\* A usable file stands for the walk: its text, its calls and its findings.
\* The guarded variant of a function has no file.
Hits(work, key) ==
    {r \in FilesAt(File(work.prog, key)) :
        ~key.armed /\ Usable(work.prog, TypeAt(work.prog, key), r)}

Reuse(b) ==
    /\ \E k \in Requests(b) :
          /\ ~Ignorable(build[b], k)
          /\ ~Replaced(build[b], k)
          /\ \E r \in Hits(build[b], k) :
                build' = [build EXCEPT ![b] = Advance(@, k, Entry(k, r.text), r.codes)]
    /\ UNCHANGED <<disk, started, faults>>

(***************************************************************************)
(* A walk asks the JavaScript engine about every pattern of the text.  An  *)
(* engine that fails once stays dead; what it answered is remembered.  A   *)
(* build whose engine fails is meant to fail closed: the pattern is        *)
(* reported as unverified.                                                 *)
(***************************************************************************)
Verdicts(work, patterns) ==
    {[engine |-> work.engine, asked |-> work.asked \cup patterns, codes |-> {}]
        : x \in {y \in {patterns} : y \subseteq work.asked \/ work.engine = "up"}}
    \cup
    {[engine |-> "dead", asked |-> work.asked, codes |-> {"unverified"}]
        : x \in {y \in {patterns} : ~(y \subseteq work.asked)}}

Faulty == faults < MaxFaults /\ faults' = faults + 1

\* A file is replaced by renaming a new one over it, or not at all.
Write(record) ==
    \/ disk' = (disk \ FilesAt(record.file)) \cup {record} /\ UNCHANGED faults
    \/ UNCHANGED disk /\ Faulty

\* Altered form: the text is kept without the findings.
RecordText(work, key, text, codes) ==
    [file |-> File(work.prog, key), text |-> text, codes |-> {}, readable |-> TRUE]

Record(work, key, text, codes) ==
    [file |-> File(work.prog, key), text |-> text, codes |-> codes, readable |-> TRUE]

Persist(work, key, text, codes) ==
    IF key.armed THEN UNCHANGED <<disk, faults>>
    ELSE Write(Record(work, key, text, codes))

Compile(b) ==
    /\ \E k \in Requests(b) :
          /\ ~Ignorable(build[b], k)
          /\ ~Replaced(build[b], k)
          /\ Hits(build[b], k) = {}
          /\ \E t \in {TypeAt(build[b].prog, k)} :
             \E text \in {Text(build[b].prog, k.fam, t, k.armed)} :
             \E v \in Verdicts(build[b], Tested(build[b].prog, k.fam, t)) :
             \E codes \in {Attributed(build[b].prog, t,
                                      v.codes \cup Codes(build[b].prog, k.fam, t))} :
                /\ build' = [build EXCEPT ![b] =
                      [Advance(@, k, Entry(k, text), codes)
                          EXCEPT !.engine = v.engine, !.asked = v.asked]]
                /\ Persist(build[b], k, text, codes)
    /\ UNCHANGED started

(***************************************************************************)
(* The encoders, once every family has been collected.                     *)
(***************************************************************************)
Compose(b) ==
    /\ build[b].phase = "collect"
    /\ build[b].todo = {}
    /\ build' = [build EXCEPT ![b].phase = "compose",
                              ![b].todo  = EncodersOf(build[b].prog)]
    /\ UNCHANGED <<disk, started, faults>>

Encoders(b) == Jobs(b, {"compose"})

EncoderReplaced(work, key) ==
    ~key.armed /\ Bodies(work.prog, TypeAt(work.prog, key), "je") # {}

\* A primitive shown to be the identity is not bound; an absent one is.
PrimitiveIsLive(work, key) ==
    ~\E e \in work.graph : /\ e.key = Key(work.prog, "pjs", TypeAt(work.prog, key), FALSE)
                           /\ e.text.kind = "noop"

\* Altered form: an encoder stays on the work list.
AddKeeping(work, key, entry) == [work EXCEPT !.graph = @ \cup {entry}]

Add(work, key, entry) ==
    [work EXCEPT !.graph = @ \cup {entry}, !.todo = @ \ {key}]

OverrideEncoder(b) ==
    /\ \E k \in Encoders(b) :
          /\ EncoderReplaced(build[b], k)
          /\ build' = [build EXCEPT ![b] = Add(@, k, RedirectEntry(@, k, "je"))]
    /\ UNCHANGED <<disk, started, faults>>

\* An encoder that is native JSON, or that carries a guard, is not cached.
Cacheable(work, key) ==
    PrimitiveIsLive(work, key) /\ ~Guarded(TypeAt(work.prog, key), key.armed)

EncoderHits(work, key) ==
    {r \in FilesAt(File(work.prog, key)) :
        Cacheable(work, key) /\ UsableEncoder(work.prog, TypeAt(work.prog, key), r)}

ReuseEncoder(b) ==
    /\ \E k \in Encoders(b) :
          /\ ~EncoderReplaced(build[b], k)
          /\ \E r \in EncoderHits(build[b], k) :
                build' = [build EXCEPT ![b] = Add(@, k, Entry(k, r.text))]
    /\ UNCHANGED <<disk, started, faults>>

BuildEncoder(b) ==
    /\ \E k \in Encoders(b) :
          /\ ~EncoderReplaced(build[b], k)
          /\ EncoderHits(build[b], k) = {}
          /\ \E text \in {Encoder(build[b].prog, TypeAt(build[b].prog, k), k.armed,
                                  PrimitiveIsLive(build[b], k))} :
                /\ build' = [build EXCEPT ![b] = Add(@, k, Entry(k, text))]
                /\ IF Cacheable(build[b], k)
                   THEN Write(Record(build[b], k, text, {}))
                   ELSE UNCHANGED <<disk, faults>>
    /\ UNCHANGED started

Link(b) ==
    /\ build[b].phase = "compose"
    /\ build[b].todo = {}
    /\ build' = [build EXCEPT ![b].phase = "link"]
    /\ UNCHANGED <<disk, started, faults>>

(***************************************************************************)
(* Calls into other families are rendered pass by pass, until a pass finds *)
(* nothing missing or brings nothing.                                      *)
(***************************************************************************)
Wanted(graph) ==
    {k \in UNION {e.soft : e \in graph} : k.fam \in Walkers} \ KeysOf(graph)

Follows(work) ==
    /\ Wanted(work.graph) # {}
    /\ work.rounds < MaxRounds
    /\ work.rounds = 0 \/ Cardinality(work.graph) > work.size

Follow(b) ==
    /\ build[b].phase = "link"
    /\ build[b].todo = {}
    /\ Follows(build[b])
    /\ build' = [build EXCEPT ![b].todo   = Wanted(build[b].graph),
                              ![b].rounds = IF @ < MaxRounds THEN @ + 1 ELSE @,
                              ![b].size   = Cardinality(build[b].graph)]
    /\ UNCHANGED <<disk, started, faults>>

\* Encoders whose primitive is absent fail the build, at their call sites.
Unbound(graph) ==
    {e \in graph : e.key.fam = "je" /\ \E k \in e.soft : k.fam = "pjs" /\ k \notin KeysOf(graph)}

Breaches(p, graph) ==
    UNION {ReportAt({"unbound"}, Provenance(p, TypeAt(p, e.key))) : e \in Unbound(graph)}

Finish(b) ==
    /\ build[b].phase = "link"
    /\ build[b].todo = {}
    /\ ~Follows(build[b])
    /\ \E demanded \in {Demanded(build[b].prog)} :
       \E kept \in {Cascade(build[b].graph)} :
       \E served \in {ServeBuiltins(kept)} :
       \E whole \in {AddMissingStubs(served, demanded)} :
          build' = [build EXCEPT
              ![b].phase = "done",
              ![b].graph = Reachable(whole, demanded),
              ![b].found = @ \cup Breaches(build[b].prog, build[b].graph)]
    /\ UNCHANGED <<disk, started, faults>>

(***************************************************************************)
(* Faults: a build is killed; a file is damaged, or written by a release   *)
(* with another format.                                                    *)
(***************************************************************************)
Crash(b) ==
    /\ Busy(b)
    /\ Faulty
    /\ build' = [build EXCEPT ![b] = Idle]
    /\ UNCHANGED <<disk, started>>

Spoil(r) ==
    /\ r.readable
    /\ Faulty
    /\ disk' = (disk \ {r}) \cup {[r EXCEPT !.readable = FALSE]}
    /\ UNCHANGED <<build, started>>

Work(b) ==
    \/ Ignore(b) \/ UseOverride(b) \/ Reuse(b) \/ Compile(b)
    \/ Compose(b) \/ OverrideEncoder(b) \/ ReuseEncoder(b) \/ BuildEncoder(b)
    \/ Link(b) \/ Follow(b) \/ Finish(b)

Next ==
    \/ \E b \in Builders : (\E p \in Programs : Start(b, p)) \/ Work(b) \/ Crash(b)
    \/ \E r \in disk : Spoil(r)

\* Some build always gets on; which one is left to the operating system.
Spec == Init /\ [][Next]_vars /\ WF_vars(\E b \in Builders : Work(b))

(***************************************************************************)
(* Properties.                                                             *)
(***************************************************************************)
Functions(b) == {e \in build[b].graph : e.text.kind \notin {"missing", "pure"}}

Builds == {b \in Builders : build[b] # Idle}

Done == {b \in Builders : build[b].phase = "done"}

(* The projects for which a finished build lacks nothing: the encoder of a *)
(* type from which another encoder is generated is not overridden, and the *)
(* table has every function that a text calls.                             *)
EncodersStandAlone ==
    \A p \in Programs : \A s \in Sites(p) :
       s.op = "je" /\ (s.armed \/ ~Pruned(p, "pjs", s.type))
          => \A t \in Reach(s.type) : ~Pruned(p, "pjs", t)

BuiltinsAreServed == {u[3] : u \in Used} \cup {"findCycle"} \subseteq Builtins

(* The projects in which some call site is told of every type.  Where none *)
(* is, a file holds the text without its findings, and a build in which a  *)
(* nearer call site would be told of them takes it.                        *)
TypesAreTold == \A p \in Programs : \A t \in Interned(p) : Provenance(p, t) # {}

(* Whatever a build takes from the cache is about its own project: a text  *)
(* was generated for the structure its key now stands for, with the same   *)
(* options, and every hash baked into it still stands for the structure    *)
(* the text was compiled against (tryReadCachedEntry).                     *)
TextsAreCurrent ==
    \A b \in Builds : \A e \in Functions(b) :
       LET p == build[b].prog IN
       /\ e.text.of = Sid(p, TypeAt(p, e.key))
       /\ e.text.built = Options(p)
       /\ \A c \in e.text.calls : HasHash(p, c.of, c.id)

(* A finished build serves every function a call site demands and every    *)
(* function a served one calls: nothing is left to a stub at run time      *)
(* (CollectFamilyEntries, resolveCrossFamilyEdges, Cascade).               *)
EveryCallIsBound ==
    \A b \in Done :
       Demanded(build[b].prog) \cup UNION {e.hard \cup e.soft : e \in build[b].graph}
           \subseteq Rendered(build[b].graph)

(* A type whose validation the project overrides is validated by the       *)
(* project's function wherever it occurs: no text served for another type  *)
(* expands it, cached or not (overrides are folded into structural ids).   *)
OverridesAreServed ==
    \A b \in Builds : \A e \in Functions(b) :
       LET p == build[b].prog IN
       \A u \in e.text.holds :
          Overridden(p, e.key.fam, u) => u = TypeAt(p, e.key) /\ e.key.armed

\* What a walk from a type meets, wherever the calls are placed.
Met(p, f, t) ==
    Closure([u \in Types |-> {c \in Kept(f, u) : ~Overridden(p, f, c)}], {t})

Due(p, f, t) ==
    IF \E u \in Met(p, f, t) : <<f, u>> \in Refused THEN {"refused"}
    ELSE {w[3] : w \in {x \in Warned : x[1] = f /\ x[2] \in Met(p, f, t)}}
         \cup {"omitted" : u \in {x \in Met(p, f, t) : Stripped(f, x) # {}}}

Walks(p, s) ==
    {f \in Walkers : IF s.op = "val" THEN f = "val" /\ (s.armed \/ ~Overridden(p, f, s.type))
                     ELSE f = "pjs" /\ ~Pruned(p, f, s.type)}

(* Every call site is told everything there is to say about the types it   *)
(* pulls in, in a warm build as in a cold one, however the functions are   *)
(* divided (replayCachedDiagnostics, inheritProvenanceToDescendants), if   *)
(* the depth of the search does not keep types from it.                    *)
FindingsReachTheirSites ==
    \A b \in Done : \A s \in Sites(build[b].prog) :
       Told[s.type] = Reach(s.type) =>
          \A f \in Walks(build[b].prog, s) :
             ReportAt(Due(build[b].prog, f, s.type), {s.at}) \subseteq build[b].found

About(p, s) ==
    {w[3] : w \in {x \in Warned : x[2] \in Reach(s.type)}}
    \cup {"omitted" : t \in {x \in Reach(s.type) : \E f \in Walkers : Stripped(f, x) # {}}}
    \cup {"refused" : t \in {x \in Reach(s.type) : \E f \in Walkers : <<f, x>> \in Refused}}

(* No build reports what no longer holds: a finding at a call site is      *)
(* about a type that call site pulls in now.                               *)
NoStaleFindings ==
    \A b \in Done : \A d \in build[b].found :
       d.code = "unverified"
       \/ \E s \in Sites(build[b].prog) : s.at = d.at /\ d.code \in About(build[b].prog, s)

(* What a build reports at a call site is what holds there, nothing else   *)
(* and, where the search tells the site of all its types, all of it,       *)
(* whatever the build took from the cache.                                 *)
FindingsAreExact == FindingsReachTheirSites /\ NoStaleFindings

(* A build that is not killed ends, whatever the types refer to.           *)
BuildsFinish == []<>(\A b \in Builders : ~Busy(b))

=============================================================================
