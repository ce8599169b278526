# RunTypes: TLA+ models of the compiler daemon and its hosts

RunTypes turns TypeScript types into JavaScript functions at build time.  A Go
process, `ts-runtypes serve`, holds the TypeScript program of a project, finds
the call sites that ask for a function of a type ("give me the validator of
`Signup`"), interns the types they name, and writes one small module per
function and type into a generated tree.  JavaScript hosts drive it over one
JSON line per message: the bundler plugin, the Next.js broker, an ESLint
session, a Bun adapter.  They inject imports of the generated modules into the
project's files and must keep those rewrites true while a developer edits.

Two kinds of things can go wrong.  One is the talk between the parts: messages
without ids on a pipe whose other end may die, requests of many hooks
interleaving at one session, caches that outlive the program, or the process,
they were filled from, processes electing who owns the session, a file watcher
racing a bundler.  The other is agreement between parts written separately: the
encoders, decoders, validators and size estimates of one type are emitted by
different walks of it, each with its own short cuts, and the id of a type is
computed by a walk that must come out the same wherever it starts.  These
models are about both.

## 1. Inventory

Paths are relative to the repository; `devtools/` stands for
`packages/ts-runtypes-devtools/src/`, `go/` for `ts-go-runtypes/internal/`.

### 1.1 Modelled

| Component | Source | State | Operations |
|---|---|---|---|
| Resolver client | `devtools/resolver-client.ts` | the child and its transport (FIFO of waiting calls, open/closing/closed), respawn budget, intentional close | `send`, respawn and retry, `close` with drain, line and exit events, drain timer |
| Serve loop | `ts-go-runtypes/cmd/ts-runtypes/main.go` | none beyond the session | read a request, dispatch it, write its response |
| Resolver session | `go/compiler/resolver/{resolver,dispatch,scan,scope}.go` | program, interned types, declaration files, scanned files, generated tree | `setSources`, `scanFiles`, `transform`, `generate`, `reset` |
| Type interning | `go/cachegen/runtype/{serialize,declfiles}.go` | structural ids and nodes (survive a program), pointers and declaration files (do not) | `assignID`, `recordDeclFiles`, `Rebind`, `DeclFilesForFiles` |
| Generation | `go/compiler/resolver/generate.go`, `dispatch.go` | the modules on disk | write what is demanded, remove the rest |
| Build plugin | `devtools/unplugin.ts` | resolver, `siteFiles` gate, `sourceOverlay`, `typeDeps`, active builds | `buildStart`, `transform`, `handleHotUpdate`/`rtHotUpdate`, `buildEnd` |
| Type dependency index | `devtools/type-deps.ts` | page to files | `record`, `affectedSiteFiles`, `unknownSiteFiles` |
| Broker election | `devtools/next/broker.ts` | the socket's name, each contender's place | `startBroker` (bind, probe, unlink, retry), `close`, exit handler |
| Function emitters | `go/cachegen/typefunctions/*.go` | none: the meaning of the emitted code at a value | validate, validation errors, the JSON and binary encoders and decoders, unknown keys, exact clone, size estimate, no-op checks |
| Function graph | `go/cachegen/typefunctions/{module,collect,crossfamily,depclosure}.go`, `go/compiler/resolver/dispatch.go` | the graph of one build | demand, collection per family, cross-family closure, overrides, diagnostics |
| Disk cache | `go/cachegen/diskcache` | one file per function, shared by builds | read, screen, write by rename, crash in between |
| JavaScript engine sidecar | `go/jsengine` | alive or gone, as a build sees it | a sample test that answers, or cannot |
| Next.js broker | `devtools/next/{broker,loader}.ts` | `ready`, `dirtyFiles`, `hotUpdate` chain, request chain, stamp | `buildStart`, watch, flush, absorb, handle a call, refresh the stamp |
| Type identity | `go/cachegen/runtype/typeid/*.go` | per checker: ids by pointer, the stack of a walk | the id of a type, canonical names of cycles, override keys, intersections and tuple merges |
| Type table | `go/cachegen/runtype/{serialize,intersection_collapse,union_safeorder}.go`, `go/compiler/resolver/{scan,overrides}.go` | nodes by id (survive a program), ids by pointer, circular flags, sites, findings | scan a site, serialize a type, swap the program, install its overrides |
| Enrichment | `go/enrichment/**`, `go/compiler/resolver/enrich.go` | the mirror files, and what authors wrote in them | skeletons of a root's closure, merge, rename, comment out, restore, import sync, check |

How they interact.  A host's hook calls the plugin; the plugin awaits requests
of the resolver client; the client writes them to the child's stdin and hands
the k-th line back to the k-th waiting call; the child executes them one at a
time on its session.  Every `await` lets other hooks run, so a hot update
(push, scan, generate) and a transform (up to five requests) interleave request
by request.  The broker is a host inside Next: it runs the plugin's hooks itself,
serialises the loaders' calls in one chain of promises and the watched edits in
another, and makes calls wait for the batches scheduled before them.  The
generated tree and the stamp file are shared state read by a bundler that
neither the plugin nor the broker controls.

What makes each of them correct:

* client: a call gets its own response or an error, at most once; one child at a
  time; close lets responses in flight arrive and releases even a hung child;
* session: a reply describes the program loaded now, whatever was interned
  under earlier ones; above all the files a page depends on, because a missed
  one is a validator of a type that no longer exists;
* plugin: after any interleaving, what the bundler keeps is what is on disk,
  and its imports resolve; no hook waits for ever; no transform fails because of
  what another did;
* election: exactly one broker per path, and the path is answered again after a
  crash;
* broker: no edit is lost between watcher, timer and batches; every call is
  answered; a change of types reaches every page that uses them;
* build cache: a text that is reused says what a walk of the present project
  would say, of the types, overrides, options and hashes of this build;
* type table: two spellings of a type get one entry, two types never do, and
  the entry describes whichever of its types was met first;
* enrichment: what an author wrote is kept, in a comment at worst, and a mirror
  brought in line stays as it is and passes the check.

### 1.2 Not modelled yet, and planned

| Component | Source | What makes it worth modelling |
|---|---|---|
| Plugin lifecycle | `devtools/unplugin.ts` (buildStart/buildEnd) | containers that start and stop on their own count builds; the overlay outlives a build; deleted files stay in it |
| Loader connections | `devtools/next/{loader,wire}.ts` | one shared connection, ids, a connection that ends without an error |
| Lint session | `devtools/eslint/*` | a synchronous rule blocks on a worker: sequence numbers, timeouts, late answers, sticky death, two attempts |
| Scan batcher | `devtools/scan-batcher.ts` | one request for the scans of one microtask; one failure for all |
| Bun adapter | `devtools/bun.ts` | a readiness gate with retries |
| Edit buffer | `devtools/edit-buffer.ts`, `go/compiler/sourcerewrite` | two implementations of one edit application |
| Parallel scan | `go/compiler/resolver/scan_parallel.go` | workers with checkers of their own, an ordered merge |
| JavaScript engine sidecar's process | `go/jsengine`, `packages/ts-runtypes-go-be-sidecar` | restart of a lost or wedged child |
| Module tree | `go/compiler/resolver/generate.go` | files are written and pruned one at a time while a bundler reads |
| Runtime registry | `packages/ts-runtypes/src/runtypes` | registration order, circular entries |

### 1.3 Left out

Marker recognition, convert and schemadoc, runtime formats and mocking are
functions of a type or a text with no state and no second walk they must agree
with.  Plugin entry points, protocol types, generated constants, catalogues
and the launcher have no behaviour of their own.  Command line, scripts,
containers and website are tooling.  `PROJECT.json` lists each with its reason.

### 1.4 Hazards

`PROJECT.json` lists them at their lines, with the properties that watch them.
In short: order is the only correlation on the wire; a retry races the end of
its child; an update is three requests and a page's transform may fall between
any two; interned types outlive programs; dependencies are recorded before,
during or after the update that asks for them; a name is probed and unlinked in
separate steps; the debounce timer races the bundler; the stamp is throttled and
moves only when the listing does; a cached text is used in a build with other
overrides, patterns, names or built-in functions than the one that wrote it;
encoders and decoders meet no value the other has not been tried on; a cycle of
types is entered at another of its members; a part of a type is projected while
its own id is being computed; a command that renames, merges and comments out
stops between two files.

## 2. Modules

    RequestService          what a caller of send() may rely on (abstract)
      ^ implemented by
    ResolverClient          client and serve child       -> ResolverClientProofs
    ResolverProgram         operators: program, interning, dependencies, tree
      |                                                  -> ResolverProgramProofs
      +-- ResolverSession   any requests in any order    -> ResolverSessionProofs
      +-- DevPlugin         hooks of a dev server over a session
      |                                  -> DevPluginProofs -> DevPluginFreshProofs
      +-- NextBroker        broker, loaders and watcher over a session
                                                         -> NextBrokerProofs
    NextElection            who becomes the broker       -> NextElectionProofs

    RunTypes                reflected types and values
      ^ Validation ^ JsonCodec ^ UnknownKeys ^ JsonWire ^ BinaryCodec ^ BinarySize
      ^ TypeFunctions       a value and what the functions of its type do to it
    FunctionGraph           what a build must generate, and when a cached text will do
      ^ BuildCache          builds sharing a disk cache  -> BuildCacheProofs
    TypeShapes              what both sides of the type table read of a type
      ^ TypeIds             the structural id
      ^ TypeTable           the table: nodes, sites, overrides, findings
    EnrichClosure           the constants and skeletons a root calls for
      ^ EnrichMerge         merging an object literal, reconciling a file
      ^ EnrichMirror        mirrors over time: types, authors and commands

`ResolverProgram` is what a session computes, written once and given state by
the three machines that use a session in different ways.  The client below them
is abstracted to "requests are executed in the order sent, each is answered
once", which is what `ResolverClient` shows of it; DevPlugin has the respawn too.
An operator named like an action with a suffix (`ServeNewest`, `ReadBatchClearing`)
is that action with a fault in it: each property is known to be able to fail
because TLC finds it violated once the fault replaces the original.  The faulty
forms are in no next-state relation.

### 2.1 ResolverClient, RequestService

A *generation* is one spawn: child, two pipes, transport.  The state is the
host's (`cur`, `respawnsLeft`, `intentionalClose`, `trans`, `queue`: the fields
of `ResolverClient` and `MessageTransport`), the child's (`proc`, `killed`,
`inPipe`, `outPipe`) and, per call of `send`, where it is (`phase`, `attempt`,
`wake`, `reply`).  Actions are the owner's calls (`Send`, `Close`), the
continuations of `send` after its await (`Finish`, `RespawnAndRetry`,
`ReuseAndRetry`), events (`ReadLine`, `ChildGone`, `DrainTimeout`) and the child
(`Serve`, `Hang`, `Crash`, `CrashMidWrite`, `Terminate`).  `Quiescent` is the
event loop's rule that continuations run before the next event.  A request is its
own name; payloads and parsing are left out, except that a line may be cut off.

`RequestService` has three variables (the status and answer of each call, and
whether a fault has happened) and says that a call settles at most once, with its
own response, or with an error if something was lost or closed.  `ServiceSpec`
is the refinement.

### 2.2 ResolverProgram, ResolverSession

A page is a file with call sites: its text is a set of `<<fn, decl>>`.  A
declaration file declares one type: its text is a shape, and `Refs` names the
files whose types are its members.  An interned type (`Node`) is a shape with its
members' shapes, so equal types of different files are one type, as with the
structural id; its hash is taken to be injective.  `Loaded` is `setSources`
(what was pushed, and what it imports from disk), `Swap` is `SetProgram` (interned
types stay, notes about files go), `Scanned` is the scan with the structural hit
that does not project members again, `Notes` is `recordDeclFiles`, `Deps` is
`DeclFilesForFiles`, `Generated` writes what is demanded and prunes the rest.

`ResolverSession` lets a host send those requests in any order while files change
on disk, and asks what a transform reports.

### 2.3 DevPlugin

The plugin of a dev server after `buildStart`, in both transform modes.  Each
hook is a little program counter; between two of its requests every other hook
may run, and replies resume awaits in the order of the requests.  `Request`,
`Skip`, `Miss`, `AskModules`, `Resync`, `Resynced`, `Return` are the stages of
`transform`, `transformViaGo` and `transformViaEdits`; `Read`, `Push`, `Scan`,
`Regenerate`, `Settle` those of `handleHotUpdate` and `applyHotUpdate`; `Stale` is
`staleSiteFiles`.  The dev server is external and behaves as Vite does: it
invalidates the edited page before and after the hook together with what the
hook returns, keeps no result of a transform during which the page was
invalidated, and resolves imports when it is given the rewrite.

### 2.4 NextElection

Contenders call `startBroker` on one path: bind and listen (two system calls),
or find the name taken, probe, join or unlink and start over.  Owners may close,
exit or be killed; a stale name may be there from before.

### 2.5 NextBroker

The owner's life after that, in go mode, with its loaders.  `dirty`, `batches`
and `work` are `dirtyFiles`, the `hotUpdate` chain and the batch being absorbed
(`ReadBatch`, `PushBatch`, `ScanBatch`, `RegenerateBatch`, `SettleBatch`); `chain`
and `serving` the request chain (`Take`, `Transform`, `Generate`, `Answer`,
`Fail`).  A call waits for as many batches as were scheduled when it looked
(`serving.wait`), and later ones run beside it.  `Stamped` is `refreshStamp`: forced
after a batch, at most every 100 ms otherwise, which is a choice of skipping it.
Turbopack is external and modelled in the code's favour: it re-runs the loader of
any page it has no valid result for, and drops a result when a file the loader
declared changes, also while the call was in flight.

### 2.6 The type functions

`RunTypes` has the reflected types (kinds, fields, slots, index signatures,
references to declarations) and the JavaScript values.  Each module after it is
a family of emitters, as the meaning of the code the emitter builds: `Validate`
and `Errors`; `Prepare`, `Safe`, `Direct` (the mutate, clone and direct JSON
encoders), `Compact` and its reader, `Restore`; `HasUnknown`, `UnknownErrors`,
`ToUndefined`, `Clone`; `Write` and `Read` of binary; `Estimate` beside the bytes
written.  Each family decides on its own where a node needs no code
(`isNoop...`), and those decisions are modelled too, because a wrong one drops
work that was needed.  `TypeFunctions` sends a value of a type through any codecs,
hop by hop; the properties say what the families must agree on.

Left out: string and number formats, template literals, Temporal, class
serializers, symbol and template keyed index signatures, wording.  The values
sent are those the type's own validator takes, with no undeclared key on an
object whose fields are all optional, no null for an optional `any`, and no key
that another member of the same union declares with another type: TypeScript's
own excess-key rules do not promise more, and the source handles none of these.

### 2.7 FunctionGraph, BuildCache

`FunctionGraph` says what a build generates: the functions that are demanded by
call sites, the functions their texts call (`Follow`, family by family until
nothing is missing), which are inlined, which refuse (and are left out of an
object or a union, or make the whole function a stub), what is warned on the
way, and what a project's overrides replace.  `BuildCache` lets processes that
build different states of one project share a cache: `Start`, one action per way
to serve a request (`Ignore`, `UseOverride`, `Reuse`, `Compile`), the encoders
(`Compose`, `OverrideEncoder`, `ReuseEncoder`, `BuildEncoder`), `Link` and
`Follow` into other families, `Finish`, `Crash` and `Spoil`.  A file is usable if
it can be read, names the same structural id, and the hash of every call in its
text still stands for the structure the call was compiled against: `Usable`.
Three families stand for all: one public and open to overrides, one primitive,
one composed of a primitive.

A finding goes to the call sites whose search met its type (`Provenance`), and the
search has a depth: `Told` is what the one from a type meets, a constant because it
depends on the order of slots, of which the modules know no more than `IsSearch`
(whoever is met was met from a level above, whoever is entered has all its slots
met, levels end at `DepthCap` + 1).  A level is a slot, and an object's property is
one.  A walk none of whose findings has a site keeps none (`Attributed`), and its
file has none.

Left out: facts and estimates kept beside a text, the inline-all mode, option
variants; warnings met before a walk refuses; families are collected one after
the other (in the code they may be collected in parallel, with sinks of their
own and disjoint keys).

### 2.8 TypeShapes, TypeIds, TypeTable

A type is a pointer into `Env`, the shapes a checker answers with; a spiral is a
type whose parts are new at every query.  `TypeIds` computes the id as a tree that
two types share exactly when the code spells them with the same string: the walk
with its stack of frames, the guard against depth and operations, the canonical
name of a cycle (its block, an order of its members, and back edges by
position), override suffixes folded from a cold walk.  `TypeTable` is the other
walk: `Projection` of every kind of type into its node, laid into the table part
by part (`Serialize`, `AssignID`, `Introduce`, `Lay`, `Finish`), with the orders and
discriminators of unions.  Actions: `Site` (one call site by one of the checkers,
the overrides collected first if need be), `SetProgram`, `ResetCache`.  `SitesAreDescribed` compares what a site's entry says, followed
through the table, with what the type says by the language's own reading of it.

Left out: names, alias arguments, heritage, statics, defaults and sample values
of nodes.  The instances: every program has an override (a computer without any
takes the shorter warm walk), overridden recursive types come before the types
that contain them, formats do not clash, and no table holds two of the spellings
that section 3.1 lists as sharing an id.  A discriminator is one of those the code
could pick.

### 2.9 EnrichClosure, EnrichMerge, EnrichMirror

`EnrichClosure` is what a command wants: for a root, a constant per named type it
reaches, its skeleton per family, the ids in its marker.  `EnrichMerge` is the
reconcile of one file: match by constant, rename when one name went and one
came, rename fields, merge bodies, comment out what is no longer declared, bring
back what is declared again, imports.  `EnrichMirror` runs it: `Save` moves the
types to another version, `Author` fills in, `Repair` puts right a file that does
not parse, `Prune` drops what was commented out; `Update` and `Create` are the
command line, which writes the files of a closure in turn and may stop between
two, `Sync` is the daemon, which computes them all before it writes.

Left out: mirrors of both families in one file as an output (they are migrated
from), wrapper migration, uses written by hand, `@todo` lines, translations,
placeholders, a source file that is missing, formatters run over a mirror.  The
instances have no field named `min`, `max` or `pool`, no inline type with the id
of a named one, and no constraint beyond those of the skeletons.

## 3. What is checked

State counts are of distinct states with the bounds of the configuration.

| Run | Bounds | States | Shows |
|---|---|---|---|
| `client` | 2 calls, 2 respawns | 28 k | own responses (`OwnAnswer`), one child at a time (`SupersededAreReaped`), drain before kill, the refinement `ServiceSpec`, every call settles unless a dispatch hangs, close releases |
| `election` | 3 contenders, 2 may leave, 2 may be killed | 5 k | a takeover never removes a broker that was serving when the contender first looked; `startBroker` returns; the path ends answered if nobody leaves |
| `election_one_owner` | 2 contenders, nobody leaves | violation | two owners: see 3.1 |
| `session` | 1 page, 3 declaration files, one nested in another, 2 shapes | 576 k | the reported dependencies are of this program; none of a page's own types is missed |
| `dev_go` | 2 pages (one behind a wrapper), 1 type, 2 edits | 445 k | no stale page, whole tree, no page pushed out of the program (`PagesAreInProgram`), all pages fresh in the end |
| `dev_returns` | the same in edits mode, slow reads, 1 edit, 1 respawn | 43 k | every hook returns (`HooksReturn`); every await is owed exactly one reply (`AwaitsAreOwed`) |
| `type_functions` | 48 types, about 900 values, 2 hops | 55 k | what arrives is valid and is what was sent, whatever codecs it went through (`Delivered`); the validator and the error reporter, and the unknown-key families, agree (`TwinsAgree`); a no-op would have changed nothing; the estimate covers what is written but for what merged objects are known to take more (`EstimateCovers`); encoders write the declared shape |
| `build_cache` | 2 builds of any of 4 states of a project, one fault | 78 k | texts taken from the cache are about this project; calls are bound; overrides hold everywhere; findings reach every site whose search is not cut by its depth and none is stale (`FindingsAreExact`); builds finish |
| `next_broker` | 2 pages (one behind a wrapper), 1 type with a member type, 2 edits | 381 k | no edit lost; whenever nothing is under way the tree is the project's, the stamp is of its listing and kept rewrites resolve (`QuietIsWhole`); kept rewrites are of the present types, but for what their requests could not know (`TypesReachPages`); calls return; the broker ends with what is on disk |
| `type_table` | 3 programs, two of them in turn, 2 checkers | 1.6 k | every site's entry describes its type; equal types share an entry whatever order they are met in; cycles, spirals and hidden overrides are reported and nothing else is (`ReportsAreExact`) |
| `mirror` | 2 source files, 4 versions, 2 saves, 2 commands, 1 filling | 19 k | nothing an author wrote is lost; a second update changes nothing; a mirror just updated passes the check; mock data have the shape of their type |
| `mirror_standing` | 2 roots of one file, 2 commands | violation | a command renames a constant whose type still stands: see 3.1 |

`TypesReachPages` exempts what a request could not have known and nothing else:
a rewrite records in `missed` the files that were edited and not yet flushed when
its call was taken, and a page is exempt while it names a member type whose file
was not among the dependencies reported.

Why the bounds are enough to be of interest: two calls and two respawns are the
least with which one call replaces a child, another reuses it, and both lose it
again; the invariant that carries the client's safety is proved for any number.
In the election a third contender is needed for a takeover to hit somebody who is
neither the prober nor the dead.  Three declaration files give a nested type and a
second file with its member's shape.  Two pages and two edits give a page
invalidated for another's sake, an edit during an edit's absorption, and a page
that gains or loses its last call.  A build of `next_broker` starts with one page
of two using the type, so that the type is generated already when the other
page gains its call; the type's member is declared in a file of its own because a
change there is what dependencies miss.  A value sent twice through different
codecs is the least with which a decoder reads what another encoder's decoder left.  Two builds and one
fault are the least with which a build reads a cache that another, of another
state of the project, left half done; the four states differ in an override, a
type's name, the order of interning and the patterns that pass.  The search has a
depth of one, so that one of their sites (a page of lists of results) is not told of
the order at its bottom, of which a site of another type always is.  The programs of
`type_table` write one type in several ways, enter its cycle at each member, and
come in either order; two checkers are enough for one to find what the other
interned.  The versions of `mirror` rename a constant, rename, retype, drop and
bring back fields; one edit leads back to the first version, which puts a constant
back from its comment under the id it had, and another brings it back under a new
one (such items are `aged`, and exempt from the properties but `NothingIsLost`).

Liveness assumes weak fairness of what the event loops do on their own:
events that are due are delivered, continuations run, timers fire, file reads
end, a child that is not hung serves, an open page is fetched.  Nothing forces an
edit, a close, a crash, a hang or a call of the owner.  A builder that is
running goes on.  Deadlock checking is off
because each system may really stop: edits end and everything is idle.

### 3.1 Where the code does not do what it says

Two runs end in a violation, each of a sentence the repository says of itself.

* `election_one_owner`: "exactly one wins the election and the rest no-op"
  (`devtools/next/broker.ts:110`).  A contender that finds the name taken probes it;
  if the other has bound and not yet listened, the probe is refused, the name is
  unlinked and bound again, and both own the path.  The one displaced keeps its
  resolver and its watcher on the same generated tree.
* `mirror_standing`: a constant outside the closure of a command "is left
  untouched" (`docs/AI_ENRICHMENT.md:831-835`).  `computeConstRenames`
  (`reconcile.go:333`) takes any constant the closure does not want for one whose
  type is gone, and may rename it.

What follows was met while modelling and has no run of its own.  The properties
that hold are stated so as to hold beside it, or the instances avoid it; in each
case the place is given.

Hosts.

* In edits mode the re-sync of `transform` pushes one file (`unplugin.ts:584`), which
  drops every other from the program until the next push, although "a build is
  never broken by this optimization" (`unplugin.ts:566`) and `unplugin.ts:769-774`
  explains why a push must have them all: a transform of another page executed before
  that push throws.  `PagesAreInProgram` and the quiet properties are of go mode; in
  edits mode only `HooksReturn` and `AwaitsAreOwed` are checked.
* A transform generates only if its own request interned new types
  (`unplugin.ts:537-540`, "so the modules its injected imports point at exist on
  disk").  If another request interned them that has not generated yet, the rewrite
  imports modules that do not exist until that hook goes on; the quiet properties
  begin after it.
* The last line of a child that was killed may be cut off; the call is then settled
  with the parse error of `resolver-client.ts:203` and not retried, although "an
  UNEXPECTED child death [...] is retryable" (`:709`).
* "Absorbs a whole edit as ONE batch, ahead of Turbopack re-running any loader"
  (`next/broker.ts:254-255`): a loader that runs within the debounce is answered
  from the program before the edit.  `TypesReachPages` exempts it by `missed`.
* "Any type change re-runs every marker-bearing file" (`next/broker.ts:206-210`,
  and `next/loader.ts:90-94`): the stamp is the listing, and a change of types that
  leaves the listing as it was (two types that swap their shapes) does not move it.
  Pages are then saved by their declared dependencies only.
* Those miss the files of member types: after a swap the scan hits the entry of an
  outer type, notes its own files and returns without meeting its members
  (`serialize.go:582`), against "a cache hit a no-op instead of a gap"
  (`declfiles.go:21`) and `typedeps_test.go:138`.  `OwnDepsCover` and `DepsAreCurrent`
  are what holds.

Functions and the cache.

* The direct JSON encoder writes an element of a rest if its text is truthy, and a
  number is pushed bare, so a zero of a `...number[]` is left out
  (`json_stringify.go:755`, against `test/suites/serialization/Functions.ts:534`:
  it "round-trips as a plain number array").
* The size estimate of a union of objects is meant "to OVER-estimate soundly"
  (`binary_size_estimate.go:516-522`), and is too small twice.  The writer puts a
  sub-discriminator before every merged field with several candidates
  (`union_flat_binary.go:210-242`), which the slack of one byte and a bitmap does not
  count: `{a,b,c,d: number} | {a,b,c,d: Date}` is estimated 36 and written 37.  And a
  value may be of several members, whose fields are all written, where the estimate
  is of the largest: of `{a: number} | {b: number}`, `{a, b}` is estimated 12 and
  written 18.  The buffer then grows, nothing is lost.  `EstimateCovers` allows these
  two (`Unbudgeted`) and no more; both types are among those checked.
* The primitive of a type whose encoder is overridden is pruned for every caller
  (`module.go:223`, "internal-only, demanded solely by composite sites"): a parent
  that calls it is dropped by the cascade after the check of `dispatch.go:175`, and
  its own encoder binds a stub.  `EveryCallIsBound` is checked, and proved, of
  projects that override the encoder of no member of another demanded type
  (`EncodersStandAlone`).
* The loop over calls between families is bounded by eight passes, and what is left
  then would go to stubs (`dispatch.go:336`).  It never is: a pass asks for
  validations only, what one brings calls only functions of its own family and
  those are collected with it, so the first pass leaves nothing and any bound but
  zero would do (`OnePassIsEnough`, for the families that are modelled).
* With the mutating encoder (`pj`, not modelled) a member whose text is the identity
  is composed around without a walk (`walker.go:734`, `noop_types.go:209`), so that
  a dropped symbol property of such a member is not reported at the call site; a clone (`pjs`) is
  never the identity for an object, and `FindingsAreExact` holds.
* A call site is told of every type it reaches, says `render.go:117-137`, and the
  depth of the search "only backstops a pathological un-interned inline subtree"
  (`render.go:111-114`).  `inheritFrom` (`:179`) counts interned slots as well and
  enters nothing below the 32nd level, about sixteen objects in one another; and a
  type first met that deep is not entered either when a shorter way to it is met
  later.  A site is then not told of what it would be told of if it named the inner
  type.
* If no site of a program is told of a type, its findings are dropped
  (`walker.go:407`) and its text is written without them.  A later build, in which a
  nearer site would be told, takes the file and reports nothing
  (`module.go:787`).  `FindingsAreExact` is checked, and proved, of projects in which
  each type is told to some site (`TypesAreTold`), and is about all of a site's types
  only where the site's search is not cut; that nothing else is reported holds
  without either (`NothingStale`).
* The finding that a pattern could not be verified is stored with the text and
  replayed in a build that has an engine (`docs/ARCHITECTURE.md:183` has it for
  builds without); `NoStaleFindings` exempts that code.  An encoder with a guard
  over a type without cycles shares the plain one's file.

Identity and the table.

* `sortUnreachableTypes` compares groups with their pivot only: of `{a,b}`, `{a}`,
  `{a,c}` the second precedes the third, against `union_safeorder.go:10-12`.
* The literals `"1"` and `1`, an optional parameter and one that may be
  `undefined`, an index signature and its readonly form share an id
  (`typeid.go:1-5`, `docs/ARCHITECTURE.md:46` say otherwise): the first to be met
  decides the entry.  A spread parameter's positions restart at 0 in the node, which
  `serialize.go:1434-1439` says is identical to the written form.
* The fold of overrides asks one computer for all keys (`overrides.go:143`), so a
  later key contains ids that an earlier one cached, where
  `typeid/overrides.go:77-80` and `serialize.go:643` want cold walks: it does no harm
  in the order of the instances (2.8).  Overrides
  taken out of a project stay folded in after a swap; one on `T | null` does not
  reach the union made for an optional child.
* A second site of a type that overflows the walk gets the placeholder without a
  report (`scan.go:388-390`).  The safe order of a union (which `SitesAreDescribed`
  does not compare), the origin of a conflict
  between samples and the names within overlapping cycles depend on where a walk
  entered.

Enrichment.

* The generator writes a last property without a comma and the comment that
  replaces a constraint assumes one (`merge.go:571-580`, "so the inserted block
  stays valid"): the mirror no longer parses.  `Repair` is the developer's answer.
* A restored constant keeps an old body under a new marker, and a second update
  changes the file again (`UpdateSettles` exempts aged items).  A rename together
  with the extraction of an inline type takes two passes.
* Reconcile finds constants by name and not "by THIS id, not the positional var
  name" (`docs/AI_ENRICHMENT.md:764`).  A commented-out field is not restored.
  References from other files are not renamed.  The daemon, asked for a whole
  program, computes two contents for one mirror and the last is kept.
* Mock data: pools of a root that is not an object stay stale, tuple slots that
  were added are not, a field named like a constraint is never merged.

## 4. What is proved

For every value of the constants, by TLAPS.

* **ResolverClientProofs.**  `IInv`: the queue of a transport is, in order, the
  lines on their way back followed by the requests on their way out, or the
  transport has given up on all of them (`MatchInv`).  That alone is not
  inductive: it needs that a queued call waits on that generation only and once
  (`QueueInv`), that a transport is closed only after a close or a reaped child
  (`ClosedInv`), that a call learns of a loss only from a reaped child
  (`WakeInv`), that later generations are untouched (`FreshInv`) and that the
  budget pays for each (`BudgetInv`).  From it: `OwnAnswer`,
  `SupersededAreReaped`, and the action property `DrainBeforeKill`.
  `ClientServes` is the refinement, `Spec => ServiceSpec`.  Beyond `IInv` it needs
  `ServeInv`: a call that was answered holds an answer of its own, and a half line or
  an error is met only after a fault.  The fault is a history of the client
  (`FaultyLasts`: once seen it stays seen), so each step either leaves every call's
  view alone (`UnseenStep`), or settles one call as the service may (`SeenStep`).
  Assumption: the budget is a natural number.
* **NextElectionProofs.**  `IInv`: a name is of somebody who is about to serve,
  serves or was killed; whoever was seen serving is past the election for good;
  hence a contender about to unlink does not hit who it saw.  `NoNameIsLeftBehind`
  (an orderly end removes the name) is proved and not a property of a run.
* **ResolverProgramProofs** holds the lemmas about the session's operators: each
  yields a session, keeps the program it must not change, keeps it closed under
  imports and its notes current; what `Generated` leaves and what a scan tells is
  stated here once, for the three machines.
* **ResolverSessionProofs.**  From those: programs have what they import, the
  reported dependencies are current, none of a page's own types is missed, and,
  if no type has members of other files, none at all (`DependenciesAreComplete`).
* **DevPluginProofs**, both modes.  `AwaitsOwed`: the requests sent and the replies
  queued are of hooks that wait for them, say what that hook asked for, and are one
  per hook (`Owed`), and a reply's body is of the kind its hook will read
  (`BodiesFit`, without which a resumed hook could leave the types).
  `GoNeverBreaks`, for go mode: every push has all files and so has the program
  (`Whole`), and a transform asks at most once (`AsksOnce`), hence none is told that
  its file is missing.
* **DevPluginFreshProofs**, go mode with updates that read their file as they push
  it (`Behaves == Mode = "go" /\ ~SlowReads`).  `WholeInv` says where a text may be on
  its way: the program, each push in the queue and the overlay have the text on
  disk, or an update of that file has still to read it or has a push further back;
  the tree is the program's demand, or a generate is to come.  Hence
  `QuietTreeIsWhole`.  `FreshInv` says the same of what the session has told:
  a reply in the queue, the one a transform holds, the gate, a scan and the page
  that is served are of the present texts, or an update of a file they rest on is
  still to scan or to invalidate the page, and the order of the queues (`Ahead`,
  `After`) puts it where it will not be too late.  Hence `QuietPagesAreFresh`, for
  types without members of other files (`FlatRefs`): with members the notes of the
  dependencies may miss one, which is the divergence above and not a matter of
  interleaving.  `SlowReads` is a real behaviour for which freshness fails (section
  5), so the hypothesis stays.
* **NextBrokerProofs.**  `NoEditIsLost`, with the strengthening that the program
  is whole, is the overlay once that was seeded, and that a text that was read is
  the file's present one or the file is yet to be read by a later batch.
  On top of it, `Kept`: one request is out at a time (`OneRequest`); the
  stamp is the listing or will be (`ListingIsStamped`); the imports of whatever
  Turbopack keeps resolve, or a stage of the batch under way will see to it
  (`KeptIsCovered`); what the gate, a call in the chain, a call that waits and a kept
  rewrite say is current, but for the files in `missed` and those whose change will
  drop it (`GateIsCurrent`, `ChainIsCurrent`, `WaitIsCurrent`, `KeptIsCurrent`).
  From it `QuietIsWhole` and `TypesReachPages`.
* **BuildCacheProofs.**  `IInv` has two sides.  A file says what the build that wrote
  it knew (`RecordIsSound`): its options are those of its directory, and what it
  expands were parts of the type it was compiled from, none of them overridden in
  that build's project.  A build holds only entries about its own project
  (`IsSound`).  A hit joins them: the type of a key is the one of its hash among the
  interned ones (`HashTells`), equal structural ids are of one type with the same
  parts and the same overrides below it (`SidTells`), hence what was not overridden
  for the writer is not for the reader (`UsableIsSound`).  From it `TextsAreCurrent`
  and `OverridesAreServed`, for any finite set of types and any projects.  Below
  them are the closures the model is built from: a set grown by its successors as
  often as there are types is closed, and is in every closed set that contains the
  start (`ClosureIsClosed`, `ClosureIsLeast`).  A theorem of induction
  over an operator is out of reach here; the argument takes the least number of a
  set instead (`LeastNumber`, from the well-foundedness of `<`).

  What a finished build serves and reports needs a second invariant, `Wholeness`.  A
  file has the text that a walk of some project made, with the findings of that
  walk and at most `unverified` besides (`RecordIsWhole`).  Of a build under way
  (`UnderWay`): an entry was made by a walk of some project for a type of the same
  structural id, by an encoder or from the project's own code (`EntriesAreWhole`);
  its calls are ones a walk of *this* project may ask for; what it calls in its
  family is there or on the work list (`CallsAreAsked`), as are the roots
  (`RootsAreAsked`), the encoders once composing begins, and the calls into
  validations once a pass was made (`SoftsAreAsked`); what was found is told to every
  site whose search met the type (`Owed`: nothing, where there may be none), and what
  is told holds (`FindingsHold`).  When the
  work list of the last phase is empty no call dangles, so the cascade drops
  nothing and no stub is added (`NothingIsStubbed`): `CallsAreBound`.  For the
  findings take a site, a family and the types some entry of the family *holds*,
  that is, has a text for made by a walk that went through them.  That set has the
  site's type and is closed under what a walk meets: a part met inside a walk is
  held by the same entry, and a part that is called, or composed around, has an
  entry of its own unless nothing is to be found below it.  Hence it contains
  `Met`, the closure, and each finding of `Due` was told when the entry that holds
  its type was made or replayed (`AllIsTold`): `FindingsExact`.  The converse is
  that a walk goes only through what its type reaches, and a search too
  (`ToldIsReached`): `NothingStale`, whether or not a search was cut.

  `OnePassIsEnough` is about steps: what a second pass would have to bring is a
  validation called from another family, and after the first those are there.

  `FindingsExact` supposes that each type is told to some site (`TypesAreTold`).
  That is so, and no search is cut, wherever no site reaches more types than a search
  has levels (`ShallowSitesAreTold`): a type at the last level would have one above it
  at every other.

  These theorems suppose `EncodersStandAlone` and `BuiltinsAreServed`: no encoder is
  overridden of a type from which another encoder is generated (3.1 has what
  happens otherwise), and the table of built-in functions has all a text calls.
  TLC evaluates these, and `TypesAreTold`, for the projects of `build_cache` (`ProjectsStandAlone`).

The assumptions are on constants only and each is one the code meets: sets of
pages and declaration files are disjoint and do not contain the model values
that stand for an absent file, an unknown dependency or an unwritten stamp;
texts mention declared files; bounds are natural numbers; in `DevPlugin` an edit's
number is no page, because hooks are told apart by them; in `FunctionGraph` a program
has finitely many types, each with a rank of its own, finitely many overrides and
built-in functions, no type that JSON has natively is refused by its encoder, and what
a search meets is what one of some depth may meet (`SearchAssumption`); in
`BuildCache` the loop over calls between families may make a pass.  TLC evaluates
them in every run.

Type invariants are theorems (`TypeCorrect` of each machine) and not properties of
runs, as are the parts of the inductive invariants, which were tried with TLC
before they were proved.

Only model-checked: liveness under fairness, which TLAPS does not reach here;
`TypeFunctions`, `TypeTable` and `EnrichMirror`, whose operators recur over types and
so are `RECURSIVE`, which takes the SMT prover away from a module and needs
induction over the types.  Every other safety invariant
that a run checks is a theorem.

## 5. Limits of the models

* DevPlugin's freshness is checked with each update reading its file and taking
  its place in the queue in one step (`SlowReads = FALSE`); when the read of an
  older edit overtakes that of a newer one the overlay may keep the older text.
  `dev_returns` has the slow reads (`unplugin.ts:1032`).  Files are not deleted.
* NextBroker's edits begin once the broker watches (`next/broker.ts:195`), its batches
  do not fail (one that does is dropped, `next/broker.ts:286`) and files are not
  deleted.
* A generate is one step: the window in which half the tree is written is left
  for the module tree.
* The election is the one of file-system sockets; Windows pipes have no name to
  unlink.
* Binary sizes of a tuple's rest behind an optional slot that is left out
  (`binary_to.go:830`) and the JSON of a bare rest (`json_stringify.go:755`) are
  outside the values sent.
* Diagnostics and the index of pure functions, which a reset or an edit may leave
  stale (`resolver.go:563`, `dispatch.go:1188`), are not modelled.

## 6. Plan

In this order, each with its own runs and, where an invariant carries the
argument, its proof:

1. proofs: the broker's `NoEditIsLost` under failing batches, freshness of pages with member types under
   a hypothesis on the dependencies;
2. plugin lifecycle over DevPlugin (counting of builds, overlay across builds,
   deletions, failing batches), with the broker's start and close;
3. lint session and loader connections: late answers, timeouts, sticky death;
4. scan batcher, Bun gate, the sidecar's process: small machines, each with an
   abstract specification to implement;
5. module tree: non-atomic generation under a reading bundler;
6. pure algorithms: edit buffer against a reference definition, parallel scan's
   ordered merge, line reader, registry of circular entries.

## 7. Running

    tlc -config NextBroker.cfg MCNextBroker.tla
    tlapm NextBrokerProofs.tla
