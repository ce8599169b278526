------------------------------ MODULE DevPlugin ------------------------------
(***************************************************************************)
(* The build plugin in a dev server: transform, handleHotUpdate and their  *)
(* leaves transformViaGo, transformViaEdits, applyHotUpdate and            *)
(* staleSiteFiles of packages/ts-runtypes-devtools/src/unplugin.ts, over   *)
(* one resolver session (ResolverProgram) reached through a FIFO of        *)
(* requests and one of replies.                                            *)
(*                                                                         *)
(* Hooks are asynchronous: each await lets other hooks run, so any number  *)
(* of transforms and hot updates interleave between their requests.  The   *)
(* dev server is external and modelled as Vite behaves: it invalidates an  *)
(* edited page before the hook and again after it, together with the pages *)
(* the hook returns; it requests invalid pages; it keeps no result of a    *)
(* transform during which the page was invalidated; and it refuses one     *)
(* whose imports do not resolve.                                           *)
(*                                                                         *)
(* It starts after buildStart: the session has the program on disk and has *)
(* generated its modules.                                                  *)
(***************************************************************************)
EXTENDS ResolverProgram, Sequences

CONSTANTS Mode,         \* transformMode: "go" or "edits"
          Wrapped,      \* pages that reach the marker through a wrapper only
          SlowReads,    \* the source an update carries is read ahead of it
          MaxEdits,     \* bound: edits of the files on disk
          MaxRespawns,  \* bound: losses of the resolver child
          Unknown       \* no dependencies were ever recorded for the page

ASSUME PluginAssumption ==
  /\ Mode \in {"go", "edits"}
  /\ Wrapped \subseteq Pages
  /\ SlowReads \in BOOLEAN
  /\ MaxEdits \in Nat
  /\ MaxRespawns \in Nat
  /\ \A ds \in SUBSET Decls : Unknown # ds
  /\ \A n \in 1..MaxEdits : n \notin Pages  \* hooks of pages and of edits are told apart

Updates == 1..MaxEdits

VARIABLES disk,         \* the text of each file
          session,      \* the session in the serve child
          requests,     \* sent and not executed
          replies,      \* executed, their awaits not resumed
          transform,    \* the transform hook's call for each page
          update,       \* the hot update of each edit
          overlay,      \* sourceOverlay, empty until seeded
          siteFiles,    \* the gate: pages known to have call sites
          typeDeps,     \* the index of type dependencies
          served,       \* the server: the rewrite each page was served with
          valid,        \* the server: pages whose result it keeps
          edits, respawns,
          failed,       \* history: pages whose transform threw
          unresolved    \* history: pages served imports that were not on disk

server == <<served, valid, failed, unresolved>>
plugin == <<overlay, siteFiles, typeDeps>>
counters == <<edits, respawns>>
vars == <<disk, session, requests, replies, transform, update, plugin, server, counters>>

Idle == [pc |-> "idle"]
None == [pc |-> "none"]

SitesOf(view) == {p \in Pages : view[p] # {}}
NoSources == [f \in {} |-> Absent]

Init ==
  /\ disk \in Sources
  /\ session = Generated(Fresh(disk, {}))
  /\ requests = <<>> /\ replies = <<>>
  /\ transform = [p \in Pages |-> Idle]
  /\ update = [u \in Updates |-> None]
  /\ overlay = NoSources
  /\ siteFiles = SitesOf(disk)
  /\ typeDeps = [p \in Pages |-> Unknown]
  /\ served = [p \in Pages |-> {}]
  /\ valid = {}
  /\ edits = 0 /\ respawns = 0
  /\ failed = {} /\ unresolved = {}

-----------------------------------------------------------------------------
\* The session executes the oldest request and its reply queues up.
TransformReply(s, p) ==
  LET after == Scanned(s, {p})
  IN  [missing |-> FALSE,
       keys |-> Keys(s.program, p),
       deps |-> Deps(after, p),
       text |-> s.program[p],
       added |-> after.interned # s.interned]

Missing == [missing |-> TRUE]

ExecuteTransform(r) ==
  /\ r.op \in {"transform", "scanFiles"}
  /\ session.program[r.file] # Absent
  /\ session' = IF r.file \in Pages THEN Scanned(session, {r.file}) ELSE session
  /\ replies' = Append(replies,
       [who |-> r.who,
        body |-> IF r.op = "transform" THEN TransformReply(session, r.file)
                 ELSE [missing |-> FALSE,
                       sites |-> r.file \in Pages /\ session.program[r.file] # {}]])

ExecuteMissingSilently(r) ==
  /\ r.op \in {"transform", "scanFiles"}
  /\ session.program[r.file] = Absent
  /\ UNCHANGED <<session, replies>>

ExecuteMissing(r) ==
  /\ r.op \in {"transform", "scanFiles"}
  /\ session.program[r.file] = Absent
  /\ replies' = Append(replies, [who |-> r.who, body |-> Missing])
  /\ UNCHANGED session

ExecuteSetSources(r) ==
  /\ r.op = "setSources"
  /\ session' = Swap(session, Loaded(r.sources, disk))
  /\ replies' = Append(replies, [who |-> r.who])

ExecuteGenerate(r) ==
  /\ r.op = "generate"
  /\ session' = Generated(session)
  /\ replies' = Append(replies, [who |-> r.who])

Execute ==
  /\ requests # <<>>
  /\ requests' = Tail(requests)
  /\ \/ ExecuteTransform(Head(requests))
     \/ ExecuteMissing(Head(requests))
     \/ ExecuteSetSources(Head(requests))
     \/ ExecuteGenerate(Head(requests))
  /\ UNCHANGED <<disk, transform, update, plugin, server, counters>>

\* The child is lost and the client spawns another, which starts from the
\* files on disk; the requests still owed are sent again.
Respawn ==
  /\ respawns < MaxRespawns
  /\ respawns' = respawns + 1
  /\ session' = Fresh(disk, session.tree)
  /\ UNCHANGED <<disk, requests, replies, transform, update, plugin, server, edits>>

-----------------------------------------------------------------------------
\* Answered(w): the oldest reply resumes the await of w; Ask(r) sends another
\* request from there.
Answered(w) ==
  /\ replies # <<>>
  /\ Head(replies).who = w
  /\ replies' = Tail(replies)

Body == Head(replies).body

Ask(r) == requests' = Append(requests, r)

At(p, pc) == transform[p].pc = pc
MoveTo(p, pc, stage) ==
  transform' = [transform EXCEPT ![p].pc = pc, ![p].stage = stage]

\* The transform hook: the gate lets a page through that the last scan found
\* sites in, or whose text names the marker package.
PassesGate(p, text) == p \in siteFiles \/ (text # {} /\ p \notin Wrapped)

Request(p) ==
  /\ p \notin valid
  /\ At(p, "idle")
  /\ PassesGate(p, disk[p])
  /\ transform' = [transform EXCEPT ![p] =
       [pc |-> "transform",
        stage |-> IF Mode = "go" THEN "go" ELSE "first",
        code |-> disk[p],
        gated |-> p \in siteFiles,
        reply |-> Missing,
        spoiled |-> FALSE]]
  /\ Ask([op |-> "transform", who |-> p, file |-> p])
  /\ UNCHANGED <<disk, session, replies, update, plugin, server, counters>>

\* The server keeps a result unless the page was invalidated meanwhile, and
\* resolves the imports of a rewrite first.
Keep(p, keys) ==
  /\ transform' = [transform EXCEPT ![p] = Idle]
  /\ IF keys \subseteq session.tree
     THEN /\ served' = [served EXCEPT ![p] = keys]
          /\ valid' = IF transform[p].spoiled THEN valid ELSE valid \union {p}
          /\ UNCHANGED unresolved
     ELSE /\ unresolved' = unresolved \union {p}
          /\ UNCHANGED <<served, valid>>
  /\ UNCHANGED failed

Skip(p) ==
  /\ p \notin valid
  /\ At(p, "idle")
  /\ ~PassesGate(p, disk[p])
  /\ served' = [served EXCEPT ![p] = {}]
  /\ valid' = valid \union {p}
  /\ UNCHANGED <<disk, session, requests, replies, transform, update, plugin, counters,
                 failed, unresolved>>

\* "source file not in program": in edits mode a retry after a re-sync falls
\* back to go; a page the gate knew fails, another is served as it is.
Miss(p) ==
  /\ At(p, "transform")
  /\ Answered(p)
  /\ Body.missing
  /\ IF transform[p].stage = "second"
     THEN /\ MoveTo(p, "transform", "go")
          /\ Ask([op |-> "transform", who |-> p, file |-> p])
          /\ UNCHANGED server
     ELSE /\ UNCHANGED requests
          /\ IF transform[p].gated
             THEN /\ failed' = failed \union {p}
                  /\ transform' = [transform EXCEPT ![p] = Idle]
                  /\ UNCHANGED <<served, valid, unresolved>>
             ELSE Keep(p, {})
  /\ UNCHANGED <<disk, session, update, plugin, counters>>

\* New types: their modules are generated before the rewrite is returned.
AskModules(p) ==
  /\ At(p, "transform")
  /\ Answered(p)
  /\ ~Body.missing /\ Body.added
  /\ transform' = [transform EXCEPT ![p].pc = "generate", ![p].reply = Body]
  /\ Ask([op |-> "generate", who |-> p])
  /\ UNCHANGED <<disk, session, update, plugin, server, counters>>

\* The reply a transform goes on with, once its modules are generated.
InHand(p) == IF At(p, "generate") THEN transform[p].reply ELSE Body

Ready(p) ==
  /\ At(p, "transform") \/ At(p, "generate")
  /\ Answered(p)
  /\ At(p, "transform") => ~Body.missing /\ ~Body.added

\* The text the session rewrote is not the one the server handed in.
Drifted(p) ==
  /\ transform[p].stage # "go"
  /\ InHand(p).keys # {}
  /\ InHand(p).text # transform[p].code

ResyncUnawaited(p) ==
  /\ Ready(p)
  /\ Drifted(p)
  /\ MoveTo(p, "transform", "second")
  /\ requests' = requests \o <<
       [op |-> "setSources", who |-> p, sources |-> [f \in {p} |-> transform[p].code]],
       [op |-> "transform", who |-> p, file |-> p]>>
  /\ UNCHANGED <<disk, session, update, plugin, server, counters>>

Resync(p) ==
  /\ Ready(p)
  /\ Drifted(p)
  /\ IF transform[p].stage = "first"
     THEN /\ MoveTo(p, "setSources", "first")
          /\ Ask([op |-> "setSources", who |-> p, sources |-> [f \in {p} |-> transform[p].code]])
     ELSE /\ MoveTo(p, "transform", "go")
          /\ Ask([op |-> "transform", who |-> p, file |-> p])
  /\ UNCHANGED <<disk, session, update, plugin, server, counters>>

Resynced(p) ==
  /\ At(p, "setSources")
  /\ Answered(p)
  /\ MoveTo(p, "transform", "second")
  /\ Ask([op |-> "transform", who |-> p, file |-> p])
  /\ UNCHANGED <<disk, session, update, plugin, server, counters>>

\* declareTypeDeps, for a page that has sites, and the rewrite is returned.
Return(p) ==
  /\ Ready(p)
  /\ ~Drifted(p)
  /\ typeDeps' = IF InHand(p).keys = {} THEN typeDeps
                 ELSE [typeDeps EXCEPT ![p] = InHand(p).deps]
  /\ Keep(p, InHand(p).keys)
  /\ UNCHANGED <<disk, session, requests, update, overlay, siteFiles, counters>>

-----------------------------------------------------------------------------
\* A file is edited.  The server invalidates the page at once and calls the
\* hook, which reads the file before anything else.
Invalidated(ps) ==
  /\ valid' = valid \ ps
  /\ transform' = [p \in Pages |->
       IF p \in ps /\ ~At(p, "idle") THEN [transform[p] EXCEPT !.spoiled = TRUE]
       ELSE transform[p]]

Edit(f) ==
  /\ edits < MaxEdits
  /\ edits' = edits + 1
  /\ \E text \in TextsOf(f) \ {disk[f]} : disk' = [disk EXCEPT ![f] = text]
  /\ update' = [update EXCEPT ![edits + 1] = [pc |-> "read", file |-> f, text |-> Absent]]
  /\ Invalidated({f})
  /\ UNCHANGED <<session, requests, replies, plugin, respawns, served, failed, unresolved>>

\* ctx.read() has the text before the await that hands it over resumes.
Read(u) ==
  /\ SlowReads
  /\ update[u].pc = "read"
  /\ update[u].text = Absent
  /\ update' = [update EXCEPT ![u].text = disk[update[u].file]]
  /\ UNCHANGED <<disk, session, requests, replies, transform, plugin, server, counters>>

\* applyHotUpdate: seed the overlay from disk the first time, put the text in
\* it and push the whole of it.
PushOne(u) ==
  /\ update[u].pc = "read"
  /\ SlowReads => update[u].text # Absent
  /\ LET f == update[u].file
         text == IF SlowReads THEN update[u].text ELSE disk[f]
     IN  /\ overlay' = [g \in {f} |-> text]
         /\ Ask([op |-> "setSources", who |-> u, sources |-> overlay'])
  /\ update' = [update EXCEPT ![u].pc = "setSources"]
  /\ UNCHANGED <<disk, session, replies, transform, siteFiles, typeDeps, server, counters>>

Push(u) ==
  /\ update[u].pc = "read"
  /\ SlowReads => update[u].text # Absent
  /\ LET f == update[u].file
         text == IF SlowReads THEN update[u].text ELSE disk[f]
         seeded == IF overlay = NoSources THEN disk ELSE overlay
     IN  /\ overlay' = [seeded EXCEPT ![f] = text]
         /\ Ask([op |-> "setSources", who |-> u, sources |-> overlay'])
  /\ update' = [update EXCEPT ![u].pc = "setSources"]
  /\ UNCHANGED <<disk, session, replies, transform, siteFiles, typeDeps, server, counters>>

Scan(u) ==
  /\ update[u].pc = "setSources"
  /\ Answered(u)
  /\ update' = [update EXCEPT ![u].pc = "scanFiles"]
  /\ Ask([op |-> "scanFiles", who |-> u, file |-> update[u].file])
  /\ UNCHANGED <<disk, session, transform, plugin, server, counters>>

\* The edited file's own membership of the gate, then the modules.
RegenerateKeepingGate(u) ==
  /\ update[u].pc = "scanFiles"
  /\ Answered(u)
  /\ ~Body.missing
  /\ update' = [update EXCEPT ![u].pc = "generate"]
  /\ Ask([op |-> "generate", who |-> u])
  /\ UNCHANGED <<disk, session, transform, plugin, server, counters>>

Regenerate(u) ==
  /\ update[u].pc = "scanFiles"
  /\ Answered(u)
  /\ ~Body.missing
  /\ siteFiles' = IF Body.sites THEN siteFiles \union {update[u].file}
                  ELSE siteFiles \ {update[u].file}
  /\ update' = [update EXCEPT ![u].pc = "generate"]
  /\ Ask([op |-> "generate", who |-> u])
  /\ UNCHANGED <<disk, session, transform, overlay, typeDeps, server, counters>>

\* staleSiteFiles: the pages that depend on the file, and those about which
\* nothing is known although they were transformed.
StaleIfUnknown(f) == {p \in Pages \ {f} : typeDeps[p] = {}}

Stale(f) ==
  {p \in Pages \ {f} : typeDeps[p] # Unknown /\ (f \in typeDeps[p] \/ typeDeps[p] = {})}

\* The hook returns, after generating or after a scan that failed, and the
\* server invalidates what it reports and the edited page.
Settle(u) ==
  /\ update[u].pc \in {"scanFiles", "generate"}
  /\ Answered(u)
  /\ update[u].pc = "scanFiles" => Body.missing
  /\ update' = [update EXCEPT ![u] = None]
  /\ Invalidated({update[u].file} \union
       (IF update[u].pc = "generate" THEN Stale(update[u].file) ELSE {}))
  /\ UNCHANGED <<disk, session, requests, plugin, counters, served, failed, unresolved>>

-----------------------------------------------------------------------------
TransformStep(p) ==
  Miss(p) \/ AskModules(p) \/ Resync(p) \/ Resynced(p) \/ Return(p)

UpdateStep(u) == Push(u) \/ Scan(u) \/ Regenerate(u) \/ Settle(u)

Fetch(p) == Request(p) \/ Skip(p)

System ==
  \/ Execute
  \/ \E p \in Pages : Fetch(p) \/ TransformStep(p)
  \/ \E u \in Updates : Read(u) \/ UpdateStep(u)

Next == System \/ Respawn \/ \E f \in Files : Edit(f)

Safety == Init /\ [][Next]_vars

\* The serve loop executes what it reads, awaits resume, file reads end, and an
\* open page asks for what it shows.
Fairness ==
  /\ WF_vars(Execute)
  /\ \A p \in Pages : WF_vars(Fetch(p)) /\ WF_vars(TransformStep(p))
  /\ \A u \in Updates : WF_vars(Read(u)) /\ WF_vars(UpdateStep(u))

Spec == Safety /\ Fairness

-----------------------------------------------------------------------------
TypeOK ==
  /\ disk \in Sources
  /\ session \in Sessions
  /\ \A p \in Pages : transform[p].pc \in {"idle", "transform", "generate", "setSources"}
  /\ \A u \in Updates : update[u].pc \in {"none", "read", "setSources", "scanFiles", "generate"}
  /\ \A f \in DOMAIN overlay : f \in Files /\ overlay[f] \in TextsOf(f)
  /\ siteFiles \subseteq Pages
  /\ typeDeps \in [Pages -> (SUBSET Decls) \union {Unknown}]
  /\ valid \subseteq Pages
  /\ \A p \in Pages : served[p] \subseteq Fns \X Nodes

\* Every await is owed exactly one reply, on its way there or back: no hook
\* waits for ever and no reply resumes another's await.
AwaitsAreOwed ==
  LET waiting == {p \in Pages : ~At(p, "idle")}
                   \union {u \in Updates : update[u].pc \notin {"none", "read"}}
      pending == requests \o replies
  IN  /\ Len(pending) = Cardinality(waiting)
      /\ waiting = {pending[i].who : i \in DOMAIN pending}

Quiet ==
  /\ requests = <<>> /\ replies = <<>>
  /\ \A p \in Pages : At(p, "idle")
  /\ \A u \in Updates : update[u].pc = "none"

\* No silently stale validator: once everything has run, each page the server
\* keeps was rewritten from what is on disk now, and its imports resolve.
QuietIsFresh ==
  Quiet => \A p \in valid :
    /\ served[p] = Keys(disk, p)
    /\ served[p] \subseteq session.tree

\* Once everything has run, the modules are those of the whole project.
QuietIsWhole == Quiet => session.tree = Demand(disk)

\* What the push of the whole overlay is for (unplugin.ts:769-774): in go mode
\* no hot update takes a page out of the program, so that no transform, however
\* late its request is executed, throws for want of its own file.  In edits
\* mode the re-sync pushes one file, and this does not hold.
PagesAreInProgram == Mode = "go" => failed = {}

\* Every call of a hook returns, whatever the others push meanwhile.
HooksReturn ==
  /\ \A p \in Pages : ~At(p, "idle") ~> At(p, "idle")
  /\ \A u \in Updates : update[u].pc # "none" ~> update[u].pc = "none"

\* Edits end, and then every page is served from what is on disk.
EventuallyFresh ==
  <>[](\A p \in Pages : p \in valid /\ served[p] = Keys(disk, p))
=============================================================================
