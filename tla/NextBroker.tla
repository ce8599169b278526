----------------------------- MODULE NextBroker -----------------------------
(***************************************************************************)
(* The elected broker of a Next.js build (startBroker after the election,  *)
(* packages/ts-runtypes-devtools/src/next/broker.ts) with the loaders that *)
(* call it and the project's files.  It starts the plugin, answers loader  *)
(* calls one at a time through one chain of promises, watches the sources  *)
(* and absorbs edits in batches through another, and keeps the stamp file  *)
(* by which every rewrite depends on the listing of generated modules.     *)
(*                                                                         *)
(* The plugin runs in go mode.  At most one call and one batch have a      *)
(* request at the resolver, which executes in the order of sending: an     *)
(* action here takes a reply, sends the next request and has it executed.  *)
(*                                                                         *)
(* Turbopack is external, and modelled in the code's favour: it runs the   *)
(* loader of a page it has no valid result for, and drops a result when a  *)
(* file the loader declared has changed since the call began.              *)
(***************************************************************************)
EXTENDS ResolverProgram, Sequences

CONSTANTS Wrapped,   \* pages that reach the marker through a wrapper only
          Start,     \* the sources a build may start from
          MaxEdits,  \* bound: edits of the files on disk
          Stamp,     \* the stamp file
          Unwritten  \* there is no stamp file yet

ASSUME BrokerAssumption ==
  /\ Wrapped \subseteq Pages
  /\ Start \subseteq Sources
  /\ MaxEdits \in Nat
  /\ Stamp \notin Files

VARIABLES disk,       \* the text of each source file
          session,    \* the session in the broker's resolver
          phase,      \* buildStart: "starting", "ready" or "failed"
          overlay,    \* sourceOverlay, empty until seeded
          siteFiles,  \* the gate: pages known to have call sites
          stamp,      \* the stamp file: the listing it is a digest of
          dirty,      \* dirtyFiles: watched and not scheduled
          batches,    \* the hotUpdate chain, its head being absorbed
          work,       \* the absorption of the head
          chain,      \* requests of loaders, not taken
          serving,    \* the request being handled
          loader,     \* the loader's call for each page
          result,     \* Turbopack: the rewrite of each page it keeps
          valid,      \* Turbopack: pages whose result it keeps
          edits

absorbing == <<overlay, siteFiles, batches, work>>
answering == <<chain, serving>>
turbopack == <<loader, result, valid>>
vars == <<disk, session, phase, absorbing, stamp, dirty, answering, turbopack, edits>>

NoSources == [f \in {} |-> Absent]
NoReply == [keys |-> {}, deps |-> {}, added |-> FALSE]
Idle == [pc |-> "idle"]
NoResult == [keys |-> {}, deps |-> {}, missed |-> {}]

SitesOf(program) == {p \in PagesOf(program) : program[p] # {}}

Init ==
  /\ disk \in Start
  /\ session = Fresh(disk, {})
  /\ phase = "starting"
  /\ overlay = NoSources
  /\ siteFiles = {}
  /\ stamp = Unwritten
  /\ dirty = {} /\ batches = <<>> /\ work = Idle
  /\ chain = <<>> /\ serving = Idle
  /\ loader = [p \in Pages |-> Idle]
  /\ result = [p \in Pages |-> NoResult]
  /\ valid = {}
  /\ edits = 0

-----------------------------------------------------------------------------
\* Turbopack notices that files have changed: results that declared one go,
\* calls in flight remember it.
Noticed(calls, files) ==
  /\ valid' = {p \in valid : result[p].deps \cap files = {}}
  /\ loader' = [p \in Pages |->
       IF calls[p] = Idle THEN Idle ELSE [calls[p] EXCEPT !.changed = @ \union files]]
  /\ result' = [p \in Pages |-> IF p \in valid' THEN result[p] ELSE NoResult]

\* refreshStamp: write the digest of the listing if it is another one.
Stamped(calls) ==
  /\ stamp # session.tree
  /\ stamp' = session.tree
  /\ Noticed(calls, {Stamp})

Unstamped(calls) ==
  /\ loader' = calls
  /\ UNCHANGED <<stamp, result, valid>>

-----------------------------------------------------------------------------
\* buildStart generates, the first stamp is written and watching begins.
Started ==
  /\ phase = "starting"
  /\ phase' = "ready"
  /\ session' = Generated(session)
  /\ siteFiles' = SitesOf(session.program)
  /\ stamp' = session'.tree
  /\ Noticed(loader, {Stamp})
  /\ UNCHANGED <<disk, overlay, dirty, batches, work, answering, edits>>

StartFailed ==
  /\ phase = "starting"
  /\ phase' = "failed"
  /\ UNCHANGED <<disk, session, absorbing, stamp, dirty, answering, turbopack, edits>>

\* A source is edited.  Edits are taken to begin once the broker watches.
Edit(f) ==
  /\ phase = "ready"
  /\ edits < MaxEdits
  /\ edits' = edits + 1
  /\ \E text \in TextsOf(f) \ {disk[f]} : disk' = [disk EXCEPT ![f] = text]
  /\ dirty' = dirty \union {f}
  /\ Noticed(loader, {f})
  /\ UNCHANGED <<session, phase, absorbing, stamp, answering>>

-----------------------------------------------------------------------------
\* flushDirty, once the debounce timer fires.
FlushUnlessBusy ==
  /\ dirty # {}
  /\ batches' = IF batches = <<>> THEN <<dirty>> ELSE batches
  /\ dirty' = {}
  /\ UNCHANGED <<disk, session, phase, overlay, siteFiles, stamp, work, answering, turbopack, edits>>

Flush ==
  /\ dirty # {}
  /\ batches' = Append(batches, dirty)
  /\ dirty' = {}
  /\ UNCHANGED <<disk, session, phase, overlay, siteFiles, stamp, work, answering, turbopack, edits>>

Batch == Head(batches)

\* The work of the oldest batch: read its files, ...
ReadBatchClearing ==
  /\ batches # <<>> /\ work = Idle
  /\ work' = [pc |-> "read", texts |-> [f \in Batch |-> disk[f]]]
  /\ dirty' = {}
  /\ UNCHANGED <<disk, session, phase, overlay, siteFiles, stamp, batches, answering, turbopack, edits>>

ReadBatch ==
  /\ batches # <<>> /\ work = Idle
  /\ work' = [pc |-> "read", texts |-> [f \in Batch |-> disk[f]]]
  /\ UNCHANGED <<disk, session, phase, overlay, siteFiles, stamp, dirty, batches, answering,
                 turbopack, edits>>

\* ... put them in the overlay, seeded from disk the first time, and push it
\* whole, ...
PushBatch ==
  /\ work.pc = "read"
  /\ LET seeded == IF overlay = NoSources THEN disk ELSE overlay
     IN  overlay' = [f \in Files |-> IF f \in Batch THEN work.texts[f] ELSE seeded[f]]
  /\ session' = Swap(session, Loaded(overlay', disk))
  /\ work' = [pc |-> "pushed"]
  /\ UNCHANGED <<disk, phase, siteFiles, stamp, dirty, batches, answering, turbopack, edits>>

\* ... scan them, ...
ScanBatch ==
  /\ work.pc = "pushed"
  /\ session' = Scanned(session, Batch \cap Pages)
  /\ work' = [pc |-> "scanned"]
  /\ UNCHANGED <<disk, phase, overlay, siteFiles, stamp, dirty, batches, answering, turbopack, edits>>

\* ... bring the gate up to date and generate, ...
RegenerateBatch ==
  /\ work.pc = "scanned"
  /\ siteFiles' = (siteFiles \ Batch) \union (SitesOf(session.program) \cap Batch)
  /\ session' = Generated(session)
  /\ work' = [pc |-> "generated"]
  /\ UNCHANGED <<disk, phase, overlay, stamp, dirty, batches, answering, turbopack, edits>>

\* ... and refresh the stamp, forced.
Unwait == serving' = IF serving # Idle /\ serving.pc = "waiting" /\ serving.wait > 0
                     THEN [serving EXCEPT !.wait = @ - 1] ELSE serving

SettleBatch ==
  /\ work.pc = "generated"
  /\ work' = Idle
  /\ batches' = Tail(batches)
  /\ Unwait
  /\ Stamped(loader) \/ (stamp = session.tree /\ Unstamped(loader))
  /\ UNCHANGED <<disk, session, phase, overlay, siteFiles, dirty, chain, edits>>

Absorb == ReadBatch \/ PushBatch \/ ScanBatch \/ RegenerateBatch \/ SettleBatch

-----------------------------------------------------------------------------
\* A loader runs for a page and its request joins the chain.
Call(p) ==
  /\ p \notin valid
  /\ loader[p] = Idle
  /\ loader' = [loader EXCEPT ![p] = [pc |-> "called", changed |-> {}]]
  /\ chain' = Append(chain, [page |-> p, code |-> disk[p]])
  /\ UNCHANGED <<disk, session, phase, absorbing, stamp, dirty, serving, result, valid, edits>>

Replied(p, answer) == [loader EXCEPT ![p] =
  [pc |-> "replied", changed |-> loader[p].changed, answer |-> answer]]

\* What a call declares: its own page, which Turbopack read, and more.
Answering(p, reply, deps) ==
  [keys |-> reply.keys, deps |-> {p} \union deps, missed |-> serving.missed]

\* handle, of the next request: buildStart is awaited and its failure reported,
FailUnanswered ==
  /\ phase = "failed"
  /\ chain # <<>>
  /\ chain' = Tail(chain)
  /\ UNCHANGED <<disk, session, phase, absorbing, stamp, dirty, serving, turbopack, edits>>

Fail ==
  /\ phase = "failed"
  /\ chain # <<>>
  /\ chain' = Tail(chain)
  /\ LET p == Head(chain).page
     IN  loader' = Replied(p, [NoResult EXCEPT !.deps = {p}])
  /\ UNCHANGED <<disk, session, phase, absorbing, stamp, dirty, serving, result, valid, edits>>

\* the batches scheduled by now are awaited; missed is a history variable, the
\* edits that wait for the timer and are in none of them,
TakeAtOnce ==
  /\ phase = "ready"
  /\ serving = Idle
  /\ chain # <<>>
  /\ serving' = [pc |-> "waiting", page |-> Head(chain).page, code |-> Head(chain).code,
                 wait |-> 0, missed |-> dirty]
  /\ chain' = Tail(chain)
  /\ UNCHANGED <<disk, session, phase, absorbing, stamp, dirty, turbopack, edits>>

Take ==
  /\ phase = "ready"
  /\ serving = Idle
  /\ chain # <<>>
  /\ serving' = [pc |-> "waiting", page |-> Head(chain).page, code |-> Head(chain).code,
                 wait |-> Len(batches), missed |-> dirty]
  /\ chain' = Tail(chain)
  /\ UNCHANGED <<disk, session, phase, absorbing, stamp, dirty, turbopack, edits>>

\* the transform hook's gate is passed and the page transformed, or not,
PassesGate(p, code) == p \in siteFiles \/ (code # {} /\ p \notin Wrapped)

Transform ==
  /\ serving # Idle /\ serving.pc = "waiting" /\ serving.wait = 0
  /\ LET p == serving.page
         after == Scanned(session, {p})
     IN  IF PassesGate(p, serving.code)
         THEN /\ session' = after
              /\ serving' = [pc |-> "transformed", page |-> p, missed |-> serving.missed,
                   reply |-> [keys  |-> Keys(session.program, p),
                              deps  |-> IF session.program[p] = {} THEN {} ELSE Deps(after, p),
                              added |-> after.interned # session.interned]]
         ELSE /\ serving' = [pc |-> "transformed", page |-> p, missed |-> serving.missed,
                   reply |-> NoReply]
              /\ UNCHANGED session
  /\ UNCHANGED <<disk, phase, absorbing, stamp, dirty, chain, turbopack, edits>>

\* modules of new types are generated,
Generate ==
  /\ serving # Idle /\ serving.pc = "transformed" /\ serving.reply.added
  /\ session' = Generated(session)
  /\ serving' = [serving EXCEPT !.reply.added = FALSE]
  /\ UNCHANGED <<disk, phase, absorbing, stamp, dirty, chain, turbopack, edits>>

\* and the reply is written; the stamp is refreshed before, unless that was done
\* less than STAMP_THROTTLE_MS ago.
AnswerWithoutStamp ==
  /\ serving # Idle /\ serving.pc = "transformed" /\ ~serving.reply.added
  /\ LET p == serving.page
         answered == Replied(p, Answering(p, serving.reply,
           IF serving.reply.deps = {} THEN {Stamp} ELSE serving.reply.deps))
     IN  Stamped(answered) \/ Unstamped(answered)
  /\ serving' = Idle
  /\ UNCHANGED <<disk, session, phase, absorbing, dirty, chain, edits>>

Answer ==
  /\ serving # Idle /\ serving.pc = "transformed" /\ ~serving.reply.added
  /\ LET p == serving.page
         answered == Replied(p, Answering(p, serving.reply, serving.reply.deps \union {Stamp}))
     IN  Stamped(answered) \/ Unstamped(answered)
  /\ serving' = Idle
  /\ UNCHANGED <<disk, session, phase, absorbing, dirty, chain, edits>>

Serve == Fail \/ Take \/ Transform \/ Generate \/ Answer

\* The loader declares the dependencies of a rewrite and returns; a failure is
\* thrown before it declares any.
Return(p) ==
  /\ loader[p] # Idle
  /\ loader[p].pc = "replied"
  /\ LET answer == loader[p].answer
     IN  IF loader[p].changed \cap answer.deps = {}
         THEN /\ result' = [result EXCEPT ![p] = answer]
              /\ valid' = valid \union {p}
         ELSE UNCHANGED <<result, valid>>
  /\ loader' = [loader EXCEPT ![p] = Idle]
  /\ UNCHANGED <<disk, session, phase, absorbing, stamp, dirty, answering, edits>>

-----------------------------------------------------------------------------
Next ==
  \/ Started \/ StartFailed
  \/ \E f \in Files : Edit(f)
  \/ Flush \/ Absorb
  \/ Serve
  \/ \E p \in Pages : Call(p) \/ Return(p)

Safety == Init /\ [][Next]_vars

\* buildStart settles, timers fire, awaits resume and Turbopack builds the
\* pages it shows.
Fairness ==
  /\ WF_vars(Started \/ StartFailed)
  /\ WF_vars(Flush) /\ WF_vars(Absorb)
  /\ WF_vars(Serve)
  /\ \A p \in Pages : WF_vars(Call(p)) /\ WF_vars(Return(p))

Spec == Safety /\ Fairness

-----------------------------------------------------------------------------
TypeOK ==
  /\ disk \in Sources
  /\ session \in Sessions
  /\ phase \in {"starting", "ready", "failed"}
  /\ \A f \in DOMAIN overlay : f \in Files /\ overlay[f] \in TextsOf(f)
  /\ siteFiles \subseteq Pages
  /\ stamp \in (SUBSET (Fns \X Nodes)) \union {Unwritten}
  /\ dirty \subseteq Files
  /\ \A i \in DOMAIN batches : batches[i] \subseteq Files
  /\ valid \subseteq Pages

\* An edit the broker has seen is in its program, waits for the timer, waits in
\* the chain of batches, or is in the hand of the batch being absorbed with the
\* text the file has now: none is lost, however edits and batches overlap.
NoEditIsLost ==
  \A f \in Files :
    \/ session.program[f] = disk[f]
    \/ f \in dirty
    \/ \E i \in DOMAIN batches :
         /\ f \in batches[i]
         /\ i > 1 \/ work = Idle \/ (work.pc = "read" /\ work.texts[f] = disk[f])

Quiet ==
  /\ phase = "ready"
  /\ dirty = {} /\ batches = <<>>
  /\ chain = <<>> /\ serving = Idle
  /\ \A p \in Pages : loader[p] = Idle

\* Once everything has run, the modules are those of the whole project, the
\* stamp is of their listing, and the imports of every rewrite Turbopack keeps
\* resolve: the stamp makes it drop each one whose modules a batch has removed,
\* also when the rewrite was answered while that batch was being absorbed.
QuietIsWhole ==
  Quiet => /\ session.tree = Demand(disk)
           /\ stamp = session.tree
           /\ \A p \in valid : result[p].keys \subseteq session.tree

\* A rewrite that Turbopack keeps is of the present calls and the present types,
\* unless the page, or a file of a type it uses, had been edited and waited for
\* the timer when the request was taken, or the resolver knew no file for a type
\* that is only a member of another.  But for these the declared files and the
\* awaited batches suffice at every moment; the stamp does not, as the types of a
\* page may change while the listing stays the same.
TypesReachPages ==
  phase = "ready" =>
    \A p \in valid :
      \/ ({p} \union Mentioned(disk[p])) \cap result[p].missed # {}
      \/ ~(Mentioned(disk[p]) \subseteq Named(disk[p]) \union result[p].deps)
      \/ result[p].keys = Keys(disk, p)

\* Every loader call returns, also when buildStart fails.
CallsReturn == \A p \in Pages : loader[p] # Idle ~> loader[p] = Idle

\* Edits end, and then, if the broker came up, its program is what is on disk
\* for good.
EventuallyAbsorbed == <>[](phase = "failed" \/ (batches = <<>> /\ session.program = disk))
=============================================================================
