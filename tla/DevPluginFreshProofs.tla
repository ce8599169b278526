------------------------ MODULE DevPluginFreshProofs ------------------------
(***************************************************************************)
(* In go mode, with hooks that read the edited file when they push it:     *)
(* once everything has run, the generated modules are those of the project *)
(* and, for types without members of other files, every page the server    *)
(* keeps was rewritten from what is on disk.  For any pages, texts, edits  *)
(* and losses of the child.                                                *)
(*                                                                         *)
(* The argument follows a text on its way: what the program, a push that   *)
(* waits or the overlay has of a file is what is on disk, or an update of  *)
(* the file has yet to read it or to reach the session behind.  What the   *)
(* session has told a transform, or the gate, is then current, or such an  *)
(* update is still to scan the page or to invalidate it.                   *)
(***************************************************************************)
EXTENDS DevPluginProofs

\* The updates of a file, and those that have still to read it.
Of(f) == {u \in Updates : update[u].pc # "none" /\ update[u].file = f}
Unread(f) == \E u \in Of(f) : update[u].pc = "read"

\* A text of the file will reach the session after the request at i.
PushedAfter(f, i) ==
  \E u \in Of(f), j \in DOMAIN requests :
    update[u].pc = "setSources" /\ j > i /\ requests[j].who = u

Coming(f, i) == Unread(f) \/ PushedAfter(f, i)

ProgramIsCurrent ==
  \A f \in Files : session.program[f] = disk[f] \/ Coming(f, 0)

PushesAreCurrent ==
  \A i \in DOMAIN requests : requests[i].op = "setSources" =>
    \A f \in Files : requests[i].sources[f] = disk[f] \/ Coming(f, i)

OverlayIsCurrent ==
  overlay = NoSources \/ \A f \in Files : overlay[f] = disk[f] \/ Unread(f)

\* Modules that are not the program's will be generated anew.
TreeIsOwed ==
  \/ session.tree = Demand(session.program)
  \/ \E i \in DOMAIN requests : requests[i].op = "generate"
  \/ \E u \in Updates : update[u].pc \in {"read", "setSources", "scanFiles"}

Behaves == Mode = "go" /\ ~SlowReads

WholeInv == IInv /\ GoInv /\ ProgramIsCurrent /\ PushesAreCurrent /\ OverlayIsCurrent /\ TreeIsOwed

-----------------------------------------------------------------------------
\* Requests keep their places until one is executed.
LEMMA RequestsGrow ==
  ASSUME IInv, Next, ~Execute
  PROVE  \A j \in DOMAIN requests : j \in DOMAIN requests' /\ requests'[j] = requests[j]
<1>1. requests \in Seq(Requests)
  BY DEF IInv, HooksAreTyped
<1>2. \A r \in Requests : requests' = Append(requests, r) =>
        \A j \in DOMAIN requests : j \in DOMAIN requests' /\ requests'[j] = requests[j]
  BY <1>1, Queued
<1> QED BY <1>2, StepKinds DEF StaysPut, Starts, Resumes, Sends

LEMMA RequestsShift ==
  ASSUME IInv, Execute
  PROVE  /\ 1 \in DOMAIN requests /\ requests[1] = Head(requests)
         /\ \A j \in DOMAIN requests : j \in Nat /\ j > 0
         /\ \A j \in DOMAIN requests : j # 1 => j - 1 \in DOMAIN requests' /\ requests'[j - 1] = requests[j]
         /\ \A j \in DOMAIN requests' : /\ j \in Nat /\ j > 0
                                        /\ j + 1 \in DOMAIN requests /\ requests'[j] = requests[j + 1]
<1>1. requests \in Seq(Requests) /\ requests # <<>> /\ requests' = Tail(requests)
  BY DEF IInv, HooksAreTyped, Execute
<1>2. Tail(requests) \in Seq(Requests)
  BY <1>1
<1> QED BY <1>1, <1>2, Queued

\* What an update's step does to the updates: to itself, and to no other.
LEMMA PushMoves ==
  ASSUME Behaves, IInv, GoInv, NEW u \in Updates, Push(u)
  PROVE  LET f == update[u].file
         IN  /\ f \in Files /\ update[u].pc = "read"
             /\ update'[u].pc = "setSources" /\ update'[u].file = f
             /\ \A v \in Updates : v # u => update'[v] = update[v]
             /\ Starts(u) /\ Sends(u)
             /\ UNCHANGED <<disk, session, replies, transform, siteFiles, typeDeps, server, counters>>
             /\ overlay' \in Sources /\ overlay'[f] = disk[f]
             /\ \A g \in Files : g # f => \/ overlay'[g] = disk[g]
                                          \/ overlay # NoSources /\ overlay'[g] = overlay[g]
             /\ requests' = Append(requests, [op |-> "setSources", who |-> u, sources |-> overlay'])
<1> DEFINE f == update[u].file
           seeded == IF overlay = NoSources THEN disk ELSE overlay
           x == [update[u] EXCEPT !.pc = "setSources"]
<1>1. /\ update[u].pc = "read"
      /\ overlay' = [seeded EXCEPT ![f] = disk[f]]
      /\ requests' = Append(requests, [op |-> "setSources", who |-> u, sources |-> overlay'])
      /\ update' = [update EXCEPT ![u] = x]
      /\ UNCHANGED <<disk, session, replies, transform, siteFiles, typeDeps, server, counters>>
  BY DEF Push, Ask, Behaves
<1>2. HooksAreTyped /\ update[u] # None
  BY <1>1 DEF IInv, None
<1>3. f \in Files
  BY <1>2, UpdateTypes
<1>4. seeded \in Sources /\ disk \in Sources
  BY DEF GoInv, Whole, IInv, FilesAreTyped
<1>5. overlay' \in Sources /\ overlay'[f] = disk[f] /\ \A g \in Files : g # f => overlay'[g] = seeded[g]
  <2> HIDE DEF seeded, f
  <2> QED BY <1>1, <1>3, <1>4 DEF Sources
<1>6. x \in HotUpdates /\ x.pc = "setSources" /\ x.file = f
  BY <1>2, UpdateTypes DEF HotUpdates
<1> HIDE DEF x
<1>7. update'[u] = x /\ \A v \in Updates : v # u => update'[v] = update[v]
  BY <1>1, <1>2, <1>6, UpdateMoves
<1>8. ~Awaits(u) /\ ~Answered(u)
  BY <1>1, <1>2, UpdateTypes, ResumedBody
<1>9. Len(requests') # Len(requests)
  BY <1>1 DEF IInv, HooksAreTyped
<1>10. Starts(u)
  BY <1>8, <1>9, PushStep DEF Resumes, StaysPut
<1> QED BY <1>1, <1>3, <1>5, <1>6, <1>7, <1>10 DEF Starts

LEMMA ScanMoves ==
  ASSUME IInv, NEW u \in Updates, Scan(u) \/ Regenerate(u)
  PROVE  /\ update[u].pc = IF Scan(u) THEN "setSources" ELSE "scanFiles"
         /\ update'[u].pc = IF Scan(u) THEN "scanFiles" ELSE "generate"
         /\ update'[u].file = update[u].file /\ update[u].file \in Files
         /\ \A v \in Updates : v # u => update'[v] = update[v]
         /\ Resumes(u) /\ Sends(u) /\ ~Asked(u) /\ Replied(u)
         /\ UNCHANGED <<disk, session, transform, overlay, typeDeps, server, counters>>
<1> DEFINE pc == IF Scan(u) THEN "scanFiles" ELSE "generate"
           x == [update[u] EXCEPT !.pc = pc]
<1>1. /\ update[u].pc = IF Scan(u) THEN "setSources" ELSE "scanFiles"
      /\ update' = [update EXCEPT ![u] = x] /\ Answered(u)
      /\ UNCHANGED <<disk, session, transform, overlay, typeDeps, server, counters>>
      /\ \E r : requests' = Append(requests, r)
  BY DEF Scan, Regenerate, Ask, plugin
<1>2. HooksAreTyped /\ update[u] # None
  BY <1>1 DEF IInv, None
<1>3. x \in HotUpdates /\ x.pc = pc /\ x.file = update[u].file /\ update[u].file \in Files
  BY <1>2, UpdateTypes DEF HotUpdates
<1> HIDE DEF x, pc
<1>4. update'[u] = x /\ \A v \in Updates : v # u => update'[v] = update[v]
  BY <1>1, <1>2, <1>3, UpdateMoves
<1>5. Len(requests') # Len(requests)
  BY <1>1 DEF IInv, HooksAreTyped
<1>6. Replied(u) /\ ~Asked(u) /\ Awaits(u)
  <2>1. 1 \in DOMAIN replies /\ replies[1].who = u
    BY <1>1, Queued DEF Answered, IInv, HooksAreTyped
  <2> QED BY <2>1 DEF Replied, Asked, IInv, Owed
<1>7. Resumes(u) /\ Sends(u)
  BY <1>5, <1>6, ScanStep DEF StaysPut, Starts, Resumes
<1> QED BY <1>1, <1>3, <1>4, <1>6, <1>7 DEF pc

LEMMA SettleMoves ==
  ASSUME IInv, GoInv, NEW u \in Updates, Settle(u), update[u].pc = "generate"
  PROVE  LET f == update[u].file
         IN  /\ update'[u].pc = "none" /\ f \in Files
             /\ \A v \in Updates : v # u => update'[v] = update[v]
             /\ Resumes(u) /\ ~Asked(u)
             /\ UNCHANGED <<disk, session, requests, plugin, counters, served, failed, unresolved>>
             /\ Invalidated({f} \union Stale(f))
<1>1. /\ Answered(u) /\ update' = [update EXCEPT ![u] = None]
      /\ Invalidated({update[u].file} \union Stale(update[u].file))
      /\ UNCHANGED <<disk, session, requests, plugin, counters, served, failed, unresolved>>
  BY DEF Settle
<1>2. HooksAreTyped /\ ServerIsTyped /\ update[u] # None
  BY DEF IInv, None
<1>3. None \in HotUpdates /\ None.pc = "none" /\ \A p \in Pages : transform'[p].pc = transform[p].pc
  BY <1>1, <1>2, InvalidatedPages DEF HotUpdates, None
<1>4. update'[u] = None /\ \A v \in Updates : v # u => update'[v] = update[v]
  BY <1>1, <1>2, <1>3, UpdateMoves
<1>5. Replied(u) /\ ~Asked(u) /\ Awaits(u)
  <2>1. 1 \in DOMAIN replies /\ replies[1].who = u
    BY <1>1, Queued DEF Answered, IInv, HooksAreTyped
  <2> QED BY <2>1 DEF Replied, Asked, IInv, Owed
<1>6. replies' # replies
  <2>1. replies \in Seq(Replies) /\ replies # <<>> /\ replies' = Tail(replies)
    BY <1>1 DEF Answered, IInv, HooksAreTyped
  <2>2. Len(replies') # Len(replies)
    BY <2>1
  <2> QED BY <2>2
<1>7. Resumes(u)
  BY <1>5, <1>6, SettleStep DEF StaysPut, Starts
<1> QED BY <1>1, <1>2, <1>3, <1>4, <1>5, <1>7, UpdateTypes

LEMMA EditMoves ==
  ASSUME IInv, NEW f \in Files, Edit(f)
  PROVE  /\ \E n \in Updates : /\ update[n].pc = "none" /\ n \in Of(f)' /\ update'[n].pc = "read"
                               /\ \A v \in Updates : v # n => update'[v] = update[v]
         /\ StaysPut /\ Invalidated({f})
         /\ UNCHANGED <<session, requests, replies, plugin, respawns, served, failed, unresolved>>
         /\ disk' \in Sources /\ \A g \in Files : g # f => disk'[g] = disk[g]
<1> DEFINE x == [pc |-> "read", file |-> f, text |-> Absent]
<1>1. edits < MaxEdits /\ edits \in Nat /\ MaxEdits \in Nat /\ edits + 1 \in Updates
  BY PluginAssumption DEF IInv, HooksAreTyped, Updates, Edit
<1>2. PICK n \in Updates : n = edits + 1 /\ n > edits
  BY <1>1
<1>3. /\ update' = [update EXCEPT ![n] = x]
      /\ Invalidated({f})
      /\ UNCHANGED <<session, requests, replies, plugin, respawns, served, failed, unresolved>>
      /\ \E text \in TextsOf(f) : disk' = [disk EXCEPT ![f] = text]
  BY <1>2 DEF Edit
<1>4. HooksAreTyped /\ ServerIsTyped /\ update[n] = None /\ None.pc = "none"
  BY <1>2 DEF IInv, HooksAreTyped, None
<1>5. x \in HotUpdates /\ x.pc = "read" /\ x.file = f
  BY DEF HotUpdates
<1> HIDE DEF x
<1>6. update'[n] = x /\ \A v \in Updates : v # n => update'[v] = update[v]
  <2>1. \A p \in Pages : transform'[p].pc = transform[p].pc
    BY <1>3, <1>4, InvalidatedPages
  <2> QED BY <1>3, <1>4, <1>5, <2>1, UpdateMoves
<1>7. n \in Of(f)'
  BY <1>5, <1>6 DEF Of
<1>8. StaysPut /\ disk' \in Sources
  BY EditStep DEF Typed, FilesAreTyped
<1>9. \A g \in Files : g # f => disk'[g] = disk[g]
  <2>1. \A g \in Files : g \in DOMAIN disk
    BY DEF IInv, FilesAreTyped, Sources
  <2> QED BY <1>3, <2>1
<1> QED BY <1>3, <1>4, <1>5, <1>6, <1>7, <1>8, <1>9

-----------------------------------------------------------------------------
\* A text on its way stays on its way.
LEMMA ComingKept ==
  ASSUME Behaves, IInv, GoInv, Next, ~Execute,
         NEW f \in Files, NEW i \in Nat, i <= Len(requests), Coming(f, i)
  PROVE  Coming(f, i)'
<1>1. \A j \in DOMAIN requests : j \in DOMAIN requests' /\ requests'[j] = requests[j]
  BY RequestsGrow
<1>2. PICK u \in Of(f) : \/ update[u].pc = "read"
                         \/ /\ update[u].pc = "setSources"
                            /\ \E j \in DOMAIN requests : j > i /\ requests[j].who = u
  BY DEF Coming, Unread, PushedAfter
<1>3. u \in Updates /\ update[u].file = f /\ update[u].pc # "none"
  BY <1>2 DEF Of
<1>4. CASE update'[u] = update[u]
  <2>1. u \in Of(f)'
    BY <1>3, <1>4 DEF Of
  <2> QED BY <1>1, <1>2, <1>4, <2>1 DEF Coming, Unread, PushedAfter
<1>5. CASE Push(u)
  <2>1. /\ update'[u].pc = "setSources" /\ update'[u].file = f
        /\ \E r : r.who = u /\ requests' = Append(requests, r)
    BY <1>3, <1>5, PushMoves
  <2>2. u \in Of(f)'
    BY <1>3, <2>1 DEF Of
  <2>3. \E j \in DOMAIN requests' : j > i /\ requests'[j].who = u
    <3>1. requests \in Seq(Requests)
      BY DEF IInv, HooksAreTyped
    <3>2. PICK r : r.who = u /\ requests' = Append(requests, r)
      BY <2>1
    <3>3. Len(requests) + 1 \in DOMAIN requests' /\ requests'[Len(requests) + 1] = r
      BY <3>1, <3>2
    <3>4. Len(requests) + 1 > i
      BY <3>1
    <3> QED BY <3>2, <3>3, <3>4
  <2> QED BY <2>1, <2>2, <2>3 DEF Coming, PushedAfter
<1>6. ASSUME NEW v \in Updates, Push(v), v # u
      PROVE  update'[u] = update[u]
  BY <1>3, <1>6, PushMoves
<1>7. ASSUME NEW v \in Updates, Scan(v) \/ Regenerate(v)
      PROVE  update'[u] = update[u]
  <2>1. ~Asked(v) /\ update[v].pc # "read" /\ \A w \in Updates : w # v => update'[w] = update[w]
    BY <1>7, ScanMoves
  <2>2. v # u
    BY <1>2, <2>1 DEF Asked
  <2> QED BY <1>3, <2>1, <2>2
<1>8. ASSUME NEW v \in Updates, Settle(v), update[v].pc = "generate"
      PROVE  update'[u] = update[u]
  BY <1>2, <1>3, <1>8, SettleMoves
<1>9. ASSUME NEW g \in Files, Edit(g)
      PROVE  update'[u] = update[u]
  BY <1>3, <1>9, EditMoves
<1> QED BY <1>4, <1>5, <1>6, <1>7, <1>8, <1>9, GoActions
        DEF Behaves, Respawn, Request, Skip, AskModules, Return, Read

\* What is read or pushed is on its way to the program; what was pushed last
\* has what is on disk, but for what is still to be read.
LEMMA ProgramStep ==
  ASSUME Behaves, WholeInv, Next
  PROVE  ProgramIsCurrent'
<1>1. /\ IInv /\ GoInv /\ ProgramIsCurrent /\ PushesAreCurrent /\ Mode = "go"
      /\ FilesAreTyped /\ requests \in Seq(Requests)
  BY DEF WholeInv, Behaves, IInv, HooksAreTyped
<1> SUFFICES ASSUME NEW f \in Files
             PROVE  session'.program[f] = disk'[f] \/ Coming(f, 0)'
  BY DEF ProgramIsCurrent
<1>2. CASE Execute
  <2>1. PICK r : r = Head(requests)
    OBVIOUS
  <2>2. /\ r = requests[1] /\ 1 \in DOMAIN requests /\ r \in Requests /\ Own(r)
        /\ disk' = disk /\ update' = update
    BY <1>1, <1>2, <2>1, GoExecuted
  <2>3. CASE r.op = "setSources"
    <3>1. session' = Swap(session, r.sources)
      BY <1>1, <1>2, <2>1, <2>3, GoExecuted
    <3>2. session'.program = r.sources
      BY <1>1, <3>1 DEF Swap, FilesAreTyped, Sessions
    <3>3. r.sources[f] = disk[f] \/ Coming(f, 1)
      BY <1>1, <2>2, <2>3 DEF PushesAreCurrent
    <3>4. Coming(f, 1) => Coming(f, 0)'
      <4>1. Of(f)' = Of(f)
        BY <2>2 DEF Of
      <4>2. ASSUME NEW u \in Of(f), NEW j \in DOMAIN requests, j > 1, requests[j].who = u
            PROVE  j - 1 \in DOMAIN requests' /\ j - 1 > 0 /\ requests'[j - 1].who = u
        BY <1>1, <1>2, <4>2, RequestsShift
      <4> QED BY <2>2, <4>1, <4>2 DEF Coming, Unread, PushedAfter
    <3> QED BY <2>2, <3>2, <3>3, <3>4
  <2>4. CASE r.op # "setSources"
    <3>1. session'.program = session.program
      <4>1. CASE r.op \in {"transform", "scanFiles"}
        <5>1. session' = session \/ \E p \in Pages : /\ session.program[p] # Absent
                                                     /\ session' = Scanned(session, {p})
          BY <1>1, <1>2, <2>1, <4>1, GoExecuted DEF ExecuteTransform
        <5> QED BY <1>1, <5>1, SessionSteps
      <4>2. CASE r.op = "generate"
        BY <1>1, <1>2, <2>1, <4>2, GoExecuted, SessionSteps DEF ExecuteGenerate
      <4> QED BY <2>2, <2>4, <4>1, <4>2 DEF Requests
    <3>2. Coming(f, 0) => Coming(f, 0)'
      <4>1. Of(f)' = Of(f)
        BY <2>2 DEF Of
      <4>2. ASSUME NEW u \in Of(f), update[u].pc = "setSources",
                   NEW j \in DOMAIN requests, requests[j].who = u
            PROVE  j - 1 \in DOMAIN requests' /\ j - 1 > 0 /\ requests'[j - 1].who = u
        <5>1. u \in Updates /\ Pc(u) = "setSources"
          BY <4>2, HooksApart DEF Of, Pc
        <5>2. j # 1
          BY <2>2, <2>4, <4>2, <5>1 DEF Own
        <5> QED BY <1>1, <1>2, <4>2, <5>2, RequestsShift
      <4> QED BY <2>2, <4>1, <4>2 DEF Coming, Unread, PushedAfter
    <3> QED BY <1>1, <2>2, <3>1, <3>2 DEF ProgramIsCurrent
  <2> QED BY <2>3, <2>4
<1>3. CASE Respawn
  BY <1>3 DEF Respawn, Fresh
<1>4. ASSUME NEW g \in Files, Edit(g), ~Execute
      PROVE  session'.program[f] = disk'[f] \/ Coming(f, 0)'
  <2>1. session' = session /\ (f # g => disk'[f] = disk[f])
    BY <1>1, <1>4, EditMoves
  <2>2. Unread(g)'
    BY <1>1, <1>4, EditMoves DEF Unread
  <2>3. Coming(f, 0) => Coming(f, 0)'
    BY <1>1, <1>4, ComingKept
  <2> QED BY <1>1, <2>1, <2>2, <2>3 DEF ProgramIsCurrent, Coming
<1>5. CASE ~Execute /\ UNCHANGED <<session, disk>>
  <2>1. Coming(f, 0) => Coming(f, 0)'
    BY <1>1, <1>5, ComingKept
  <2> QED BY <1>1, <1>5, <2>1 DEF ProgramIsCurrent
<1> QED BY <1>1, <1>2, <1>3, <1>4, <1>5, GoActions
        DEF Request, Skip, AskModules, Return, Read, Push, Scan, Regenerate, Settle, Keep

LEMMA PushesStep ==
  ASSUME Behaves, WholeInv, Next
  PROVE  PushesAreCurrent'
<1>1. /\ IInv /\ GoInv /\ PushesAreCurrent /\ OverlayIsCurrent
      /\ requests \in Seq(Requests) /\ \A i \in DOMAIN requests : i \in Nat /\ i > 0 /\ i <= Len(requests)
  BY DEF WholeInv, IInv, HooksAreTyped
<1> SUFFICES ASSUME NEW i \in DOMAIN requests', requests'[i].op = "setSources", NEW f \in Files
             PROVE  requests'[i].sources[f] = disk'[f] \/ Coming(f, i)'
  BY DEF PushesAreCurrent
<1>2. CASE Execute
  <2>1. /\ disk' = disk /\ update' = update
    BY <1>1, <1>2, GoExecuted
  <2>2. i \in Nat /\ i + 1 \in DOMAIN requests /\ requests'[i] = requests[i + 1]
    BY <1>1, <1>2, RequestsShift
  <2>3. requests'[i].sources[f] = disk[f] \/ Coming(f, i + 1)
    BY <1>1, <2>2 DEF PushesAreCurrent
  <2>4. Coming(f, i + 1) => Coming(f, i)'
    <3>1. Of(f)' = Of(f)
      BY <2>1 DEF Of
    <3>2. ASSUME NEW u \in Of(f), NEW j \in DOMAIN requests, j > i + 1, requests[j].who = u
          PROVE  j - 1 \in DOMAIN requests' /\ j - 1 > i /\ requests'[j - 1].who = u
      BY <1>1, <1>2, <2>2, <3>2, RequestsShift
    <3> QED BY <2>1, <3>1, <3>2 DEF Coming, Unread, PushedAfter
  <2> QED BY <2>1, <2>3, <2>4
<1>3. ASSUME ~Execute, i \in DOMAIN requests
      PROVE  requests'[i].sources[f] = disk'[f] \/ Coming(f, i)'
  <2>1. requests'[i] = requests[i] /\ i \in Nat /\ i <= Len(requests)
    BY <1>1, <1>3, RequestsGrow
  <2>2. requests[i].sources[f] = disk[f] \/ Coming(f, i)
    BY <1>1, <1>3, <2>1 DEF PushesAreCurrent
  <2>3. Coming(f, i) => Coming(f, i)'
    BY <1>1, <1>3, <2>1, ComingKept
  <2>4. disk'[f] = disk[f] \/ Unread(f)'
    <3>1. ASSUME NEW g \in Files, Edit(g)
          PROVE  disk'[f] = disk[f] \/ Unread(f)'
      <4>1. (f # g => disk'[f] = disk[f]) /\ Unread(g)'
        BY <1>1, <3>1, EditMoves DEF Unread
      <4> QED BY <4>1
    <3> QED BY <1>1, <1>3, <3>1, GoActions
            DEF Behaves, Respawn, Request, Skip, AskModules, Return, Read, Push, Scan, Regenerate, Settle
  <2> QED BY <2>1, <2>2, <2>3, <2>4 DEF Coming
<1>4. ASSUME ~Execute, i \notin DOMAIN requests
      PROVE  requests'[i].sources[f] = disk'[f] \/ Coming(f, i)'
  <2>1. \A r : requests' = Append(requests, r) => requests'[i] = r
    <3>1. \A r \in Requests : requests' = Append(requests, r) => i = Len(requests) + 1
      BY <1>1, <1>4, Queued
    <3>2. \A r : requests' = Append(requests, r) => requests'[Len(requests) + 1] = r
      BY <1>1
    <3>3. \A r : requests' = Append(requests, r) => i = Len(requests) + 1
      BY <1>1, <1>4
    <3> QED BY <3>2, <3>3
  <2>2. ASSUME NEW u \in Updates, Push(u)
        PROVE  requests'[i].sources[f] = disk'[f] \/ Coming(f, i)'
    <3>1. /\ requests'[i] = [op |-> "setSources", who |-> u, sources |-> overlay']
          /\ overlay'[update[u].file] = disk[update[u].file] /\ disk' = disk
          /\ f # update[u].file => overlay'[f] = disk[f] \/ (overlay # NoSources /\ overlay'[f] = overlay[f])
          /\ \A v \in Updates : v # u => update'[v] = update[v]
      BY <1>1, <2>1, <2>2, PushMoves
    <3>2. CASE f # update[u].file /\ Unread(f)
      <4>1. PICK v \in Of(f) : update[v].pc = "read"
        BY <3>2 DEF Unread
      <4>2. v \in Updates /\ v # u
        BY <3>2, <4>1 DEF Of
      <4>3. v \in Of(f)' /\ update'[v].pc = "read"
        BY <3>1, <4>1, <4>2 DEF Of
      <4> QED BY <4>3 DEF Coming, Unread
    <3>3. CASE f # update[u].file /\ ~Unread(f)
      BY <1>1, <3>1, <3>3 DEF OverlayIsCurrent
    <3>4. CASE f = update[u].file
      BY <3>1, <3>4
    <3> QED BY <3>2, <3>3, <3>4
  <2>3. \A p \in Pages : ~Request(p) /\ ~AskModules(p)
    BY <2>1 DEF Request, AskModules, Ask
  <2>4. \A u \in Updates : ~Scan(u) /\ ~Regenerate(u)
    BY <2>1 DEF Scan, Regenerate, Ask
  <2>5. requests' # requests
    BY <1>4
  <2> QED BY <1>1, <1>4, <2>2, <2>3, <2>4, <2>5, GoActions
          DEF Behaves, Respawn, Edit, Skip, Return, Read, Settle
<1> QED BY <1>2, <1>3, <1>4

LEMMA OverlayStep ==
  ASSUME Behaves, WholeInv, Next
  PROVE  OverlayIsCurrent'
<1>1. IInv /\ GoInv /\ OverlayIsCurrent
  BY DEF WholeInv
<1>2. ASSUME UNCHANGED <<overlay, disk>>, \A f \in Files : Unread(f) => Unread(f)'
      PROVE  OverlayIsCurrent'
  BY <1>1, <1>2 DEF OverlayIsCurrent
<1>3. CASE UNCHANGED <<overlay, disk, update>>
  BY <1>2, <1>3 DEF Unread, Of
<1>4. ASSUME NEW u \in Updates, update[u].pc # "read", UNCHANGED <<overlay, disk>>,
             \A v \in Updates : v # u => update'[v] = update[v]
      PROVE  OverlayIsCurrent'
  <2>1. ASSUME NEW f \in Files, NEW v \in Of(f), update[v].pc = "read"
        PROVE  v \in Of(f)' /\ update'[v].pc = "read"
    BY <1>4, <2>1 DEF Of
  <2> QED BY <1>2, <1>4, <2>1 DEF Unread
<1>5. ASSUME NEW u \in Updates, Push(u)
      PROVE  OverlayIsCurrent'
  <2> SUFFICES ASSUME NEW f \in Files
               PROVE  overlay'[f] = disk'[f] \/ Unread(f)'
    BY DEF OverlayIsCurrent
  <2>1. /\ overlay'[update[u].file] = disk[update[u].file] /\ disk' = disk
        /\ f # update[u].file => overlay'[f] = disk[f] \/ (overlay # NoSources /\ overlay'[f] = overlay[f])
        /\ \A v \in Updates : v # u => update'[v] = update[v]
    BY <1>1, <1>5, PushMoves
  <2>2. CASE f # update[u].file /\ Unread(f)
    <3>1. PICK v \in Of(f) : update[v].pc = "read"
      BY <2>2 DEF Unread
    <3>2. v \in Updates /\ v # u
      BY <2>2, <3>1 DEF Of
    <3>3. v \in Of(f)' /\ update'[v].pc = "read"
      BY <2>1, <3>1, <3>2 DEF Of
    <3> QED BY <3>3 DEF Unread
  <2>3. CASE f # update[u].file /\ ~Unread(f)
    BY <1>1, <2>1, <2>3 DEF OverlayIsCurrent
  <2>4. CASE f = update[u].file
    BY <2>1, <2>4
  <2> QED BY <2>2, <2>3, <2>4
<1>6. ASSUME NEW g \in Files, Edit(g)
      PROVE  OverlayIsCurrent'
  <2>1. PICK n \in Updates : /\ update[n].pc = "none" /\ n \in Of(g)' /\ update'[n].pc = "read"
                             /\ \A v \in Updates : v # n => update'[v] = update[v]
    BY <1>1, <1>6, EditMoves
  <2>2. overlay' = overlay /\ \A f \in Files : f # g => disk'[f] = disk[f]
    BY <1>1, <1>6, EditMoves DEF plugin
  <2>3. Unread(g)'
    BY <2>1 DEF Unread
  <2>4. ASSUME NEW f \in Files, NEW v \in Of(f), update[v].pc = "read"
        PROVE  v \in Of(f)' /\ update'[v].pc = "read"
    BY <2>1, <2>4 DEF Of
  <2>5. \A f \in Files : Unread(f) => Unread(f)'
    BY <2>4 DEF Unread
  <2>6. ASSUME NEW f \in Files, overlay[f] = disk[f] \/ Unread(f)
        PROVE  overlay'[f] = disk'[f] \/ Unread(f)'
    BY <2>2, <2>3, <2>5, <2>6
  <2> QED BY <1>1, <2>2, <2>6 DEF OverlayIsCurrent
<1>7. ASSUME NEW u \in Updates, Scan(u) \/ Regenerate(u)
      PROVE  OverlayIsCurrent'
  BY <1>1, <1>4, <1>7, ScanMoves
<1>8. ASSUME NEW u \in Updates, Settle(u), update[u].pc = "generate"
      PROVE  OverlayIsCurrent'
  BY <1>1, <1>4, <1>8, SettleMoves DEF plugin
<1> QED BY <1>1, <1>3, <1>5, <1>6, <1>7, <1>8, GoActions
        DEF Behaves, Execute, Respawn, Request, Skip, AskModules, Return, Read, plugin

LEMMA TreeStep ==
  ASSUME Behaves, WholeInv, Next
  PROVE  TreeIsOwed'
<1>1. /\ IInv /\ GoInv /\ TreeIsOwed /\ ProgramIsCurrent
      /\ FilesAreTyped /\ requests \in Seq(Requests)
  BY DEF WholeInv, IInv, HooksAreTyped
<1> DEFINE Going(pc) == pc \in {"read", "setSources", "scanFiles"}
<1>2. CASE Execute
  <2>1. PICK r : r = Head(requests)
    OBVIOUS
  <2>2. /\ r = requests[1] /\ 1 \in DOMAIN requests /\ r \in Requests /\ Own(r) /\ update' = update
    BY <1>1, <1>2, <2>1, GoExecuted
  <2>3. CASE r.op = "setSources"
    <3>1. r.who \in Updates
      BY <1>1, <1>2, <2>1, <2>3, GoExecuted
    <3>2. update[r.who].pc = "setSources"
      BY <2>2, <2>3, <3>1, HooksApart DEF Own, Pc
    <3> QED BY <2>2, <3>1, <3>2 DEF TreeIsOwed
  <2>4. CASE r.op = "generate"
    <3>1. session' = Generated(session)
      BY <1>1, <1>2, <2>1, <2>4, GoExecuted DEF ExecuteGenerate
    <3>2. session'.program = session.program
      BY <1>1, <3>1, SessionSteps
    <3>3. session'.tree = Demand(session.program)
      <4> DEFINE t == Scanned(session, PagesOf(session.program))
      <4>1. t \in Sessions
        BY <1>1, ScannedKeeps DEF FilesAreTyped
      <4>2. session' = [t EXCEPT !.tree = Demand(session.program)]
        BY <3>1 DEF Generated
      <4> HIDE DEF t
      <4> QED BY <4>1, <4>2 DEF Sessions
    <3> QED BY <3>2, <3>3 DEF TreeIsOwed
  <2>5. CASE r.op \in {"transform", "scanFiles"}
    <3>1. session' = session \/ \E p \in Pages : /\ session.program[p] # Absent
                                                 /\ session' = Scanned(session, {p})
      BY <1>1, <1>2, <2>1, <2>5, GoExecuted DEF ExecuteTransform
    <3>2. session'.program = session.program /\ session'.tree = session.tree
      <4>1. ASSUME NEW p \in Pages, session.program[p] # Absent
            PROVE  /\ Scanned(session, {p}).program = session.program
                   /\ Scanned(session, {p}).tree = session.tree
        <5>1. {p} \in SUBSET PagesOf(session.program)
          BY <4>1 DEF PagesOf
        <5> QED BY <1>1, <5>1, ScannedKeeps DEF FilesAreTyped
      <4> QED BY <3>1, <4>1
    <3>3. ASSUME NEW j \in DOMAIN requests, requests[j].op = "generate"
          PROVE  \E i \in DOMAIN requests' : requests'[i].op = "generate"
      <4>1. j # 1
        BY <2>2, <2>5, <3>3
      <4> QED BY <1>1, <1>2, <3>3, <4>1, RequestsShift
    <3> QED BY <1>1, <2>2, <3>2, <3>3 DEF TreeIsOwed
  <2> QED BY <2>2, <2>3, <2>4, <2>5 DEF Requests
<1>3. ASSUME ~Execute, \E j \in DOMAIN requests : requests[j].op = "generate"
      PROVE  TreeIsOwed'
  BY <1>1, <1>3, RequestsGrow DEF TreeIsOwed
<1>4. CASE Respawn
  <2>1. session'.program = disk /\ session'.tree = session.tree /\ UNCHANGED <<update, requests>>
    BY <1>4 DEF Respawn, Fresh
  <2>2. CASE \A f \in Files : session.program[f] = disk[f]
    <3>1. session.program = [f \in Files |-> session.program[f]] /\ disk = [f \in Files |-> disk[f]]
      BY <1>1 DEF FilesAreTyped, GoInv, Whole, Sources
    <3>2. session.program = disk
      BY <2>2, <3>1
    <3> QED BY <1>1, <2>1, <3>2 DEF TreeIsOwed
  <2>3. CASE \E f \in Files : Coming(f, 0)
    BY <2>1, <2>3 DEF TreeIsOwed, Coming, Unread, PushedAfter, Of
  <2> QED BY <1>1, <2>2, <2>3 DEF ProgramIsCurrent
<1>5. ASSUME NEW g \in Files, Edit(g)
      PROVE  TreeIsOwed'
  <2>1. \E n \in Updates : update'[n].pc = "read"
    BY <1>1, <1>5, EditMoves
  <2> QED BY <2>1 DEF TreeIsOwed
<1>6. ASSUME NEW u \in Updates, Push(u) \/ Scan(u)
      PROVE  TreeIsOwed'
  <2>1. update'[u].pc \in {"setSources", "scanFiles"}
    BY <1>1, <1>6, PushMoves, ScanMoves
  <2> QED BY <2>1 DEF TreeIsOwed
<1>7. ASSUME NEW u \in Updates, Regenerate(u)
      PROVE  TreeIsOwed'
  <2>1. requests' = Append(requests, [op |-> "generate", who |-> u])
    BY <1>7 DEF Regenerate, Ask
  <2>2. Len(requests) + 1 \in DOMAIN requests' /\ requests'[Len(requests) + 1].op = "generate"
    BY <1>1, <2>1
  <2> QED BY <2>2 DEF TreeIsOwed
<1>8. ASSUME ~Execute, UNCHANGED session, NEW u \in Updates, update[u].pc = "generate",
             \A v \in Updates : v # u => update'[v] = update[v]
      PROVE  TreeIsOwed'
  <2>1. CASE session.tree = Demand(session.program)
    BY <1>8, <2>1 DEF TreeIsOwed
  <2>2. CASE \E v \in Updates : Going(update[v].pc)
    BY <1>8, <2>2 DEF TreeIsOwed
  <2> QED BY <1>1, <1>3, <1>8, <2>1, <2>2 DEF TreeIsOwed
<1>9. CASE ~Execute /\ UNCHANGED <<session, update>>
  BY <1>1, <1>3, <1>9 DEF TreeIsOwed
<1>10. ASSUME ~Execute, NEW u \in Updates, Settle(u), update[u].pc = "generate"
       PROVE  TreeIsOwed'
  BY <1>1, <1>8, <1>10, SettleMoves
<1> QED BY <1>1, <1>2, <1>4, <1>5, <1>6, <1>7, <1>9, <1>10, GoActions
        DEF Behaves, Request, Skip, AskModules, Return, Read

LEMMA WholeInit == Behaves => (Init => WholeInv)
<1> SUFFICES ASSUME Behaves, Init PROVE WholeInv
  OBVIOUS
<1>1. IInv /\ GoInv
  BY InitHolds, GoInit
<1>2. LET fresh == Fresh(disk, {})
      IN  fresh \in Sessions /\ Closed(fresh.program) /\ Noted(fresh) /\ fresh.program = disk
  <2>1. disk \in Sources
    BY DEF Init
  <2> QED BY <2>1, WholeIsClosed, FreshIsSound DEF Fresh
<1>3. session.program = disk /\ session.tree = Demand(disk)
  <2> DEFINE fresh == Fresh(disk, {})
             t == Scanned(fresh, PagesOf(disk))
  <2>1. t \in Sessions
    BY <1>2, ScannedKeeps
  <2>2. session = [t EXCEPT !.tree = Demand(disk)]
    BY <1>2 DEF Init, Generated
  <2>3. session.program = disk
    BY <1>2, GeneratedIsSound DEF Init
  <2> HIDE DEF t
  <2> QED BY <2>1, <2>2, <2>3 DEF Sessions
<1>4. DOMAIN requests = {}
  BY DEF Init
<1> QED BY <1>1, <1>3, <1>4
        DEF Init, WholeInv, ProgramIsCurrent, PushesAreCurrent, OverlayIsCurrent, TreeIsOwed

LEMMA WholeStutters ==
  ASSUME WholeInv, UNCHANGED vars, IInv', GoInv'
  PROVE  WholeInv'
<1> USE DEF vars, plugin, server, WholeInv
<1>1. \A f : Of(f)' = Of(f)
  BY DEF Of
<1>2. \A f, i : Coming(f, i)' <=> Coming(f, i)
  BY <1>1 DEF Coming, Unread, PushedAfter
<1>3. ProgramIsCurrent'
  BY <1>2 DEF ProgramIsCurrent
<1>4. PushesAreCurrent'
  BY <1>2 DEF PushesAreCurrent
<1>5. OverlayIsCurrent'
  BY <1>1 DEF OverlayIsCurrent, Unread
<1>6. TreeIsOwed'
  BY DEF TreeIsOwed
<1> QED BY <1>3, <1>4, <1>5, <1>6

LEMMA WholeHolds ==
  ASSUME Behaves
  PROVE  Spec => []WholeInv
<1>1. ASSUME WholeInv, IInv', GoInv', [Next]_vars
      PROVE  WholeInv'
  <2>1. CASE Next
    BY <1>1, <2>1, ProgramStep, PushesStep, OverlayStep, TreeStep DEF WholeInv
  <2> QED BY <1>1, <2>1, WholeStutters
<1>2. Spec => [](IInv /\ GoInv)
  BY GoHolds DEF Behaves
<1>3. Spec => Init /\ [][Next]_vars
  BY DEF Spec, Safety
<1>4. Init => WholeInv
  BY WholeInit
<1> QED BY <1>1, <1>2, <1>3, <1>4, PTL

\* In go mode, once every hook has returned, the generated modules are those
\* the whole project asks for: no request, reply or loss of the child leaves a
\* module out or one behind.
THEOREM QuietTreeIsWhole == Behaves => (Spec => []QuietIsWhole)
<1> SUFFICES ASSUME Behaves PROVE Spec => []QuietIsWhole
  OBVIOUS
<1>1. ASSUME WholeInv, Quiet
      PROVE  session.tree = Demand(disk)
  <2>1. \A u \in Updates : update[u].pc = "none"
    BY <1>1 DEF Quiet
  <2>2. DOMAIN requests = {}
    BY <1>1 DEF Quiet
  <2>3. \A f \in Files : session.program[f] = disk[f]
    BY <1>1, <2>1 DEF WholeInv, ProgramIsCurrent, Coming, Unread, PushedAfter, Of
  <2>4. /\ session.program = [f \in Files |-> session.program[f]] /\ disk = [f \in Files |-> disk[f]]
    BY <1>1 DEF WholeInv, IInv, FilesAreTyped, GoInv, Whole, Sources
  <2>5. session.program = disk
    BY <2>3, <2>4
  <2> QED BY <1>1, <2>1, <2>2, <2>5 DEF WholeInv, TreeIsOwed
<1>2. WholeInv => QuietIsWhole
  BY <1>1 DEF QuietIsWhole
<1> QED BY <1>2, WholeHolds, PTL

-----------------------------------------------------------------------------
\* The reply of v comes before that of w: replies are queued in the order of
\* the requests, and precede those of requests that wait.
Ahead(v, w) ==
  \/ \E i, j \in DOMAIN replies : i < j /\ replies[i].who = v /\ replies[j].who = w
  \/ Replied(v) /\ Asked(w)
  \/ \E i, j \in DOMAIN requests : i < j /\ requests[i].who = v /\ requests[j].who = w

\* The update u has yet to act on what w is told: to read the file, to push
\* it behind w, or, where w generates or scans, to push or to scan it behind w.
After(w, u, late) ==
  \/ update[u].pc = "read"
  \/ update[u].pc = "setSources" /\ (late \/ Ahead(w, u))
  \/ update[u].pc = "scanFiles" /\ late /\ Ahead(w, u)

\* A rewrite of a page's present text, or it will not be kept as it is: the
\* page was invalidated, or an update is to invalidate it.  A rewrite without
\* calls declares no dependency that could.
IsCurrent(p, r) ==
  /\ Named(r.text) \subseteq r.deps
  /\ \/ r.text = disk[p] /\ r.keys = Keys(disk, p)
     \/ transform[p].spoiled
     \/ \E f \in {p} \union r.deps : \E u \in Of(f) :
          After(p, u, At(p, "generate")) /\ (f # p => r.keys # {})

RepliesAreCurrent ==
  \A i \in DOMAIN replies, p \in Pages :
    replies[i].who = p /\ At(p, "transform") => IsCurrent(p, replies[i].body)

InHandIsCurrent ==
  \A p \in Pages : At(p, "generate") => IsCurrent(p, transform[p].reply)

\* The gate knows the pages that have sites, or an update is to tell it.
GateIsCurrent ==
  \A p \in Pages :
    \/ p \in siteFiles \/ disk[p] = {}
    \/ \E u \in Of(p) : update[u].pc \in {"read", "setSources", "scanFiles"}

ScansAreCurrent ==
  \A i \in DOMAIN replies, u \in Updates :
    replies[i].who = u /\ update[u].pc = "scanFiles" /\ update[u].file \in Pages =>
      \/ replies[i].body.sites \/ disk[update[u].file] = {}
      \/ \E v \in Of(update[u].file) : v # u /\ After(u, v, TRUE)

\* A page the server keeps was rewritten from its present text, and the files
\* of the types it names are known, or an update is to invalidate it.
ServedIsCurrent ==
  \A p \in valid :
    /\ At(p, "idle")
    /\ \/ /\ served[p] = Keys(disk, p)
          /\ disk[p] = {} \/ (typeDeps[p] # Unknown /\ Named(disk[p]) \subseteq typeDeps[p])
       \/ Of(p) # {}
       \/ typeDeps[p] # Unknown /\ \E f \in typeDeps[p] : Of(f) # {}

FreshInv == /\ RepliesAreCurrent /\ InHandIsCurrent
            /\ GateIsCurrent /\ ScansAreCurrent /\ ServedIsCurrent

-----------------------------------------------------------------------------
\* The order of the queues.
LEMMA AheadExecutes ==
  ASSUME IInv, Execute, NEW v, NEW w, Ahead(v, w)
  PROVE  Ahead(v, w)'
<1>1. /\ replies \in Seq(Replies) /\ requests \in Seq(Requests)
      /\ \A i \in DOMAIN replies : i \in Nat /\ i <= Len(replies)
  BY DEF IInv, HooksAreTyped
<1>2. PICK r \in Replies : r.who = Head(requests).who /\ replies' = Append(replies, r)
  BY ExecuteStep DEF Executes
<1>3. /\ \A i \in DOMAIN replies : i \in DOMAIN replies' /\ replies'[i] = replies[i]
      /\ Len(replies) + 1 \in DOMAIN replies' /\ replies'[Len(replies) + 1].who = Head(requests).who
  BY <1>1, <1>2, Queued
<1>4. /\ requests[1] = Head(requests)
      /\ \A j \in DOMAIN requests : j \in Nat /\ j > 0
      /\ \A j \in DOMAIN requests : j # 1 => j - 1 \in DOMAIN requests' /\ requests'[j - 1] = requests[j]
  BY RequestsShift
<1>5. \A x : Replied(x) => Replied(x)'
  BY <1>3 DEF Replied
<1>6. CASE \E i, j \in DOMAIN replies : i < j /\ replies[i].who = v /\ replies[j].who = w
  BY <1>3, <1>6 DEF Ahead
<1>7. CASE Replied(v) /\ Asked(w)
  <2>1. PICK i \in DOMAIN replies, j \in DOMAIN requests : replies[i].who = v /\ requests[j].who = w
    BY <1>7 DEF Replied, Asked
  <2>2. CASE j = 1
    <3>1. i < Len(replies) + 1 /\ Len(replies) + 1 \in DOMAIN replies'
          /\ replies'[Len(replies) + 1].who = w /\ replies'[i].who = v /\ i \in DOMAIN replies'
      BY <1>1, <1>3, <1>4, <2>1, <2>2
    <3> QED BY <3>1 DEF Ahead
  <2>3. CASE j # 1
    <3>1. Asked(w)'
      BY <1>4, <2>1, <2>3 DEF Asked
    <3> QED BY <1>5, <1>7, <3>1 DEF Ahead
  <2> QED BY <2>2, <2>3
<1>8. ASSUME NEW i \in DOMAIN requests, NEW j \in DOMAIN requests, i < j,
             requests[i].who = v, requests[j].who = w
      PROVE  Ahead(v, w)'
  <2>1. j # 1 /\ j - 1 \in DOMAIN requests' /\ requests'[j - 1].who = w
    BY <1>4, <1>8
  <2>2. CASE i = 1
    <3>1. Replied(v)' /\ Asked(w)'
      BY <1>3, <1>4, <1>8, <2>1, <2>2 DEF Replied, Asked
    <3> QED BY <3>1 DEF Ahead
  <2>3. CASE i # 1
    <3>1. i - 1 \in DOMAIN requests' /\ requests'[i - 1].who = v /\ i - 1 < j - 1
      BY <1>4, <1>8, <2>3
    <3> QED BY <2>1, <3>1 DEF Ahead
  <2> QED BY <2>2, <2>3
<1> QED BY <1>6, <1>7, <1>8 DEF Ahead

\* A hook that resumes was first in line, and no other loses its place.
LEMMA AheadMoves ==
  ASSUME IInv, NEW x, Starts(x) \/ Resumes(x), NEW v, NEW w, Ahead(v, w), v # x
  PROVE  w # x /\ Ahead(v, w)'
<1>1. /\ replies \in Seq(Replies) /\ requests \in Seq(Requests)
      /\ \A i \in DOMAIN replies : i \in Nat /\ i > 0
  BY DEF IInv, HooksAreTyped
<1>2. \A j \in DOMAIN requests : j \in DOMAIN requests' /\ requests'[j] = requests[j]
  <2>1. \A r \in Requests : requests' = Append(requests, r) =>
          \A j \in DOMAIN requests : j \in DOMAIN requests' /\ requests'[j] = requests[j]
    BY <1>1, Queued
  <2> QED BY <2>1 DEF Starts, Resumes, Sends
<1>3. CASE Starts(x)
  <2>1. replies' = replies /\ ~Awaits(x)
    BY <1>3 DEF Starts
  <2>2. w # x
    BY <2>1 DEF Ahead, Asked, IInv, Owed
  <2> QED BY <1>2, <2>1, <2>2 DEF Ahead, Asked, Replied
<1>4. CASE Resumes(x)
  <2>1. /\ 1 \in DOMAIN replies /\ replies[1].who = x
        /\ \A j \in DOMAIN replies : j # 1 => j - 1 \in DOMAIN replies' /\ replies'[j - 1] = replies[j]
    <3>1. replies # <<>> /\ Head(replies).who = x /\ replies' = Tail(replies)
      BY <1>4 DEF Resumes, Answered
    <3> QED BY <1>1, <3>1, Queued
  <2>2. ~Asked(x)
    BY <2>1 DEF Asked, IInv, Owed
  <2>3. ASSUME NEW i \in DOMAIN replies, NEW j \in DOMAIN replies, i < j,
               replies[i].who = v, replies[j].who = w
        PROVE  w # x /\ Ahead(v, w)'
    <3>1. i # 1 /\ j # 1
      BY <1>1, <2>1, <2>3
    <3>2. w # x
      BY <2>1, <2>3, <3>1 DEF IInv, Owed
    <3>3. i - 1 < j - 1
      BY <1>1, <2>3
    <3> QED BY <2>1, <2>3, <3>1, <3>2, <3>3 DEF Ahead
  <2>4. CASE Replied(v) /\ Asked(w)
    <3>1. Replied(v)'
      BY <2>1, <2>4 DEF Replied
    <3>2. Asked(w)'
      BY <1>2, <2>4 DEF Asked
    <3> QED BY <2>2, <2>4, <3>1, <3>2 DEF Ahead
  <2>5. CASE \E i, j \in DOMAIN requests : i < j /\ requests[i].who = v /\ requests[j].who = w
    <3>1. w # x
      BY <2>2, <2>5 DEF Asked
    <3>2. Ahead(v, w)'
      BY <1>2, <2>5 DEF Ahead
    <3> QED BY <3>1, <3>2
  <2> QED BY <2>3, <2>4, <2>5 DEF Ahead
<1> QED BY <1>3, <1>4

\* Who sends gets in line behind all that wait.
LEMMA SentLast ==
  ASSUME IInv, NEW x, Starts(x) \/ Resumes(x), Sends(x), NEW v, v # x, Asked(v) \/ Replied(v)
  PROVE  Ahead(v, x)'
<1>1. /\ replies \in Seq(Replies) /\ requests \in Seq(Requests)
      /\ \A i \in DOMAIN requests : i \in Nat /\ i <= Len(requests)
  BY DEF IInv, HooksAreTyped
<1>2. PICK r \in Requests : r.who = x /\ requests' = Append(requests, r)
  BY DEF Sends
<1>3. /\ \A j \in DOMAIN requests : j \in DOMAIN requests' /\ requests'[j] = requests[j]
      /\ Len(requests) + 1 \in DOMAIN requests' /\ requests'[Len(requests) + 1] = r
  BY <1>1, <1>2, Queued
<1>4. CASE Asked(v)
  <2>1. PICK i \in DOMAIN requests : requests[i].who = v
    BY <1>4 DEF Asked
  <2>2. i < Len(requests) + 1
    BY <1>1
  <2> QED BY <1>2, <1>3, <2>1, <2>2 DEF Ahead
<1>5. CASE Replied(v)
  <2>1. Asked(x)'
    BY <1>2, <1>3 DEF Asked
  <2>2. Replied(v)'
    <3>1. CASE replies' = replies
      BY <1>5, <3>1 DEF Replied
    <3>2. CASE Resumes(x)
      <4>1. replies # <<>> /\ Head(replies).who = x /\ replies' = Tail(replies)
        BY <3>2 DEF Resumes, Answered
      <4>2. PICK j \in DOMAIN replies : replies[j].who = v
        BY <1>5 DEF Replied
      <4>3. j # 1 /\ j - 1 \in DOMAIN replies' /\ replies'[j - 1] = replies[j]
        BY <1>1, <4>1, <4>2, Queued
      <4> QED BY <4>2, <4>3 DEF Replied
    <3> QED BY <3>1, <3>2 DEF Starts
  <2> QED BY <2>1, <2>2 DEF Ahead
<1> QED BY <1>4, <1>5

\* A hook's step that resumes its await or sends its first request.
Mine(w) ==
  \/ w \in Pages /\ (Request(w) \/ AskModules(w) \/ Return(w))
  \/ w \in Updates /\ (Push(w) \/ Scan(w) \/ Regenerate(w) \/ Settle(w))

\* While the hook w waits, an update that has yet to act on what w is told
\* goes on having to.
LEMMA AfterKept ==
  ASSUME Behaves, IInv, GoInv, Next, NEW w, ~Mine(w), Asked(w) \/ Replied(w),
         NEW late \in BOOLEAN, NEW f, NEW u \in Of(f), u # w, After(w, u, late)
  PROVE  u \in Of(f)' /\ After(w, u, late)'
<1>1. u \in Updates /\ update[u].pc # "none" /\ update[u].file = f
  BY DEF Of
<1>2. ASSUME update'[u] = update[u], Ahead(w, u) => Ahead(w, u)'
      PROVE  u \in Of(f)' /\ After(w, u, late)'
  BY <1>1, <1>2 DEF Of, After
<1>3. ASSUME NEW x, Starts(x) \/ Resumes(x), x # w, Ahead(w, u)
      PROVE  u # x /\ Ahead(w, u)'
  BY <1>3, AheadMoves
<1>4. ASSUME NEW v \in Updates, Push(v) \/ Scan(v) \/ Regenerate(v) \/ Settle(v)
      PROVE  v # w
  BY <1>4 DEF Mine
<1>5. CASE Execute
  BY <1>2, <1>5, AheadExecutes DEF Execute
<1>6. CASE UNCHANGED <<requests, replies, update>>
  BY <1>2, <1>6 DEF Ahead, Asked, Replied
<1>7. ASSUME NEW g \in Files, Edit(g)
      PROVE  u \in Of(f)' /\ After(w, u, late)'
  <2>1. update'[u] = update[u] /\ UNCHANGED <<requests, replies>>
    BY <1>1, <1>7, EditMoves
  <2> QED BY <1>2, <2>1 DEF Ahead, Asked, Replied
<1>8. ASSUME NEW q \in Pages, Request(q) \/ AskModules(q) \/ Return(q)
      PROVE  u \in Of(f)' /\ After(w, u, late)'
  <2>1. q # w
    BY <1>8 DEF Mine
  <2>2. Starts(q) \/ Resumes(q)
    BY <1>8, RequestStep, AskModulesStep, ReturnStep
  <2>3. update' = update
    BY <1>8 DEF Request, AskModules, Return
  <2> QED BY <1>2, <1>3, <2>1, <2>2, <2>3
<1>9. ASSUME NEW v \in Updates, Push(v)
      PROVE  u \in Of(f)' /\ After(w, u, late)'
  <2>1. /\ Starts(v) /\ Sends(v) /\ update'[v].pc = "setSources" /\ update'[v].file = update[v].file
        /\ \A t \in Updates : t # v => update'[t] = update[t]
    BY <1>9, PushMoves
  <2>2. CASE v = u
    <3>1. Ahead(w, u)'
      BY <1>4, <1>9, <2>1, <2>2, SentLast
    <3> QED BY <1>1, <2>1, <2>2, <3>1 DEF Of, After
  <2> QED BY <1>1, <1>2, <1>3, <1>4, <1>9, <2>1, <2>2
<1>10. ASSUME NEW v \in Updates, Scan(v) \/ Regenerate(v)
       PROVE  u \in Of(f)' /\ After(w, u, late)'
  <2>1. /\ update[v].pc = IF Scan(v) THEN "setSources" ELSE "scanFiles"
        /\ update'[v].pc = IF Scan(v) THEN "scanFiles" ELSE "generate"
        /\ update'[v].file = update[v].file /\ Resumes(v) /\ Sends(v)
        /\ \A t \in Updates : t # v => update'[t] = update[t]
    BY <1>10, ScanMoves
  <2>2. CASE v = u
    <3>1. ~Ahead(w, u)
      BY <1>3, <1>4, <1>10, <2>1, <2>2
    <3>2. late /\ update[u].pc = "setSources" /\ update'[u].pc = "scanFiles"
      BY <2>1, <2>2, <3>1 DEF After
    <3>3. Ahead(w, u)'
      BY <1>4, <1>10, <2>1, <2>2, SentLast
    <3> QED BY <1>1, <2>1, <2>2, <3>2, <3>3 DEF Of, After
  <2> QED BY <1>1, <1>2, <1>3, <1>4, <1>10, <2>1, <2>2
<1>11. ASSUME NEW v \in Updates, Settle(v), update[v].pc = "generate"
       PROVE  u \in Of(f)' /\ After(w, u, late)'
  <2>1. v # u
    BY <1>11 DEF After
  <2>2. update'[u] = update[u] /\ Resumes(v)
    BY <1>1, <1>11, <2>1, SettleMoves
  <2> QED BY <1>2, <1>3, <1>4, <1>11, <2>2
<1> QED BY <1>5, <1>6, <1>7, <1>8, <1>9, <1>10, <1>11, GoActions
        DEF Behaves, Respawn, Skip, Read

\* A transform that waits stays where it is; what invalidates its page is
\* remembered.
LEMMA SpoiledKept ==
  ASSUME Behaves, IInv, GoInv, Next, NEW p \in Pages, ~Mine(p), ~At(p, "idle")
  PROVE  /\ transform'[p].pc = transform[p].pc
         /\ transform[p].spoiled => transform'[p].spoiled
         /\ At(p, "generate") => transform'[p].reply = transform[p].reply
         /\ Edit(p) => transform'[p].spoiled
<1>1. HooksAreTyped /\ ServerIsTyped
  BY DEF IInv
<1>2. ASSUME NEW ps, Invalidated(ps)
      PROVE  /\ transform'[p].pc = transform[p].pc
             /\ transform[p].spoiled => transform'[p].spoiled
             /\ At(p, "generate") => transform'[p].reply = transform[p].reply
             /\ p \in ps => transform'[p].spoiled
  BY <1>1, <1>2, InvalidatedPages
<1>3. ASSUME NEW f \in Files, Edit(f)
      PROVE  Invalidated({f})
  BY <1>3 DEF Edit
<1>4. Edit(p) => Invalidated({p})
  BY DEF Edit
<1>5. ASSUME NEW q \in Pages, Request(q) \/ AskModules(q) \/ Return(q)
      PROVE  transform'[p] = transform[p]
  <2>1. q # p
    BY <1>5 DEF Mine
  <2>2. \E x : transform' = [transform EXCEPT ![q] = x]
    BY <1>5 DEF Request, AskModules, Return, Keep
  <2> QED BY <1>1, <2>1, <2>2 DEF HooksAreTyped
<1>6. ASSUME NEW u \in Updates, Settle(u)
      PROVE  \E ps : Invalidated(ps)
  BY <1>6 DEF Settle
<1>7. \/ UNCHANGED transform \/ transform'[p] = transform[p] \/ \E ps : Invalidated(ps)
  BY <1>3, <1>5, <1>6, GoActions
     DEF Behaves, Execute, Respawn, Skip, Read, Push, Scan, Regenerate
<1>8. Edit(p) => transform'[p].spoiled
  BY <1>2, <1>4
<1>9. CASE transform'[p] = transform[p]
  BY <1>8, <1>9
<1>10. CASE \E ps : Invalidated(ps)
  BY <1>2, <1>8, <1>10
<1> QED BY <1>7, <1>9, <1>10

\* What a transform was told stays current while it waits, or an update is to
\* see that it is not kept.
LEMMA CurrentKept ==
  ASSUME Behaves, FlatRefs, IInv, GoInv, Next, NEW p \in Pages, ~Mine(p), Asked(p) \/ Replied(p),
         At(p, "transform") \/ At(p, "generate"), NEW r, IsCurrent(p, r)
  PROVE  IsCurrent(p, r)'
<1>1. /\ ~At(p, "idle") /\ (At(p, "generate"))' = At(p, "generate")
      /\ transform[p].spoiled => transform'[p].spoiled
      /\ Edit(p) => transform'[p].spoiled
  BY SpoiledKept DEF At
<1>2. Named(r.text) \subseteq r.deps
  BY DEF IsCurrent
<1>3. CASE transform[p].spoiled
  BY <1>1, <1>2, <1>3 DEF IsCurrent
<1>4. ASSUME NEW f \in {p} \union r.deps, NEW u \in Of(f), After(p, u, At(p, "generate")),
             f # p => r.keys # {}
      PROVE  IsCurrent(p, r)'
  <2>1. u # p /\ At(p, "generate") \in BOOLEAN
    BY HooksApart DEF Of, At
  <2>2. PICK late \in BOOLEAN : late = At(p, "generate")
    BY <2>1
  <2>3. u \in Of(f)' /\ After(p, u, late)'
    BY <1>4, <2>1, <2>2, AfterKept
  <2>4. After(p, u, At(p, "generate"))'
    BY <1>1, <2>2, <2>3 DEF After
  <2> QED BY <1>2, <1>4, <2>3, <2>4 DEF IsCurrent
<1>5. CASE r.text = disk[p] /\ r.keys = Keys(disk, p)
  <2>1. ASSUME UNCHANGED disk
        PROVE  IsCurrent(p, r)'
    BY <1>2, <1>5, <2>1 DEF IsCurrent
  <2>2. ASSUME NEW g \in Files, Edit(g)
        PROVE  IsCurrent(p, r)'
    <3>1. CASE g = p
      BY <1>1, <1>2, <2>2, <3>1 DEF IsCurrent
    <3>2. CASE g # p /\ g \in Named(r.text)
      <4>1. PICK n \in Of(g)' : update'[n].pc = "read"
        BY <2>2, EditMoves
      <4>2. r.keys # {}
        BY <1>5, <3>2 DEF Named, Keys
      <4>3. g \in {p} \union r.deps
        BY <1>2, <3>2
      <4> QED BY <1>2, <4>1, <4>2, <4>3 DEF IsCurrent, After
    <3>3. CASE g # p /\ g \notin Named(r.text)
      <4>1. \A f \in Files : f # g => disk'[f] = disk[f]
        BY <2>2, EditMoves
      <4>2. disk[p] \in PageTexts
        BY DEF IInv, FilesAreTyped, Sources, TextsOf, Files
      <4>3. Mentioned(disk[p]) = Named(disk[p]) /\ Mentioned(disk[p]) \subseteq Decls
        BY <4>2, MentionedAreDecls DEF FlatRefs, Mentioned
      <4>4. disk'[p] = disk[p] /\ \A d \in Mentioned(disk[p]) : disk'[d] = disk[d]
        BY <1>5, <3>3, <4>1, <4>3 DEF Files
      <4>5. Keys(disk', p) = Keys(disk, p)
        BY <4>4, KeysOfTexts
      <4> QED BY <1>2, <1>5, <4>4, <4>5 DEF IsCurrent
    <3> QED BY <3>1, <3>2, <3>3
  <2>3. UNCHANGED disk \/ \E g \in Files : Edit(g)
    BY GoActions DEF Execute, Respawn, Request, Skip, AskModules, Return, Read, Push, Scan,
                     Regenerate, Settle, Behaves
  <2> QED BY <2>1, <2>2, <2>3
<1> QED BY <1>3, <1>4, <1>5 DEF IsCurrent

\* What the session tells a transform is of the program; a text the program
\* has not yet comes after it.
LEMMA ToldIsCurrent ==
  ASSUME Behaves, FlatRefs, WholeInv, Execute, NEW p \in Pages, At(p, "transform"),
         Head(requests).who = p, NEW r, r = TransformReply(session, p), Replied(p)'
  PROVE  IsCurrent(p, r)'
<1> DEFINE program == session.program
           after == Scanned(session, {p})
<1>1. IInv /\ GoInv /\ FilesAreTyped /\ UNCHANGED <<disk, transform, update>>
  BY DEF WholeInv, IInv, Execute
<1>2. program \in Sources /\ p \in PagesOf(program) /\ program \in Programs
  BY <1>1, SourcesHaveAllPages DEF GoInv, Whole
<1>3. Named(r.text) \subseteq r.deps
  <2>1. /\ after.program = program
        /\ \A d \in Named(program[p]) : <<Node(program, d), d>> \in after.declFiles
    BY <1>1, <1>2, ScannedKeeps DEF FilesAreTyped
  <2>2. Named(program[p]) \subseteq Deps(after, p)
    <3> HIDE DEF after
    <3> QED BY <2>1, NamedInDeps
  <2> QED BY <2>2 DEF TransformReply
<1>4. r.text = program[p] /\ r.keys = Keys(program, p)
  BY DEF TransformReply
<1>5. ~At(p, "generate")'
  BY <1>1 DEF At
<1>6. ASSUME NEW f \in Files, Coming(f, 0)
      PROVE  \E u \in Of(f)' : After(p, u, At(p, "generate"))'
  <2>1. PICK u \in Of(f) : \/ update[u].pc = "read"
                           \/ update[u].pc = "setSources" /\ \E j \in DOMAIN requests : requests[j].who = u
    BY <1>6 DEF Coming, Unread, PushedAfter
  <2>2. u \in Of(f)' /\ u # p
    BY <1>1, <2>1, HooksApart DEF Of
  <2>3. ASSUME NEW j \in DOMAIN requests, requests[j].who = u
        PROVE  Ahead(p, u)'
    <3>1. j # 1 /\ j - 1 \in DOMAIN requests' /\ requests'[j - 1] = requests[j]
      BY <1>1, <2>2, <2>3, RequestsShift
    <3> QED BY <2>3, <3>1 DEF Ahead, Asked
  <2> QED BY <1>1, <2>1, <2>2, <2>3 DEF After
<1>7. CASE Coming(p, 0)
  <2>1. \E u \in Of(p)' : After(p, u, At(p, "generate"))'
    BY <1>6, <1>7 DEF Files
  <2> QED BY <1>3, <2>1 DEF IsCurrent
<1>8. Mentioned(program[p]) = Named(program[p]) /\ Mentioned(program[p]) \subseteq Decls
  BY <1>2, TextsOfProgram, MentionedAreDecls DEF FlatRefs, Mentioned
<1>9. ASSUME NEW d \in Named(program[p]), Coming(d, 0)
      PROVE  IsCurrent(p, r)'
  <2>1. d \in Files /\ r.keys # {}
    <3>1. PICK site \in program[p] : site[2] = d
      BY <1>9 DEF Named
    <3>2. <<site[1], Node(program, site[2])>> \in r.keys
      BY <1>4, <3>1 DEF Keys
    <3> QED BY <1>8, <3>2 DEF Files
  <2>2. \E u \in Of(d)' : After(p, u, At(p, "generate"))'
    BY <1>6, <1>9, <2>1
  <2>3. d \in {p} \union r.deps
    BY <1>3, <1>4, <1>9
  <2> QED BY <1>3, <2>1, <2>2, <2>3 DEF IsCurrent
<1>10. CASE ~Coming(p, 0) /\ \A d \in Named(program[p]) : ~Coming(d, 0)
  <2>1. disk[p] = program[p] /\ \A d \in Mentioned(program[p]) : disk[d] = program[d]
    BY <1>8, <1>10 DEF WholeInv, ProgramIsCurrent, Files
  <2>2. Keys(disk, p) = Keys(program, p)
    BY <2>1, KeysOfTexts
  <2> QED BY <1>1, <1>3, <1>4, <2>1, <2>2 DEF IsCurrent
<1> QED BY <1>7, <1>9, <1>10

LEMMA RepliesStep ==
  ASSUME Behaves, FlatRefs, WholeInv, RepliesAreCurrent, Next
  PROVE  RepliesAreCurrent'
<1>1. IInv /\ GoInv /\ HooksAreTyped
  BY DEF WholeInv, IInv
<1> SUFFICES ASSUME NEW i \in DOMAIN replies', NEW p \in Pages, replies'[i].who = p,
                    At(p, "transform")', NEW b, b = replies'[i].body
             PROVE  IsCurrent(p, b)'
  BY DEF RepliesAreCurrent, IsCurrent
<1>2. CASE Execute /\ \A r : replies' = Append(replies, r) => replies'[i] = r
  <2>1. PICK r : r = Head(requests)
    OBVIOUS
  <2>2. Own(r) /\ r \in Requests /\ UNCHANGED <<transform, update>>
    BY <1>1, <1>2, <2>1, GoExecuted
  <2>3. replies'[i].who = r.who
    BY <1>1, <1>2, <2>1, ExecuteStep DEF Executes
  <2>4. r.op = "transform" /\ r.file = p /\ r.who = p
    BY <2>2, <2>3 DEF Own, Pc, At
  <2>5. replies'[i].body = TransformReply(session, p)
    <3>1. replies' = Append(replies, [who |-> p, body |-> TransformReply(session, p)])
      BY <1>1, <1>2, <2>1, <2>4, GoExecuted DEF ExecuteTransform
    <3> QED BY <1>2, <3>1
  <2>6. At(p, "transform") /\ Replied(p)'
    BY <2>2 DEF At, Replied
  <2> QED BY <1>2, <2>1, <2>4, <2>5, <2>6, ToldIsCurrent
<1>3. ASSUME NEW j \in DOMAIN replies, replies'[i] = replies[j], replies[j].who = p, Keeps(p)
      PROVE  IsCurrent(p, b)'
  <2>1. At(p, "transform")
    BY <1>3 DEF Keeps, At, Pc, Ops
  <2>2. b = replies[j].body
    BY <1>3
  <2>3. IsCurrent(p, b) /\ Replied(p)
    BY <1>3, <2>1, <2>2 DEF RepliesAreCurrent, Replied
  <2>4. ~Mine(p)
    <3>1. ~Request(p)
      BY <2>1 DEF Request, At
    <3>2. ~AskModules(p)
      <4>1. AskModules(p) => transform' = [transform EXCEPT ![p].pc = "generate", ![p].reply = Body]
        BY DEF AskModules
      <4>2. transform[p] # Idle
        BY <1>1, <2>1, TransformTypes DEF At
      <4> QED BY <1>1, <4>1, <4>2, TransformTypes DEF At, HooksAreTyped
    <3>3. ~Return(p)
      BY <1>1 DEF Return, Keep, At, HooksAreTyped, Idle
    <3> QED BY <3>1, <3>2, <3>3, HooksApart DEF Mine
  <2> QED BY <1>1, <2>1, <2>3, <2>4, CurrentKept
<1> QED BY <1>1, <1>2, <1>3, ReplyOrigin

LEMMA ReplyInHandStep ==
  ASSUME Behaves, FlatRefs, WholeInv, RepliesAreCurrent, InHandIsCurrent, Next
  PROVE  InHandIsCurrent'
<1>1. IInv /\ GoInv /\ HooksAreTyped
  BY DEF WholeInv, IInv
<1> SUFFICES ASSUME NEW p \in Pages, At(p, "generate")', NEW r, r = transform'[p].reply
             PROVE  IsCurrent(p, r)'
  BY DEF InHandIsCurrent, IsCurrent
<1>3. CASE AskModules(p)
  <2>1. /\ At(p, "transform") /\ Answered(p)
        /\ transform' = [transform EXCEPT ![p].pc = "generate", ![p].reply = Body]
        /\ UNCHANGED <<disk, update>>
    BY <1>3 DEF AskModules
  <2>2. r = Body
    BY <1>1, <1>3, AskModulesStep
  <2>3. 1 \in DOMAIN replies /\ replies[1].who = p /\ replies[1].body = Body
    BY <1>1, <2>1, Queued DEF Answered, Body, HooksAreTyped
  <2>4. IsCurrent(p, r)
    BY <2>1, <2>2, <2>3 DEF RepliesAreCurrent
  <2>5. transform'[p].spoiled = transform[p].spoiled /\ ~At(p, "generate")
    <3>1. transform[p] # Idle
      BY <1>1, <2>1, TransformTypes DEF At
    <3> QED BY <1>1, <2>1, <3>1, TransformTypes DEF At, HooksAreTyped
  <2>6. \A f, u : u \in Of(f) /\ After(p, u, At(p, "generate")) =>
          u \in Of(f)' /\ After(p, u, At(p, "generate"))'
    BY <2>1, <2>5 DEF Of, After
  <2> QED BY <2>1, <2>4, <2>5, <2>6 DEF IsCurrent
<1>4. CASE At(p, "generate") /\ transform'[p].reply = transform[p].reply
  <2>1. IsCurrent(p, r)
    BY <1>4 DEF InHandIsCurrent
  <2>2. Asked(p) \/ Replied(p)
    BY <1>1, <1>4, TransformTypes DEF IInv, Owed, At, Hooks
  <2>3. ~Mine(p)
    <3>1. ~Request(p) /\ ~AskModules(p)
      BY <1>4 DEF Request, AskModules, At
    <3>2. ~Return(p)
      BY <1>1 DEF Return, Keep, At, HooksAreTyped, Idle
    <3> QED BY <3>1, <3>2, HooksApart DEF Mine
  <2> QED BY <1>1, <1>4, <2>1, <2>2, <2>3, CurrentKept
<1> QED BY <1>1, <1>3, <1>4, InHandStep DEF At

\* An update goes on until it settles; up to its scan it is to tell the gate.
LEMMA OfKept ==
  ASSUME Behaves, IInv, GoInv, Next, NEW f, NEW u \in Of(f)
  PROVE  \/ /\ u \in Of(f)'
            /\ update[u].pc \in {"read", "setSources", "scanFiles"} =>
                 update'[u].pc \in {"read", "setSources", "scanFiles"} \/ Regenerate(u)
         \/ Settle(u) /\ update[u].pc = "generate" /\ Invalidated({f} \union Stale(f))
<1>1. u \in Updates /\ update[u].pc # "none" /\ update[u].file = f
  BY DEF Of
<1>2. CASE update'[u] = update[u]
  BY <1>1, <1>2 DEF Of
<1>3. CASE Push(u)
  <2>1. update'[u].pc = "setSources" /\ update'[u].file = f
    BY <1>1, <1>3, PushMoves
  <2> QED BY <1>1, <2>1 DEF Of
<1>4. CASE Scan(u) \/ Regenerate(u)
  <2>1. update'[u].pc = (IF Scan(u) THEN "scanFiles" ELSE "generate") /\ update'[u].file = f
    BY <1>1, <1>4, ScanMoves
  <2> QED BY <1>1, <1>4, <2>1 DEF Of
<1>5. CASE Settle(u) /\ update[u].pc = "generate"
  BY <1>1, <1>5, SettleMoves
<1>6. ASSUME NEW v \in Updates, v # u,
             Push(v) \/ Scan(v) \/ Regenerate(v) \/ (Settle(v) /\ update[v].pc = "generate")
      PROVE  update'[u] = update[u]
  BY <1>1, <1>6, PushMoves, ScanMoves, SettleMoves
<1>7. ASSUME NEW g \in Files, Edit(g)
      PROVE  update'[u] = update[u]
  BY <1>1, <1>7, EditMoves
<1>8. CASE update' = update
  BY <1>2, <1>8
<1> QED BY <1>2, <1>3, <1>4, <1>5, <1>6, <1>7, <1>8, GoActions
        DEF Behaves, Execute, Respawn, Request, Skip, AskModules, Return, Read

LEMMA DiskMoves ==
  ASSUME Behaves, IInv, GoInv, Next
  PROVE  \/ UNCHANGED disk
         \/ \E g \in Files, n \in Updates :
              /\ Edit(g) /\ \A f \in Files : f # g => disk'[f] = disk[f]
              /\ update[n].pc = "none" /\ n \in Of(g)' /\ update'[n].pc = "read"
<1>1. ASSUME NEW g \in Files, Edit(g)
      PROVE  \E n \in Updates :
              /\ \A f \in Files : f # g => disk'[f] = disk[f]
              /\ update[n].pc = "none" /\ n \in Of(g)' /\ update'[n].pc = "read"
  BY <1>1, EditMoves
<1> QED BY <1>1, GoActions DEF Behaves, Execute, Respawn, Request, Skip, AskModules, Return, Read,
                               Push, Scan, Regenerate, Settle

LEMMA GateStep ==
  ASSUME Behaves, WholeInv, GateIsCurrent, ScansAreCurrent, Next
  PROVE  GateIsCurrent'
<1>1. IInv /\ GoInv /\ HooksAreTyped
  BY DEF WholeInv, IInv
<1> DEFINE Going == {"read", "setSources", "scanFiles"}
<1> SUFFICES ASSUME NEW p \in Pages
             PROVE  p \in siteFiles' \/ disk'[p] = {} \/ \E u \in Of(p)' : update'[u].pc \in Going
  BY DEF GateIsCurrent
<1>2. ASSUME NEW u \in Updates, Regenerate(u), update[u].file = p
      PROVE  p \in siteFiles' \/ disk'[p] = {} \/ \E v \in Of(p)' : update'[v].pc \in Going
  <2>1. /\ Answered(u) /\ update[u].pc = "scanFiles" /\ UNCHANGED disk
        /\ siteFiles' = IF Body.sites THEN siteFiles \union {p} ELSE siteFiles \ {p}
    BY <1>2 DEF Regenerate
  <2>2. 1 \in DOMAIN replies /\ replies[1].who = u /\ replies[1].body = Body
    BY <1>1, <2>1, Queued DEF Answered, Body, HooksAreTyped
  <2>3. Body.sites \/ disk[p] = {} \/ \E v \in Of(p) : v # u /\ After(u, v, TRUE)
    BY <1>2, <2>1, <2>2 DEF ScansAreCurrent
  <2>4. ASSUME NEW v \in Of(p), v # u, After(u, v, TRUE)
        PROVE  v \in Of(p)' /\ update'[v].pc \in Going
    <3>1. update'[v] = update[v] /\ v \in Updates
      BY <1>1, <1>2, <2>4, ScanMoves DEF Of
    <3> QED BY <2>4, <3>1 DEF Of, After
  <2> QED BY <2>1, <2>3, <2>4
<1>3. ASSUME \A u \in Updates : Regenerate(u) => update[u].file # p
      PROVE  p \in siteFiles' \/ disk'[p] = {} \/ \E v \in Of(p)' : update'[v].pc \in Going
  <2>1. p \in siteFiles' <=> p \in siteFiles
    BY <1>1, <1>3, GoActions DEF Behaves, Execute, Respawn, Edit, Request, Skip, AskModules, Return,
                                 Read, Push, Scan, Regenerate, Settle, plugin
  <2>2. ASSUME NEW u \in Of(p), update[u].pc \in Going
        PROVE  u \in Of(p)' /\ update'[u].pc \in Going
    <3>1. ~Regenerate(u)
      BY <1>3, <2>2 DEF Of
    <3> QED BY <1>1, <2>2, <3>1, OfKept
  <2>3. disk'[p] = disk[p] \/ \E v \in Of(p)' : update'[v].pc \in Going
    <3>1. ASSUME NEW g \in Files, NEW n \in Updates, \A f \in Files : f # g => disk'[f] = disk[f],
                 n \in Of(g)', update'[n].pc = "read"
          PROVE  disk'[p] = disk[p] \/ \E v \in Of(p)' : update'[v].pc \in Going
      BY <3>1 DEF Files
    <3> QED BY <1>1, <3>1, DiskMoves
  <2> QED BY <2>1, <2>2, <2>3 DEF GateIsCurrent
<1> QED BY <1>2, <1>3

LEMMA ScansStep ==
  ASSUME Behaves, WholeInv, ScansAreCurrent, Next
  PROVE  ScansAreCurrent'
<1>1. IInv /\ GoInv /\ HooksAreTyped /\ update \in [Updates -> HotUpdates]
  BY DEF WholeInv, IInv, HooksAreTyped
<1> SUFFICES ASSUME NEW i \in DOMAIN replies', NEW u \in Updates, replies'[i].who = u,
                    update'[u].pc = "scanFiles", NEW f \in Pages, f = update'[u].file
             PROVE  \/ replies'[i].body.sites \/ disk'[f] = {}
                    \/ \E v \in Of(f)' : v # u /\ After(u, v, TRUE)'
  BY DEF ScansAreCurrent, Of, After, Ahead, Asked, Replied
<1>2. CASE Execute /\ \A r : replies' = Append(replies, r) => replies'[i] = r
  <2>1. PICK r : r = Head(requests)
    OBVIOUS
  <2>2. Own(r) /\ r \in Requests /\ UNCHANGED <<disk, update>>
    BY <1>1, <1>2, <2>1, GoExecuted
  <2>3. replies'[i].who = r.who
    BY <1>1, <1>2, <2>1, ExecuteStep DEF Executes
  <2>4. r.op = "scanFiles" /\ r.file = f
    BY <2>2, <2>3, HooksApart DEF Own, Pc
  <2>5. replies'[i].body.sites <=> session.program[f] # {}
    <3>1. PICK b : b = [missing |-> FALSE, sites |-> f \in Pages /\ session.program[f] # {}]
      OBVIOUS
    <3>2. replies' = Append(replies, [who |-> r.who, body |-> b])
      BY <1>1, <1>2, <2>1, <2>4, <3>1, GoExecuted DEF ExecuteTransform
    <3>3. replies'[i].body = b
      BY <1>2, <3>2
    <3>4. b.sites <=> session.program[f] # {}
      BY <3>1
    <3> QED BY <3>3, <3>4
  <2>6. ASSUME NEW v \in Of(f), update[v].pc \in {"read", "setSources"}
        PROVE  v \in Of(f)' /\ v # u /\ After(u, v, TRUE)'
    BY <2>2, <2>6 DEF Of, After
  <2>7. session.program[f] = disk[f] \/ \E v \in Of(f) : update[v].pc \in {"read", "setSources"}
    BY DEF WholeInv, ProgramIsCurrent, Coming, Unread, PushedAfter, Files
  <2> QED BY <2>2, <2>5, <2>6, <2>7
<1>3. ASSUME NEW j \in DOMAIN replies, replies'[i] = replies[j], replies[j].who = u, Keeps(u)
      PROVE  \/ replies'[i].body.sites \/ disk'[f] = {}
             \/ \E v \in Of(f)' : v # u /\ After(u, v, TRUE)'
  <2>1. update[u].pc = "scanFiles" /\ update[u].file = f
    BY <1>3, HooksApart DEF Keeps, Pc, Ops
  <2>2. ~Mine(u)
    <3>1. ~Push(u) /\ ~Scan(u)
      BY <2>1 DEF Push, Scan
    <3>2. ~Regenerate(u)
      BY <1>1, ScanMoves, <2>1
    <3>3. ~Settle(u)
      BY <1>1 DEF Settle, None
    <3> QED BY <3>1, <3>2, <3>3, HooksApart DEF Mine
  <2>3. replies[j].body.sites \/ disk[f] = {} \/ \E v \in Of(f) : v # u /\ After(u, v, TRUE)
    BY <1>3, <2>1 DEF ScansAreCurrent
  <2>4. ASSUME NEW v \in Of(f), v # u, After(u, v, TRUE)
        PROVE  v \in Of(f)' /\ After(u, v, TRUE)'
    <3>1. Asked(u) \/ Replied(u)
      BY <1>3 DEF Replied
    <3> QED BY <1>1, <2>2, <2>4, <3>1, AfterKept
  <2>5. disk'[f] = disk[f] \/ \E v \in Of(f)' : v # u /\ After(u, v, TRUE)'
    <3>1. ASSUME NEW g \in Files, NEW n \in Updates, \A h \in Files : h # g => disk'[h] = disk[h],
                 update[n].pc = "none", n \in Of(g)', update'[n].pc = "read"
          PROVE  disk'[f] = disk[f] \/ \E v \in Of(f)' : v # u /\ After(u, v, TRUE)'
      BY <2>1, <3>1 DEF Files, After
    <3> QED BY <1>1, <3>1, DiskMoves
  <2> QED BY <1>3, <2>3, <2>4, <2>5
<1> QED BY <1>1, <1>2, <1>3, ReplyOrigin

\* A page the server begins to keep: skipped, or rewritten.
LEMMA SkippedIsCurrent ==
  ASSUME WholeInv, GateIsCurrent, NEW p \in Pages, Skip(p)
  PROVE  /\ At(p, "idle")'
         /\ \/ served'[p] = Keys(disk', p) /\ disk'[p] = {}
            \/ Of(p)' # {}
<1>1. /\ At(p, "idle") /\ ~PassesGate(p, disk[p]) /\ served' = [served EXCEPT ![p] = {}]
      /\ UNCHANGED <<disk, transform, update>> /\ served \in [Pages -> SUBSET (Fns \X Nodes)]
  BY DEF Skip, WholeInv, IInv, ServerIsTyped
<1>2. disk[p] = {} \/ Of(p) # {}
  BY <1>1 DEF PassesGate, GateIsCurrent
<1>3. Of(p)' = Of(p)
  BY <1>1 DEF Of
<1>4. disk[p] = {} => Keys(disk, p) = {}
  BY DEF Keys
<1> QED BY <1>1, <1>2, <1>3, <1>4 DEF At

LEMMA ReturnedIsCurrent ==
  ASSUME Behaves, WholeInv, RepliesAreCurrent, InHandIsCurrent, NEW p \in Pages, Return(p),
         p \notin valid, p \in valid'
  PROVE  /\ At(p, "idle")'
         /\ \/ /\ served'[p] = Keys(disk', p)
               /\ disk'[p] = {} \/ (typeDeps'[p] # Unknown /\ Named(disk'[p]) \subseteq typeDeps'[p])
            \/ Of(p)' # {}
            \/ typeDeps'[p] # Unknown /\ \E f \in typeDeps'[p] : Of(f)' # {}
<1>1. IInv /\ GoInv /\ HooksAreTyped /\ ServerIsTyped
  BY DEF WholeInv, IInv
<1>2. PICK r : r = InHand(p)
  OBVIOUS
<1>3. /\ Ready(p) /\ Keep(p, r.keys) /\ UNCHANGED <<disk, update>>
      /\ typeDeps' = IF r.keys = {} THEN typeDeps ELSE [typeDeps EXCEPT ![p] = r.deps]
  BY <1>2 DEF Return
<1>4. r \in Rewrites
  BY <1>1, <1>2, <1>3, InHandType
<1>5. IsCurrent(p, r)
  <2>1. CASE At(p, "generate")
    BY <1>2, <2>1 DEF InHandIsCurrent, InHand
  <2>2. CASE ~At(p, "generate")
    <3>1. At(p, "transform") /\ r = Body /\ Answered(p)
      BY <1>2, <1>3, <2>2 DEF InHand, Ready
    <3>2. 1 \in DOMAIN replies /\ replies[1].who = p /\ replies[1].body = Body
      BY <1>1, <3>1, Queued DEF Answered, Body, HooksAreTyped
    <3> QED BY <3>1, <3>2 DEF RepliesAreCurrent
  <2> QED BY <2>1, <2>2
<1>6. ~transform[p].spoiled /\ served'[p] = r.keys /\ transform'[p] = Idle
  BY <1>1, <1>3 DEF Keep, HooksAreTyped, ServerIsTyped
<1>7. At(p, "idle")'
  BY <1>6 DEF At, Idle
<1>8. r.keys # {} => typeDeps'[p] = r.deps /\ typeDeps'[p] # Unknown
  BY <1>1, <1>3, <1>4, PluginAssumption DEF ServerIsTyped, Rewrites
<1>9. CASE r.text = disk[p] /\ r.keys = Keys(disk, p)
  <2>1. r.keys = {} => disk[p] = {}
    BY <1>9 DEF Keys
  <2> QED BY <1>3, <1>5, <1>6, <1>7, <1>8, <1>9, <2>1 DEF IsCurrent
<1>10. ASSUME NEW f \in {p} \union r.deps, Of(f) # {}, f # p => r.keys # {}
       PROVE  Of(p)' # {} \/ (typeDeps'[p] # Unknown /\ \E g \in typeDeps'[p] : Of(g)' # {})
  <2>1. Of(f)' = Of(f)
    BY <1>3 DEF Of
  <2> QED BY <1>8, <1>10, <2>1
<1> QED BY <1>5, <1>6, <1>7, <1>9, <1>10 DEF IsCurrent

LEMMA ServedStep ==
  ASSUME Behaves, FlatRefs, WholeInv, FreshInv, Next
  PROVE  ServedIsCurrent'
<1>1. /\ IInv /\ GoInv /\ HooksAreTyped /\ ServerIsTyped
      /\ RepliesAreCurrent /\ InHandIsCurrent /\ GateIsCurrent /\ ServedIsCurrent
  BY DEF WholeInv, IInv, FreshInv
<1> DEFINE Current(p) ==
      \/ /\ served[p] = Keys(disk, p)
         /\ disk[p] = {} \/ (typeDeps[p] # Unknown /\ Named(disk[p]) \subseteq typeDeps[p])
      \/ Of(p) # {}
      \/ typeDeps[p] # Unknown /\ \E f \in typeDeps[p] : Of(f) # {}
<1> SUFFICES ASSUME NEW p \in Pages, p \in valid'
             PROVE  (At(p, "idle") /\ Current(p))'
  <2>1. valid' \subseteq Pages
    BY <1>1, StepKinds DEF Typed, ServerIsTyped
  <2> QED BY <2>1 DEF ServedIsCurrent
<1>2. CASE p \notin valid
  <2>1. CASE Skip(p)
    BY <1>1, <2>1, SkippedIsCurrent
  <2>2. CASE Return(p)
    BY <1>1, <1>2, <2>2, ReturnedIsCurrent
  <2>3. ASSUME NEW q \in Pages, q # p, Skip(q) \/ Return(q)
        PROVE  FALSE
    BY <1>2, <2>3 DEF Skip, Return, Keep
  <2>4. valid' # valid
    BY <1>2
  <2> QED BY <1>1, <1>2, <2>1, <2>2, <2>3, <2>4, GoActions
          DEF Behaves, Execute, Respawn, Request, AskModules, Edit, Read, Push, Scan, Regenerate,
              Settle, Invalidated, server
<1>3. CASE p \in valid
  <2>1. At(p, "idle") /\ Current(p)
    BY <1>1, <1>3 DEF ServedIsCurrent
  <2>2. ~Request(p) /\ ~Skip(p) /\ ~AskModules(p) /\ ~Return(p)
    BY <1>3, <2>1 DEF Request, Skip, AskModules, Return, Ready, At
  <2>3. served'[p] = served[p] /\ typeDeps'[p] = typeDeps[p] /\ transform'[p].pc = transform[p].pc
    <3>1. ASSUME NEW q \in Pages, q # p, Request(q) \/ Skip(q) \/ AskModules(q) \/ Return(q)
          PROVE  served'[p] = served[p] /\ typeDeps'[p] = typeDeps[p] /\ transform'[p] = transform[p]
      <4>1. /\ UNCHANGED transform \/ \E x : transform' = [transform EXCEPT ![q] = x]
            /\ UNCHANGED served \/ \E x : served' = [served EXCEPT ![q] = x]
            /\ UNCHANGED typeDeps \/ \E x : typeDeps' = [typeDeps EXCEPT ![q] = x]
        BY <3>1 DEF Request, Skip, AskModules, Return, Keep, plugin, server
      <4> QED BY <1>1, <3>1, <4>1 DEF HooksAreTyped, ServerIsTyped
    <3>2. ASSUME NEW ps, Invalidated(ps)
          PROVE  transform'[p].pc = transform[p].pc
      BY <1>1, <3>2, InvalidatedPages
    <3> QED BY <1>1, <2>2, <3>1, <3>2, GoActions
            DEF Behaves, Execute, Respawn, Edit, Read, Push, Scan, Regenerate, Settle, plugin, server
  <2>4. ASSUME NEW f, NEW u \in Of(f), p = f \/ (typeDeps[p] # Unknown /\ f \in typeDeps[p])
        PROVE  u \in Of(f)'
    <3>1. ~Invalidated({f} \union Stale(f))
      BY <1>3, <2>4 DEF Invalidated, Stale
    <3> QED BY <1>1, <3>1, OfKept
  <2>5. CASE Of(p) # {}
    BY <2>1, <2>3, <2>4, <2>5 DEF At
  <2>6. CASE typeDeps[p] # Unknown /\ \E f \in typeDeps[p] : Of(f) # {}
    BY <2>1, <2>3, <2>4, <2>6 DEF At
  <2>7. CASE /\ served[p] = Keys(disk, p)
             /\ disk[p] = {} \/ (typeDeps[p] # Unknown /\ Named(disk[p]) \subseteq typeDeps[p])
    <3>1. CASE UNCHANGED disk
      BY <2>1, <2>3, <2>7, <3>1 DEF At
    <3>2. ASSUME NEW g \in Files, NEW n \in Updates, Edit(g), n \in Of(g)',
                 \A f \in Files : f # g => disk'[f] = disk[f]
          PROVE  (At(p, "idle") /\ Current(p))'
      <4>1. g # p /\ disk'[p] = disk[p]
        BY <1>3, <3>2 DEF Edit, Invalidated, Files
      <4>2. CASE g \in Named(disk[p])
        <5>1. disk[p] # {}
          BY <4>2 DEF Named
        <5> QED BY <2>1, <2>3, <2>7, <3>2, <4>2, <5>1 DEF At
      <4>3. CASE g \notin Named(disk[p])
        <5>1. disk[p] \in PageTexts
          BY DEF WholeInv, IInv, FilesAreTyped, Sources, TextsOf, Files
        <5>2. Mentioned(disk[p]) = Named(disk[p]) /\ Mentioned(disk[p]) \subseteq Decls
          BY <5>1, MentionedAreDecls DEF FlatRefs, Mentioned
        <5>3. Keys(disk', p) = Keys(disk, p)
          BY <3>2, <4>1, <4>3, <5>2, KeysOfTexts DEF Files
        <5> QED BY <2>1, <2>3, <2>7, <4>1, <5>3 DEF At
      <4> QED BY <4>2, <4>3
    <3> QED BY <1>1, <3>1, <3>2, DiskMoves
  <2> QED BY <2>1, <2>5, <2>6, <2>7
<1> QED BY <1>2, <1>3

LEMMA FreshInit ==
  ASSUME Init
  PROVE  FreshInv
<1>1. \A p \in Pages : At(p, "idle")
  BY DEF Init, Idle, At
<1>2. DOMAIN replies = {}
  BY DEF Init
<1>3. GateIsCurrent
  BY DEF Init, SitesOf, GateIsCurrent
<1>4. InHandIsCurrent
  BY <1>1 DEF InHandIsCurrent, At
<1> QED BY <1>2, <1>3, <1>4
        DEF Init, FreshInv, RepliesAreCurrent, ScansAreCurrent, ServedIsCurrent

LEMMA FreshStutters ==
  ASSUME FreshInv, UNCHANGED vars
  PROVE  FreshInv'
<1> USE DEF vars, plugin, server, FreshInv
<1>1. \A f : Of(f)' = Of(f)
  BY DEF Of
<1>2. \A v, w : Ahead(v, w)' <=> Ahead(v, w)
  BY DEF Ahead, Asked, Replied
<1>3. \A w, u, late : After(w, u, late)' <=> After(w, u, late)
  BY <1>2 DEF After
<1>4. \A p, r : IsCurrent(p, r) => IsCurrent(p, r)'
  BY <1>1, <1>3 DEF IsCurrent, At
<1>5. RepliesAreCurrent' /\ InHandIsCurrent'
  <2>1. ASSUME NEW i \in DOMAIN replies, NEW p \in Pages, replies[i].who = p, At(p, "transform"),
               NEW b, b = replies[i].body
        PROVE  IsCurrent(p, b)'
    BY <1>4, <2>1 DEF RepliesAreCurrent
  <2>2. ASSUME NEW p \in Pages, At(p, "generate"), NEW r, r = transform[p].reply
        PROVE  IsCurrent(p, r)'
    BY <1>4, <2>2 DEF InHandIsCurrent
  <2> QED BY <2>1, <2>2 DEF RepliesAreCurrent, InHandIsCurrent, IsCurrent, At
<1>6. GateIsCurrent'
  BY <1>1 DEF GateIsCurrent
<1>7. ScansAreCurrent'
  BY <1>1, <1>3 DEF ScansAreCurrent
<1>8. ServedIsCurrent'
  BY <1>1 DEF ServedIsCurrent, At
<1> QED BY <1>5, <1>6, <1>7, <1>8

\* In go mode, where no declaration refers to another, and once every hook has
\* returned, each page the server keeps was rewritten from its present text and
\* the present texts of the types it names, and its modules are on disk: no
\* interleaving of transforms, edits and hot updates, and no loss of the child,
\* leaves a page stale.
THEOREM QuietPagesAreFresh == Behaves /\ FlatRefs => (Spec => []QuietIsFresh)
<1> SUFFICES ASSUME Behaves, FlatRefs PROVE Spec => []QuietIsFresh
  OBVIOUS
<1>1. ASSUME WholeInv, FreshInv, Next
      PROVE  FreshInv'
  BY <1>1, RepliesStep, ReplyInHandStep, GateStep, ScansStep, ServedStep DEF FreshInv
<1>2. ASSUME WholeInv, FreshInv, [Next]_vars
      PROVE  FreshInv'
  BY <1>1, <1>2, FreshStutters
<1>3. Spec => [](WholeInv /\ FreshInv /\ QuietIsWhole)
  <2>1. Spec => Init /\ [][Next]_vars
    BY DEF Spec, Safety
  <2>2. Spec => []WholeInv
    BY WholeHolds
  <2>3. Spec => []QuietIsWhole
    BY QuietTreeIsWhole
  <2> QED BY <1>2, <2>1, <2>2, <2>3, FreshInit, PTL
<1>4. ASSUME WholeInv, FreshInv, QuietIsWhole, Quiet, NEW p \in valid
      PROVE  served[p] = Keys(disk, p) /\ served[p] \subseteq session.tree
  <2>1. \A u \in Updates : update[u].pc = "none"
    BY <1>4 DEF Quiet
  <2>2. served[p] = Keys(disk, p)
    BY <1>4, <2>1 DEF FreshInv, ServedIsCurrent, Of
  <2>3. p \in PagesOf(disk)
    BY <1>4, SourcesHaveAllPages DEF WholeInv, IInv, FilesAreTyped, ServerIsTyped
  <2>4. session.tree = Demand(disk)
    BY <1>4 DEF QuietIsWhole
  <2> QED BY <2>2, <2>3, <2>4 DEF Demand
<1>5. WholeInv /\ FreshInv /\ QuietIsWhole => QuietIsFresh
  BY <1>4 DEF QuietIsFresh
<1> QED BY <1>3, <1>5, PTL
=============================================================================
