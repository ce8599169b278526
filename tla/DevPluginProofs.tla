--------------------------- MODULE DevPluginProofs ---------------------------
(***************************************************************************)
(* Proofs about DevPlugin, in both modes, for any files, texts, edits and  *)
(* losses of the child: the state keeps its type, and every await of a     *)
(* hook is owed exactly one reply.  In go mode no transform ever throws.   *)
(*                                                                         *)
(* The invariant is about the two queues: each request and each reply in   *)
(* them is of a hook that awaits it, says what that hook's step asked for, *)
(* and is the only one of its hook.                                        *)
(***************************************************************************)
EXTENDS DevPlugin, ResolverProgramProofs, FiniteSetTheorems, FunctionTheorems

Hooks == Pages \union Updates
Ops == {"transform", "scanFiles", "setSources", "generate"}

\* What a hook does: if it awaits, its step is named for the request.
Pc(w) == IF w \in Pages THEN transform[w].pc ELSE update[w].pc
Awaits(w) == w \in Hooks /\ Pc(w) \in Ops

Rewrites == [missing : {FALSE}, keys : SUBSET (Fns \X Nodes), deps : SUBSET Decls,
             text : PageTexts, added : BOOLEAN]
Scans == [missing : {FALSE}, sites : BOOLEAN]

Transforms == {Idle} \union
  [pc : {"transform", "generate", "setSources"}, stage : {"go", "first", "second"},
   code : PageTexts, gated : BOOLEAN, reply : {Missing} \union Rewrites, spoiled : BOOLEAN]

HotUpdates == {None} \union
  {u \in [pc : {"read", "setSources", "scanFiles", "generate"}, file : Files,
          text : Texts \union {Absent}] : u.text \in TextsOf(u.file) \union {Absent}}

Requests == [op : {"transform", "scanFiles"}, who : Hooks, file : Files]
              \union [op : {"setSources"}, who : Hooks, sources : Pushes]
              \union [op : {"generate"}, who : Hooks]

Replies == [who : Hooks, body : {Missing} \union Rewrites \union Scans] \union [who : Hooks]

FilesAreTyped ==
  /\ disk \in Sources
  /\ session \in Sessions /\ Closed(session.program) /\ Noted(session)
  /\ overlay \in Pushes

HooksAreTyped ==
  /\ transform \in [Pages -> Transforms]
  /\ update \in [Updates -> HotUpdates]
  /\ requests \in Seq(Requests)
  /\ replies \in Seq(Replies)
  /\ edits \in 0..MaxEdits
  /\ \A u \in Updates : u > edits => update[u] = None

ServerIsTyped ==
  /\ siteFiles \subseteq Pages
  /\ typeDeps \in [Pages -> (SUBSET Decls) \union {Unknown}]
  /\ served \in [Pages -> SUBSET (Fns \X Nodes)]
  /\ valid \subseteq Pages

\* A request is what its hook's step sent.
Own(r) ==
  /\ r.op = Pc(r.who)
  /\ r.op = "transform" => r.who \in Pages /\ r.file = r.who
  /\ r.op = "scanFiles" => r.who \in Updates /\ r.file = update[r.who].file

Asked(w) == \E i \in DOMAIN requests : requests[i].who = w
Replied(w) == \E i \in DOMAIN replies : replies[i].who = w

Owed ==
  /\ \A i \in DOMAIN requests : Awaits(requests[i].who) /\ Own(requests[i])
  /\ \A i \in DOMAIN replies : Awaits(replies[i].who)
  /\ \A i, j \in DOMAIN requests : requests[i].who = requests[j].who => i = j
  /\ \A i, j \in DOMAIN replies : replies[i].who = replies[j].who => i = j
  /\ \A i \in DOMAIN requests, j \in DOMAIN replies : requests[i].who # replies[j].who
  /\ \A w \in Hooks : Awaits(w) => Asked(w) \/ Replied(w)

\* A reply is of the kind its hook's step expects.
BodyFits(r) ==
  /\ Pc(r.who) = "transform" => r.body \in {Missing} \union Rewrites
  /\ Pc(r.who) = "scanFiles" =>
       r.body = Missing \/ (r.body \in Scans /\ (r.body.sites => update[r.who].file \in Pages))

BodiesFit ==
  /\ \A i \in DOMAIN replies : BodyFits(replies[i])
  /\ \A p \in Pages : At(p, "generate") => transform[p].reply \in Rewrites

IInv == FilesAreTyped /\ HooksAreTyped /\ ServerIsTyped /\ Owed /\ BodiesFit

-----------------------------------------------------------------------------
LEMMA HooksApart == \A u \in Updates : u \notin Pages /\ u \in Hooks
BY PluginAssumption DEF Updates, Hooks

LEMMA TransformTypes ==
  ASSUME HooksAreTyped, NEW p \in Pages
  PROVE  /\ transform[p].pc \in {"idle", "transform", "generate", "setSources"}
         /\ transform[p].pc = "idle" <=> transform[p] = Idle
         /\ transform[p] # Idle =>
              transform[p] \in [pc : {"transform", "generate", "setSources"},
                stage : {"go", "first", "second"}, code : PageTexts, gated : BOOLEAN,
                reply : {Missing} \union Rewrites, spoiled : BOOLEAN]
         /\ Awaits(p) <=> transform[p] # Idle
         /\ Pc(p) = transform[p].pc
<1>1. transform[p] \in Transforms
  BY DEF HooksAreTyped
<1>2. Idle.pc = "idle"
  BY DEF Idle
<1>3. Pc(p) = transform[p].pc /\ p \in Hooks
  BY DEF Pc, Hooks
<1>4. CASE transform[p] = Idle
  BY <1>2, <1>3, <1>4 DEF Awaits, Ops
<1>5. CASE transform[p] \in [pc : {"transform", "generate", "setSources"},
             stage : {"go", "first", "second"}, code : PageTexts, gated : BOOLEAN,
             reply : {Missing} \union Rewrites, spoiled : BOOLEAN]
  BY <1>2, <1>3, <1>5 DEF Awaits, Ops
<1> QED BY <1>1, <1>4, <1>5 DEF Transforms

LEMMA UpdateTypes ==
  ASSUME HooksAreTyped, NEW u \in Updates
  PROVE  /\ update[u].pc \in {"none", "read", "setSources", "scanFiles", "generate"}
         /\ update[u].pc = "none" <=> update[u] = None
         /\ update[u] # None =>
              /\ update[u] \in [pc : {"read", "setSources", "scanFiles", "generate"},
                                file : Files, text : Texts \union {Absent}]
              /\ update[u].file \in Files
              /\ update[u].text \in TextsOf(update[u].file) \union {Absent}
         /\ Awaits(u) <=> update[u].pc \notin {"none", "read"}
         /\ Pc(u) = update[u].pc
<1>1. update[u] \in HotUpdates
  BY DEF HooksAreTyped
<1>2. None.pc = "none"
  BY DEF None
<1>3. Pc(u) = update[u].pc /\ u \in Hooks
  BY HooksApart DEF Pc
<1>4. CASE update[u] = None
  BY <1>2, <1>3, <1>4 DEF Awaits, Ops
<1>5. CASE /\ update[u] \in [pc : {"read", "setSources", "scanFiles", "generate"}, file : Files,
                             text : Texts \union {Absent}]
           /\ update[u].text \in TextsOf(update[u].file) \union {Absent}
  BY <1>2, <1>3, <1>5 DEF Awaits, Ops
<1> QED BY <1>1, <1>4, <1>5 DEF HotUpdates

\* The program a session starts from, scans, swaps and generates.
LEMMA SessionSteps ==
  ASSUME FilesAreTyped
  PROVE  /\ \A p \in Pages : session.program[p] # Absent =>
              /\ Scanned(session, {p}) \in Sessions /\ Noted(Scanned(session, {p}))
              /\ Scanned(session, {p}).program = session.program
         /\ \A s \in Pushes : LET swapped == Swap(session, Loaded(s, disk))
                              IN  swapped \in Sessions /\ Closed(swapped.program) /\ Noted(swapped)
         /\ Generated(session) \in Sessions /\ Noted(Generated(session))
         /\ Generated(session).program = session.program
         /\ LET fresh == Fresh(disk, session.tree)
            IN  fresh \in Sessions /\ Closed(fresh.program) /\ Noted(fresh)
<1>1. \A p \in Pages : session.program[p] # Absent => {p} \in SUBSET PagesOf(session.program)
  BY DEF PagesOf
<1>2. \A s \in Pushes : Loaded(s, disk) \in Programs /\ Closed(Loaded(s, disk))
  BY LoadedIsSound DEF FilesAreTyped
<1>3. disk \in Programs /\ Closed(disk) /\ session.tree \in SUBSET (Fns \X Nodes)
  BY WholeIsClosed DEF FilesAreTyped, Sessions
<1> QED BY <1>1, <1>2, <1>3, ScannedKeeps, SwapIsSound, GeneratedIsSound, FreshIsSound
        DEF FilesAreTyped

\* What a transform request is answered with.
LEMMA RewriteType ==
  ASSUME FilesAreTyped, NEW p \in Pages, session.program[p] # Absent
  PROVE  TransformReply(session, p) \in Rewrites
<1> DEFINE after == Scanned(session, {p})
<1>1. after \in Sessions /\ session.program \in Programs /\ p \in PagesOf(session.program)
  BY SessionSteps DEF FilesAreTyped, Sessions, PagesOf
<1>2. Keys(session.program, p) \subseteq Fns \X Nodes
  BY <1>1, KeysType DEF FilesAreTyped, Demand
<1>3. Deps(after, p) \subseteq Decls
  BY <1>1 DEF Deps, Sessions
<1>4. session.program[p] \in PageTexts
  BY <1>1, TextsOfProgram
<1> HIDE DEF after
<1> QED BY <1>2, <1>3, <1>4 DEF TransformReply, Rewrites, after

-----------------------------------------------------------------------------
\* A step leaves a hook to wait as it did: for the same, or not at all.
Keeps(v) ==
  /\ Pc(v)' = Pc(v) \/ (Pc(v) \notin Ops /\ Pc(v)' \notin Ops)
  /\ v \in Updates /\ Pc(v) = "scanFiles" => update'[v].file = update[v].file

\* The four ways a step treats the queues: none, a request is executed, a hook
\* sends its first one, a reply resumes a hook, which may send another.
StaysPut == UNCHANGED <<requests, replies>> /\ \A v \in Hooks : Keeps(v)

Executes ==
  /\ requests # <<>>
  /\ requests' = Tail(requests)
  /\ \E r \in Replies : r.who = Head(requests).who /\ replies' = Append(replies, r)
  /\ UNCHANGED <<transform, update>>

Sends(w) == \E r \in Requests : r.who = w /\ Own(r)' /\ requests' = Append(requests, r)

Starts(w) ==
  /\ w \in Hooks /\ ~Awaits(w)
  /\ UNCHANGED replies
  /\ Sends(w)
  /\ \A v \in Hooks \ {w} : Keeps(v)

Resumes(w) ==
  /\ Answered(w)
  /\ (Pc(w)' \notin Ops /\ UNCHANGED requests) \/ Sends(w)
  /\ \A v \in Hooks \ {w} : Keeps(v)

\* Head, tail and end of a queue.
LEMMA Queued ==
  ASSUME NEW S, NEW q \in Seq(S)
  PROVE  /\ \A i \in DOMAIN q : i \in Nat /\ i > 0
         /\ q # <<>> => /\ 1 \in DOMAIN q /\ Head(q) = q[1] /\ Tail(q) \in Seq(S)
                        /\ \A i \in DOMAIN Tail(q) : /\ i + 1 \in DOMAIN q
                                                     /\ Tail(q)[i] = q[i + 1]
                        /\ \A i \in DOMAIN q : i # 1 => /\ i - 1 \in DOMAIN Tail(q)
                                                        /\ Tail(q)[i - 1] = q[i]
         /\ \A x \in S : /\ Append(q, x) \in Seq(S)
                         /\ \A i \in DOMAIN q : i \in DOMAIN Append(q, x) /\ Append(q, x)[i] = q[i]
                         /\ Len(q) + 1 \in DOMAIN Append(q, x) /\ Append(q, x)[Len(q) + 1] = x
                         /\ Len(q) + 1 \notin DOMAIN q
                         /\ \A i \in DOMAIN Append(q, x) : i \in DOMAIN q \/ i = Len(q) + 1
OBVIOUS

LEMMA OwnKept ==
  ASSUME NEW r, Awaits(r.who), Own(r), Keeps(r.who)
  PROVE  Awaits(r.who)' /\ Own(r)'
BY DEF Own, Keeps, Awaits

LEMMA OwedStaysPut ==
  ASSUME HooksAreTyped, Owed, StaysPut
  PROVE  Owed'
<1>1. \A w \in Hooks : Awaits(w)' <=> Awaits(w)
  BY DEF StaysPut, Keeps, Awaits
<1>2. \A i \in DOMAIN requests : Own(requests[i])'
  <2>1. SUFFICES ASSUME NEW i \in DOMAIN requests
                 PROVE  Own(requests[i])'
    OBVIOUS
  <2>2. Awaits(requests[i].who) /\ Own(requests[i])
    BY DEF Owed
  <2> QED BY <2>2 DEF Own, StaysPut, Keeps, Awaits
<1> QED BY <1>1, <1>2 DEF Owed, StaysPut, Asked, Replied, Awaits

LEMMA OwedExecutes ==
  ASSUME HooksAreTyped, Owed, Executes
  PROVE  Owed'
<1> DEFINE w == Head(requests).who
<1>1. requests \in Seq(Requests) /\ replies \in Seq(Replies) /\ requests # <<>>
  BY DEF HooksAreTyped, Executes
<1>2. PICK r \in Replies : r.who = w /\ replies' = Append(replies, r)
  BY DEF Executes
<1>3. requests' = Tail(requests) /\ \A v : Awaits(v)' <=> Awaits(v)
  BY DEF Executes, Awaits, Pc
<1>4. /\ 1 \in DOMAIN requests /\ requests[1].who = w
      /\ \A i \in DOMAIN requests' : /\ i \in Nat /\ i > 0 /\ i + 1 \in DOMAIN requests
                                     /\ requests'[i] = requests[i + 1]
      /\ \A i \in DOMAIN requests : i # 1 => i - 1 \in DOMAIN requests' /\ requests'[i - 1] = requests[i]
  BY <1>1, <1>3, Queued
<1>5. /\ \A i \in DOMAIN replies : i \in DOMAIN replies' /\ replies'[i] = replies[i]
      /\ Len(replies) + 1 \in DOMAIN replies' /\ replies'[Len(replies) + 1].who = w
      /\ \A i \in DOMAIN replies' : i \in DOMAIN replies \/ i = Len(replies) + 1
  BY <1>1, <1>2, Queued
<1>6. \A i \in DOMAIN replies : replies[i].who # w
  BY <1>4 DEF Owed
<1>7. \A i \in DOMAIN requests' : requests'[i].who # w /\ i + 1 # 1
  BY <1>4 DEF Owed
<1>8. ASSUME NEW i \in DOMAIN requests'
      PROVE  (Awaits(requests[i].who) /\ Own(requests[i]))'
  <2>1. PICK q : q = requests'[i]
    OBVIOUS
  <2>2. Awaits(q.who) /\ Own(q)
    BY <1>4, <2>1 DEF Owed
  <2>3. Keeps(q.who)
    BY DEF Executes, Keeps, Pc
  <2>4. Awaits(q.who)' /\ Own(q)'
    BY <2>2, <2>3, OwnKept
  <2> QED BY <2>1, <2>4 DEF Awaits, Own, Pc
<1>9. ASSUME NEW i \in DOMAIN replies'
      PROVE  Awaits(replies[i].who)'
  <2>1. PICK v : v = replies'[i].who
    OBVIOUS
  <2>2. Awaits(v)
    BY <1>4, <1>5, <2>1 DEF Owed
  <2> QED BY <1>3, <2>1, <2>2 DEF Awaits, Pc
<1>10. \A i, j \in DOMAIN requests' : requests'[i].who = requests'[j].who => i = j
  BY <1>4 DEF Owed
<1>11. \A i, j \in DOMAIN replies' : replies'[i].who = replies'[j].who => i = j
  BY <1>5, <1>6 DEF Owed
<1>12. \A i \in DOMAIN requests', j \in DOMAIN replies' : requests'[i].who # replies'[j].who
  BY <1>4, <1>5, <1>7 DEF Owed
<1>13. \A v \in Hooks : Awaits(v)' => Asked(v)' \/ Replied(v)'
  <2>1. SUFFICES ASSUME NEW v \in Hooks, Awaits(v)
                 PROVE  \/ \E i \in DOMAIN requests' : requests'[i].who = v
                        \/ \E i \in DOMAIN replies' : replies'[i].who = v
    BY <1>3 DEF Asked, Replied
  <2>2. CASE v = w
    BY <1>5, <2>2
  <2>3. CASE v # w
    BY <1>4, <1>5, <2>1, <2>3 DEF Owed, Asked, Replied
  <2> QED BY <2>2, <2>3
<1> QED BY <1>8, <1>9, <1>10, <1>11, <1>12, <1>13 DEF Owed

\* A request of a hook that has none joins the queue.
LEMMA OwedSends ==
  ASSUME HooksAreTyped, NEW w \in Hooks, Sends(w), \A v \in Hooks \ {w} : Keeps(v),
         replies' \in Seq(Replies),
         \A i \in DOMAIN requests : Awaits(requests[i].who) /\ Own(requests[i]) /\ requests[i].who # w,
         \A i, j \in DOMAIN requests : requests[i].who = requests[j].who => i = j,
         \A j \in DOMAIN replies' : Awaits(replies'[j].who) /\ replies'[j].who # w,
         \A i, j \in DOMAIN replies' : replies'[i].who = replies'[j].who => i = j,
         \A i \in DOMAIN requests, j \in DOMAIN replies' : requests[i].who # replies'[j].who,
         \A v \in Hooks \ {w} : Awaits(v) => Asked(v) \/ Replied(v)'
  PROVE  Owed'
<1>1. PICK r \in Requests : r.who = w /\ Own(r)' /\ requests' = Append(requests, r)
  BY DEF Sends
<1>2. /\ \A i \in DOMAIN requests : i \in DOMAIN requests' /\ requests'[i] = requests[i]
      /\ Len(requests) + 1 \in DOMAIN requests' /\ requests'[Len(requests) + 1] = r
      /\ \A i \in DOMAIN requests' : i \in DOMAIN requests \/ i = Len(requests) + 1
  BY <1>1, Queued DEF HooksAreTyped
<1>3. \A v \in Hooks \ {w} : Awaits(v)' <=> Awaits(v)
  BY DEF Keeps, Awaits
<1>4. Awaits(w)'
  BY <1>1 DEF Own, Awaits, Requests, Ops
<1>6. ASSUME NEW i \in DOMAIN requests'
      PROVE  (Awaits(requests[i].who) /\ Own(requests[i]))'
  <2>1. PICK q : q = requests'[i]
    OBVIOUS
  <2>2. CASE i \in DOMAIN requests
    <3>1. q = requests[i]
      BY <1>2, <2>1, <2>2
    <3>2. Awaits(q.who) /\ Own(q) /\ q.who \in Hooks \ {w}
      BY <2>2, <3>1 DEF Awaits
    <3>3. Awaits(q.who)' /\ Own(q)'
      BY <3>2, OwnKept
    <3> QED BY <2>1, <3>3 DEF Awaits, Own, Pc
  <2>3. CASE i = Len(requests) + 1
    <3>1. q = r
      BY <1>2, <2>1, <2>3
    <3> QED BY <1>1, <1>4, <2>1, <3>1 DEF Awaits, Own, Pc
  <2> QED BY <1>2, <2>2, <2>3
<1>7. ASSUME NEW j \in DOMAIN replies'
      PROVE  Awaits(replies[j].who)'
  <2>1. PICK v : v = replies'[j].who
    OBVIOUS
  <2>2. Awaits(v) /\ v \in Hooks \ {w}
    BY <2>1 DEF Awaits
  <2>3. Awaits(v)'
    BY <1>3, <2>2
  <2> QED BY <2>1, <2>3 DEF Awaits, Pc
<1>8. \A i, j \in DOMAIN requests' : requests'[i].who = requests'[j].who => i = j
  BY <1>1, <1>2
<1>9. \A i \in DOMAIN requests', j \in DOMAIN replies' : requests'[i].who # replies'[j].who
  BY <1>1, <1>2
<1>10. \A v \in Hooks : Awaits(v)' => Asked(v)' \/ Replied(v)'
  BY <1>1, <1>2, <1>3 DEF Asked
<1> QED BY <1>6, <1>7, <1>8, <1>9, <1>10 DEF Owed

LEMMA OwedStarts ==
  ASSUME HooksAreTyped, Owed, NEW w, Starts(w)
  PROVE  Owed'
<1>1. w \in Hooks /\ ~Awaits(w) /\ replies' = replies
  BY DEF Starts
<1>2. \A v : Replied(v)' <=> Replied(v)
  BY <1>1 DEF Replied
<1> QED BY <1>1, <1>2, OwedSends DEF Starts, Owed, HooksAreTyped

LEMMA OwedResumes ==
  ASSUME HooksAreTyped, Owed, NEW w, Resumes(w)
  PROVE  Owed'
<1>1. /\ replies # <<>> /\ Head(replies).who = w /\ replies' = Tail(replies)
      /\ replies \in Seq(Replies)
  BY DEF Resumes, Answered, HooksAreTyped
<1>2. /\ 1 \in DOMAIN replies /\ replies[1].who = w /\ replies' \in Seq(Replies)
      /\ \A i \in DOMAIN replies' : /\ i \in Nat /\ i > 0 /\ i + 1 \in DOMAIN replies
                                    /\ replies'[i] = replies[i + 1]
      /\ \A i \in DOMAIN replies : i # 1 => i - 1 \in DOMAIN replies' /\ replies'[i - 1] = replies[i]
  BY <1>1, Queued
<1>3. w \in Hooks /\ \A i \in DOMAIN requests : requests[i].who # w
  BY <1>2 DEF Owed, Awaits
<1>4. \A j \in DOMAIN replies' : /\ Awaits(replies'[j].who) /\ replies'[j].who # w
                                 /\ \A i \in DOMAIN requests : requests[i].who # replies'[j].who
  BY <1>2 DEF Owed
<1>5. \A i, j \in DOMAIN replies' : replies'[i].who = replies'[j].who => i = j
  BY <1>2 DEF Owed
<1>6. \A v \in Hooks \ {w} : Awaits(v) => Asked(v) \/ Replied(v)'
  BY <1>2 DEF Owed, Asked, Replied
<1>7. CASE Sends(w)
  BY <1>2, <1>3, <1>4, <1>5, <1>6, <1>7, OwedSends DEF Owed, Resumes
<1>8. CASE Pc(w)' \notin Ops /\ requests' = requests
  <2>1. ~Awaits(w)' /\ \A v \in Hooks \ {w} : Awaits(v)' <=> Awaits(v)
    BY <1>8 DEF Resumes, Keeps, Awaits
  <2>2. ASSUME NEW i \in DOMAIN requests'
        PROVE  (Awaits(requests[i].who) /\ Own(requests[i]))'
    <3>1. PICK q : q = requests'[i] /\ q = requests[i] /\ i \in DOMAIN requests
      BY <1>8
    <3>2. q.who \in Hooks \ {w} /\ Awaits(q.who) /\ Own(q)
      BY <1>3, <3>1 DEF Owed, Awaits
    <3>3. Awaits(q.who)' /\ Own(q)'
      BY <3>2, OwnKept DEF Resumes
    <3> QED BY <3>1, <3>3 DEF Awaits, Own, Pc
  <2>3. ASSUME NEW j \in DOMAIN replies'
        PROVE  Awaits(replies[j].who)'
    <3>1. PICK v : v = replies'[j].who
      OBVIOUS
    <3>2. Awaits(v) /\ v \in Hooks \ {w}
      BY <1>4, <3>1 DEF Awaits
    <3>3. Awaits(v)'
      BY <2>1, <3>2
    <3> QED BY <3>1, <3>3 DEF Awaits, Pc
  <2>4. \A v \in Hooks : Awaits(v)' => Asked(v)' \/ Replied(v)'
    BY <1>6, <1>8, <2>1 DEF Asked
  <2> QED BY <1>4, <1>5, <1>8, <2>2, <2>3, <2>4 DEF Owed
<1> QED BY <1>7, <1>8 DEF Resumes

-----------------------------------------------------------------------------
\* What a move of one hook, or a mark on some transforms, leaves to the others.
LEMMA OthersKept ==
  ASSUME NEW ws, \A p \in Pages \ ws : transform'[p].pc = transform[p].pc,
         \A u \in Updates \ ws : update'[u] = update[u]
  PROVE  \A v \in Hooks \ ws : Keeps(v)
BY HooksApart DEF Keeps, Pc, Hooks

LEMMA PageMoves ==
  ASSUME HooksAreTyped, NEW p \in Pages, NEW x \in Transforms,
         transform' = [transform EXCEPT ![p] = x], update' = update
  PROVE  /\ transform' \in [Pages -> Transforms] /\ Pc(p)' = x.pc
         /\ transform'[p] = x /\ \A q \in Pages : q # p => transform'[q] = transform[q]
         /\ \A v \in Hooks \ {p} : Keeps(v)
<1>1. transform \in [Pages -> Transforms]
  BY DEF HooksAreTyped
<1>2. transform'[p] = x /\ \A q \in Pages : q # p => transform'[q] = transform[q]
  BY <1>1
<1>3. \A v \in Hooks \ {p} : Keeps(v)
  BY <1>2, OthersKept
<1> QED BY <1>1, <1>2, <1>3 DEF Pc

LEMMA UpdateMoves ==
  ASSUME HooksAreTyped, NEW u \in Updates, NEW x \in HotUpdates,
         update' = [update EXCEPT ![u] = x],
         \A p \in Pages : transform'[p].pc = transform[p].pc
  PROVE  /\ update' \in [Updates -> HotUpdates] /\ Pc(u)' = x.pc
         /\ update'[u] = x /\ \A v \in Updates : v # u => update'[v] = update[v]
         /\ \A v \in Hooks \ {u} : Keeps(v)
<1>1. update \in [Updates -> HotUpdates] /\ u \notin Pages
  BY HooksApart DEF HooksAreTyped
<1>2. update'[u] = x /\ \A v \in Updates : v # u => update'[v] = update[v]
  BY <1>1
<1>3. \A v \in Hooks \ {u} : Keeps(v)
  BY <1>2, OthersKept
<1> QED BY <1>1, <1>2, <1>3 DEF Pc

\* The pages invalidated are marked where a transform is under way.
LEMMA InvalidatedPages ==
  ASSUME HooksAreTyped, ServerIsTyped, NEW ps, Invalidated(ps)
  PROVE  /\ transform' \in [Pages -> Transforms] /\ valid' \subseteq Pages
         /\ valid' = valid \ ps
         /\ \A p \in Pages : /\ transform'[p].pc = transform[p].pc
                             /\ At(p, "generate") => transform'[p].reply = transform[p].reply
                             /\ ~At(p, "idle") => /\ transform'[p].spoiled <=> transform[p].spoiled \/ p \in ps
                                                  /\ transform'[p].code = transform[p].code
<1> USE DEF Invalidated, At
<1>1. ASSUME NEW p \in Pages
      PROVE  /\ transform'[p] \in Transforms
             /\ transform'[p].pc = transform[p].pc
             /\ At(p, "generate") => transform'[p].reply = transform[p].reply
             /\ ~At(p, "idle") => /\ transform'[p].spoiled <=> transform[p].spoiled \/ p \in ps
                                  /\ transform'[p].code = transform[p].code
  <2>1. CASE transform[p] = Idle
    <3>1. transform[p].pc = "idle"
      BY <2>1 DEF Idle
    <3>2. transform'[p] = transform[p]
      BY <3>1
    <3> QED BY <2>1, <3>1, <3>2 DEF Transforms
  <2>2. CASE transform[p] # Idle /\ p \in ps
    <3>1. transform'[p] = [transform[p] EXCEPT !.spoiled = TRUE]
      BY <2>2, TransformTypes
    <3> QED BY <2>2, <3>1, TransformTypes DEF Transforms
  <2>3. CASE transform[p] # Idle /\ p \notin ps
    <3>1. transform'[p] = transform[p]
      BY <2>3
    <3> QED BY <2>3, <3>1, TransformTypes DEF Transforms
  <2> QED BY <2>1, <2>2, <2>3
<1>2. valid' = valid \ ps
  OBVIOUS
<1>3. transform' = [p \in Pages |-> transform'[p]]
  OBVIOUS
<1>4. transform' \in [Pages -> Transforms]
  BY <1>1, <1>3
<1> QED BY <1>1, <1>2, <1>4 DEF ServerIsTyped

-----------------------------------------------------------------------------
\* A step of a kind: what it does to the queues, and that types are kept.
Typed == FilesAreTyped /\ HooksAreTyped /\ ServerIsTyped

LEMMA QueueTypes ==
  ASSUME HooksAreTyped, \/ StaysPut \/ Executes \/ \E w : Starts(w) \/ Resumes(w)
  PROVE  requests' \in Seq(Requests) /\ replies' \in Seq(Replies)
<1>1. requests \in Seq(Requests) /\ replies \in Seq(Replies)
  BY DEF HooksAreTyped
<1>2. CASE StaysPut
  BY <1>1, <1>2 DEF StaysPut
<1>3. CASE Executes
  BY <1>1, <1>3, Queued DEF Executes
<1>4. ASSUME NEW w, Starts(w)
      PROVE  requests' \in Seq(Requests) /\ replies' \in Seq(Replies)
  BY <1>1, <1>4, Queued DEF Starts, Sends
<1>5. ASSUME NEW w, Resumes(w)
      PROVE  requests' \in Seq(Requests) /\ replies' \in Seq(Replies)
  BY <1>1, <1>5, Queued DEF Resumes, Answered, Sends
<1> QED BY <1>2, <1>3, <1>4, <1>5

LEMMA ExecuteStep ==
  ASSUME IInv, Execute
  PROVE  Executes /\ Typed'
<1> DEFINE r == Head(requests)
<1>1. /\ requests # <<>> /\ requests' = Tail(requests)
      /\ UNCHANGED <<disk, transform, update, plugin, server, counters>>
      /\ \/ ExecuteTransform(r) \/ ExecuteMissing(r) \/ ExecuteSetSources(r) \/ ExecuteGenerate(r)
  BY DEF Execute
<1>2. r \in Requests /\ r.who \in Hooks
  <2>1. r \in Requests
    BY <1>1 DEF IInv, HooksAreTyped
  <2> QED BY <2>1 DEF Requests
<1>3. r.op = "transform" => r.file \in Pages /\ r.file = r.who
  <2>1. 1 \in DOMAIN requests /\ requests[1] = Head(requests)
    BY <1>1 DEF IInv, HooksAreTyped
  <2> QED BY <2>1 DEF IInv, Owed, Own
<1> HIDE DEF r
<1>4. FilesAreTyped
  BY DEF IInv
<1>5. CASE ExecuteTransform(r)
  <2>1. /\ session.program[r.file] # Absent
        /\ session' = IF r.file \in Pages THEN Scanned(session, {r.file}) ELSE session
    BY <1>5 DEF ExecuteTransform
  <2>2. session' \in Sessions /\ Closed(session'.program) /\ Noted(session')
    BY <1>4, <2>1, SessionSteps DEF FilesAreTyped
  <2>3. \E x \in Replies : x.who = r.who /\ replies' = Append(replies, x)
    <3>1. CASE r.op = "transform"
      <4> DEFINE x == [who |-> r.who, body |-> TransformReply(session, r.file)]
      <4>1. x \in Replies
        BY <1>2, <1>3, <1>4, <2>1, <3>1, RewriteType DEF Replies
      <4> QED BY <1>5, <3>1, <4>1 DEF ExecuteTransform
    <3>2. CASE r.op # "transform"
      <4> DEFINE x == [who |-> r.who, body |-> [missing |-> FALSE,
                         sites |-> r.file \in Pages /\ session.program[r.file] # {}]]
      <4>1. x.body \in Scans
        BY DEF Scans
      <4>2. x \in Replies
        BY <1>2, <4>1 DEF Replies
      <4> QED BY <1>5, <3>2, <4>2 DEF ExecuteTransform
    <3> QED BY <3>1, <3>2
  <2>4. Executes
    BY <1>1, <2>3 DEF Executes, r
  <2> QED BY <1>1, <2>2, <2>4, QueueTypes
          DEF Typed, IInv, FilesAreTyped, HooksAreTyped, ServerIsTyped, plugin, server, counters
<1>6. CASE ExecuteMissing(r)
  <2> DEFINE x == [who |-> r.who, body |-> Missing]
  <2>1. x \in Replies
    BY <1>2 DEF Replies
  <2>2. session' = session /\ Executes
    BY <1>1, <1>6, <2>1 DEF ExecuteMissing, Executes, r
  <2> QED BY <1>1, <2>2, QueueTypes
          DEF Typed, IInv, FilesAreTyped, HooksAreTyped, ServerIsTyped, plugin, server, counters
<1>7. CASE ExecuteSetSources(r) \/ ExecuteGenerate(r)
  <2> DEFINE x == [who |-> r.who]
  <2>1. x \in Replies
    BY <1>2 DEF Replies
  <2>2. Executes
    BY <1>1, <1>7, <2>1 DEF ExecuteSetSources, ExecuteGenerate, Executes, r
  <2>3. session' \in Sessions /\ Closed(session'.program) /\ Noted(session')
    <3>1. CASE ExecuteSetSources(r)
      <4>1. r.sources \in Pushes
        BY <1>2, <3>1 DEF Requests, ExecuteSetSources
      <4> QED BY <1>4, <3>1, <4>1, SessionSteps DEF ExecuteSetSources
    <3>2. CASE ExecuteGenerate(r)
      BY <1>4, <3>2, SessionSteps DEF ExecuteGenerate, FilesAreTyped
    <3> QED BY <1>7, <3>1, <3>2
  <2> QED BY <1>1, <2>2, <2>3, QueueTypes
          DEF Typed, IInv, FilesAreTyped, HooksAreTyped, ServerIsTyped, plugin, server, counters
<1> QED BY <1>1, <1>5, <1>6, <1>7

\* The hook whose reply is the oldest awaits it, and the reply fits.
LEMMA ResumedBody ==
  ASSUME IInv, NEW w, Answered(w)
  PROVE  /\ w \in Hooks /\ Awaits(w)
         /\ Pc(w) = "transform" => Body \in {Missing} \union Rewrites
         /\ Pc(w) = "scanFiles" =>
              Body = Missing \/ (Body \in Scans /\ (Body.sites => update[w].file \in Pages))
<1>1. replies # <<>> /\ Head(replies).who = w /\ replies \in Seq(Replies)
  BY DEF Answered, IInv, HooksAreTyped
<1>2. 1 \in DOMAIN replies /\ replies[1] = Head(replies)
  BY <1>1
<1>3. Awaits(w) /\ BodyFits(Head(replies))
  BY <1>1, <1>2 DEF IInv, Owed, BodiesFit
<1> QED BY <1>1, <1>3 DEF BodyFits, Body, Awaits

LEMMA MissingIsMissing ==
  /\ Missing.missing = TRUE
  /\ \A b \in Rewrites \union Scans : b.missing = FALSE
BY DEF Missing, Rewrites, Scans

\* A step of one page's transform that only sends, if anything, and moves.
LEMMA PageStep ==
  ASSUME IInv, NEW p \in Pages, NEW x \in Transforms,
         transform' = [transform EXCEPT ![p] = x], update' = update,
         UNCHANGED <<disk, session, overlay, siteFiles, counters>>,
         \/ /\ Answered(p) /\ \/ x = Idle /\ requests' = requests
                              \/ \E r \in Requests : r.who = p /\ r.op = x.pc
                                   /\ (r.op = "transform" => r.file = p) /\ r.op # "scanFiles"
                                   /\ requests' = Append(requests, r)
         \/ /\ transform[p] = Idle /\ replies' = replies
            /\ \E r \in Requests : r.who = p /\ r.op = x.pc
                 /\ (r.op = "transform" => r.file = p) /\ r.op # "scanFiles"
                 /\ requests' = Append(requests, r)
  PROVE  (Starts(p) \/ Resumes(p)) /\ HooksAreTyped' /\ FilesAreTyped'
<1>1. HooksAreTyped /\ FilesAreTyped /\ p \in Hooks
  BY DEF IInv, Hooks
<1>2. /\ transform' \in [Pages -> Transforms] /\ Pc(p)' = x.pc
      /\ \A v \in Hooks \ {p} : Keeps(v)
  BY <1>1, PageMoves
<1>3. ASSUME NEW r \in Requests, r.who = p, r.op = x.pc, r.op = "transform" => r.file = p,
             r.op # "scanFiles", requests' = Append(requests, r)
      PROVE  Sends(p)
  <2>1. Own(r)'
    BY <1>2, <1>3 DEF Own
  <2> QED BY <1>3, <2>1 DEF Sends
<1>4. CASE transform[p] = Idle /\ replies' = replies
  <2>1. ~Awaits(p) /\ ~Answered(p)
    <3>1. ~Awaits(p)
      BY <1>1, <1>4, TransformTypes
    <3> QED BY <3>1, ResumedBody
  <2> QED BY <1>1, <1>2, <1>3, <1>4, <2>1, QueueTypes DEF Starts, HooksAreTyped, FilesAreTyped, counters
<1>5. CASE Answered(p)
  <2>1. x = Idle => Pc(p)' \notin Ops
    BY <1>2 DEF Idle, Ops
  <2>2. Resumes(p)
    <3>1. CASE x = Idle /\ requests' = requests
      BY <1>2, <1>5, <2>1, <3>1 DEF Resumes
    <3>2. CASE Sends(p)
      BY <1>2, <1>5, <3>2 DEF Resumes
    <3>3. transform[p] # Idle
      BY <1>1, <1>5, ResumedBody, TransformTypes
    <3> QED BY <1>3, <1>5, <3>1, <3>2, <3>3
  <2> QED BY <1>1, <1>2, <2>2, QueueTypes DEF HooksAreTyped, FilesAreTyped, counters
<1> QED BY <1>4, <1>5

LEMMA KeepTypes ==
  ASSUME IInv, NEW p \in Pages, NEW keys \in SUBSET (Fns \X Nodes), Keep(p, keys),
         siteFiles' = siteFiles, typeDeps' \in [Pages -> (SUBSET Decls) \union {Unknown}]
  PROVE  ServerIsTyped'
BY DEF Keep, IInv, ServerIsTyped

LEMMA IdleTransform == Idle \in Transforms /\ \A p \in Pages : [op |-> "generate", who |-> p] \in Requests
BY DEF Transforms, Requests, Hooks

LEMMA TransformRequest ==
  ASSUME NEW p \in Pages
  PROVE  [op |-> "transform", who |-> p, file |-> p] \in Requests
BY DEF Requests, Hooks, Files

LEMMA RequestStep ==
  ASSUME IInv, NEW p \in Pages, Request(p)
  PROVE  (Starts(p) \/ Resumes(p)) /\ Typed'
<1> DEFINE x == [pc |-> "transform", stage |-> IF Mode = "go" THEN "go" ELSE "first",
                 code |-> disk[p], gated |-> p \in siteFiles, reply |-> Missing, spoiled |-> FALSE]
           r == [op |-> "transform", who |-> p, file |-> p]
<1>1. /\ At(p, "idle") /\ transform' = [transform EXCEPT ![p] = x]
      /\ requests' = Append(requests, r)
      /\ UNCHANGED <<disk, session, replies, update, plugin, server, counters>>
  BY DEF Request, Ask
<1>2. disk[p] \in PageTexts
  BY DEF IInv, FilesAreTyped, Sources, TextsOf, Files
<1>3. x \in Transforms /\ x.pc = "transform"
  BY <1>2 DEF Transforms
<1>4. transform[p] = Idle
  BY <1>1, TransformTypes DEF At, IInv
<1>5. r \in Requests /\ r.who = p /\ r.op = "transform" /\ r.file = p
  BY TransformRequest
<1> HIDE DEF x, r
<1>6. ServerIsTyped'
  BY <1>1 DEF IInv, ServerIsTyped, plugin, server
<1> QED BY <1>1, <1>3, <1>4, <1>5, <1>6, PageStep DEF Typed, plugin

LEMMA SkipStep ==
  ASSUME IInv, NEW p \in Pages, Skip(p)
  PROVE  StaysPut /\ Typed'
<1>1. UNCHANGED <<disk, session, requests, replies, transform, update, plugin, counters>>
  BY DEF Skip
<1>2. \A v \in Hooks : Keeps(v)
  BY <1>1 DEF Keeps, Pc
<1>3. served' = [served EXCEPT ![p] = {}] /\ valid' = valid \union {p}
  BY DEF Skip
<1> QED BY <1>1, <1>2, <1>3
        DEF StaysPut, Typed, IInv, FilesAreTyped, HooksAreTyped, ServerIsTyped, plugin, counters

LEMMA MoveType ==
  ASSUME IInv, NEW p \in Pages, transform[p] # Idle, NEW pc \in {"transform", "setSources"},
         NEW stage \in {"go", "first", "second"}, MoveTo(p, pc, stage)
  PROVE  \E x \in Transforms : x.pc = pc /\ transform' = [transform EXCEPT ![p] = x]
<1> DEFINE x == [transform[p] EXCEPT !.pc = pc, !.stage = stage]
<1>1. x \in Transforms /\ x.pc = pc
  BY TransformTypes DEF Transforms, IInv
<1>2. transform' = [transform EXCEPT ![p] = x]
  BY DEF MoveTo
<1> QED BY <1>1, <1>2

LEMMA MissStep ==
  ASSUME IInv, NEW p \in Pages, Miss(p)
  PROVE  (Starts(p) \/ Resumes(p)) /\ Typed'
<1>1. /\ Answered(p) /\ transform[p] # Idle
      /\ UNCHANGED <<disk, session, update, plugin, counters>>
  BY ResumedBody, TransformTypes DEF Miss, IInv
<1>2. CASE transform[p].stage = "second"
  <2>1. /\ MoveTo(p, "transform", "go") /\ UNCHANGED server
        /\ requests' = Append(requests, [op |-> "transform", who |-> p, file |-> p])
    BY <1>2 DEF Miss, Ask
  <2>2. PICK x \in Transforms : x.pc = "transform" /\ transform' = [transform EXCEPT ![p] = x]
    BY <1>1, <2>1, MoveType
  <2>3. ServerIsTyped'
    BY <1>1, <2>1 DEF IInv, ServerIsTyped, plugin, server
  <2> QED BY <1>1, <2>1, <2>2, <2>3, TransformRequest, PageStep DEF Typed, plugin
<1>3. CASE transform[p].stage # "second"
  <2>1. requests' = requests /\ transform' = [transform EXCEPT ![p] = Idle]
    BY <1>3 DEF Miss, Keep
  <2>2. ServerIsTyped'
    <3>1. CASE transform[p].gated
      BY <1>1, <1>3, <3>1 DEF Miss, IInv, ServerIsTyped, plugin
    <3>2. CASE ~transform[p].gated
      BY <1>1, <1>3, <3>2, KeepTypes DEF Miss, IInv, ServerIsTyped, plugin
    <3> QED BY <3>1, <3>2
  <2> QED BY <1>1, <2>1, <2>2, IdleTransform, PageStep DEF Typed, plugin
<1> QED BY <1>2, <1>3

LEMMA AskModulesStep ==
  ASSUME IInv, NEW p \in Pages, AskModules(p)
  PROVE  (Starts(p) \/ Resumes(p)) /\ Typed' /\ transform'[p].reply = Body /\ Body \in Rewrites
<1> DEFINE x == [transform[p] EXCEPT !.pc = "generate", !.reply = Body]
<1>1. /\ Answered(p) /\ transform[p] # Idle /\ At(p, "transform") /\ ~Body.missing
      /\ transform' = [transform EXCEPT ![p] = x]
      /\ requests' = Append(requests, [op |-> "generate", who |-> p])
      /\ UNCHANGED <<disk, session, update, plugin, server, counters>>
  BY ResumedBody, TransformTypes DEF AskModules, Ask, IInv
<1>2. Body \in Rewrites
  BY <1>1, ResumedBody, TransformTypes, MissingIsMissing DEF At, IInv
<1>3. x \in Transforms /\ x.pc = "generate" /\ x.reply = Body
  BY <1>1, <1>2, TransformTypes DEF Transforms, IInv
<1> HIDE DEF x
<1>4. ServerIsTyped' /\ transform'[p] = x
  BY <1>1 DEF IInv, ServerIsTyped, HooksAreTyped, plugin, server
<1> QED BY <1>1, <1>2, <1>3, <1>4, IdleTransform, PageStep DEF Typed, plugin

LEMMA ResyncStep ==
  ASSUME IInv, NEW p \in Pages, Resync(p) \/ Resynced(p)
  PROVE  (Starts(p) \/ Resumes(p)) /\ Typed'
<1>1. /\ Answered(p) /\ transform[p] # Idle
      /\ UNCHANGED <<disk, session, update, plugin, server, counters>>
  BY ResumedBody, TransformTypes DEF Resync, Resynced, Ready, IInv
<1>2. ServerIsTyped'
  BY <1>1 DEF IInv, ServerIsTyped, plugin, server
<1>3. CASE Resync(p) /\ transform[p].stage = "first"
  <2> DEFINE sources == [f \in {p} |-> transform[p].code]
             r == [op |-> "setSources", who |-> p, sources |-> sources]
  <2>1. MoveTo(p, "setSources", "first") /\ requests' = Append(requests, r)
    BY <1>3 DEF Resync, Ask
  <2>2. transform[p].code \in PageTexts
    BY <1>1, TransformTypes DEF IInv
  <2>3. sources \in Pushes
    <3>1. /\ {p} \in SUBSET Files /\ sources = [f \in {p} |-> sources[f]]
          /\ \A f \in {p} : sources[f] \in TextsOf(f)
      BY <2>2 DEF Files, TextsOf
    <3> HIDE DEF sources
    <3> QED BY <3>1, PushesAreTexts
  <2> HIDE DEF sources
  <2>4. r \in Requests /\ r.who = p /\ r.op = "setSources"
    BY <2>3 DEF Requests, Hooks
  <2> HIDE DEF r
  <2>5. PICK x \in Transforms : x.pc = "setSources" /\ transform' = [transform EXCEPT ![p] = x]
    BY <1>1, <2>1, MoveType
  <2> QED BY <1>1, <1>2, <2>1, <2>4, <2>5, PageStep DEF Typed, plugin
<1>4. CASE Resynced(p) \/ transform[p].stage # "first"
  <2>1. /\ \E stage \in {"go", "second"} : MoveTo(p, "transform", stage)
        /\ requests' = Append(requests, [op |-> "transform", who |-> p, file |-> p])
    BY <1>4 DEF Resync, Resynced, Ask
  <2>2. PICK x \in Transforms : x.pc = "transform" /\ transform' = [transform EXCEPT ![p] = x]
    BY <1>1, <2>1, MoveType
  <2> QED BY <1>1, <1>2, <2>1, <2>2, TransformRequest, PageStep DEF Typed, plugin
<1> QED BY <1>3, <1>4

\* What a transform that is ready goes on with is a rewrite.
LEMMA InHandType ==
  ASSUME IInv, NEW p \in Pages, Ready(p)
  PROVE  InHand(p) \in Rewrites
<1>1. CASE At(p, "generate")
  BY <1>1 DEF InHand, IInv, BodiesFit
<1>2. CASE ~At(p, "generate")
  <2>1. Answered(p) /\ Pc(p) = "transform" /\ ~Body.missing
    BY <1>2, TransformTypes DEF Ready, At, IInv
  <2> QED BY <1>2, <2>1, ResumedBody, MissingIsMissing DEF InHand
<1> QED BY <1>1, <1>2

LEMMA ReturnStep ==
  ASSUME IInv, NEW p \in Pages, Return(p)
  PROVE  (Starts(p) \/ Resumes(p)) /\ Typed'
<1>1. /\ Answered(p) /\ Ready(p) /\ Keep(p, InHand(p).keys)
      /\ transform' = [transform EXCEPT ![p] = Idle]
      /\ UNCHANGED <<disk, session, requests, update, overlay, siteFiles, counters>>
  BY DEF Return, Ready, Keep
<1>2. InHand(p) \in Rewrites
  BY <1>1, InHandType
<1>3. InHand(p).keys \in SUBSET (Fns \X Nodes) /\ InHand(p).deps \in SUBSET Decls
  BY <1>2 DEF Rewrites
<1>4. typeDeps' \in [Pages -> (SUBSET Decls) \union {Unknown}]
  <2>1. typeDeps' = typeDeps \/ typeDeps' = [typeDeps EXCEPT ![p] = InHand(p).deps]
    BY DEF Return
  <2> QED BY <1>3, <2>1 DEF IInv, ServerIsTyped
<1>5. ServerIsTyped'
  BY <1>1, <1>3, <1>4, KeepTypes
<1> QED BY <1>1, <1>5, IdleTransform, PageStep DEF Typed

-----------------------------------------------------------------------------
\* A step of one update that moves it, and may mark transforms.
LEMMA UpdateStepKind ==
  ASSUME IInv, NEW u \in Updates, update[u] # None, NEW x \in HotUpdates,
         update' = [update EXCEPT ![u] = x], transform' \in [Pages -> Transforms],
         \A p \in Pages : transform'[p].pc = transform[p].pc,
         UNCHANGED <<disk, session, counters>>, overlay' \in Pushes,
         \/ /\ Answered(u)
            /\ \/ x = None /\ requests' = requests
               \/ \E r \in Requests : r.who = u /\ r.op = x.pc /\ r.op # "transform"
                    /\ (r.op = "scanFiles" => r.file = x.file) /\ requests' = Append(requests, r)
         \/ /\ update[u].pc = "read" /\ x.pc = "setSources" /\ replies' = replies
            /\ \E r \in Requests : r.who = u /\ r.op = "setSources" /\ requests' = Append(requests, r)
         \/ update[u].pc = "read" /\ x.pc = "read" /\ UNCHANGED <<requests, replies>>
  PROVE  (StaysPut \/ Starts(u) \/ Resumes(u)) /\ HooksAreTyped' /\ FilesAreTyped'
<1>1. HooksAreTyped /\ FilesAreTyped /\ u \in Hooks
  BY HooksApart DEF IInv
<1>2. /\ update' \in [Updates -> HotUpdates] /\ Pc(u)' = x.pc /\ update'[u] = x
      /\ \A v \in Updates : v # u => update'[v] = update[v]
      /\ \A v \in Hooks \ {u} : Keeps(v)
  BY <1>1, UpdateMoves
<1>3. u <= edits /\ edits' = edits
  BY <1>1 DEF HooksAreTyped, counters, Updates
<1>4. ASSUME NEW r \in Requests, r.who = u, r.op = x.pc, r.op # "transform",
             r.op = "scanFiles" => r.file = x.file, requests' = Append(requests, r)
      PROVE  Sends(u)
  <2>1. Own(r)'
    BY <1>2, <1>4 DEF Own
  <2> QED BY <1>4, <2>1 DEF Sends
<1>5. CASE update[u].pc = "read" /\ x.pc = "read" /\ UNCHANGED <<requests, replies>>
  <2>1. Keeps(u)
    BY <1>1, <1>2, <1>5, UpdateTypes DEF Keeps
  <2>2. StaysPut
    BY <1>2, <1>5, <2>1 DEF StaysPut
  <2> QED BY <1>1, <1>2, <1>3, <2>2, QueueTypes DEF HooksAreTyped, FilesAreTyped, counters
<1>6. CASE /\ update[u].pc = "read" /\ x.pc = "setSources" /\ replies' = replies
           /\ \E r \in Requests : r.who = u /\ r.op = "setSources" /\ requests' = Append(requests, r)
  <2>1. ~Awaits(u)
    BY <1>1, <1>6, UpdateTypes
  <2>2. Starts(u)
    BY <1>1, <1>2, <1>4, <1>6, <2>1 DEF Starts
  <2> QED BY <1>1, <1>2, <1>3, <2>2, QueueTypes DEF HooksAreTyped, FilesAreTyped, counters
<1>7. CASE /\ Answered(u)
           /\ \/ x = None /\ requests' = requests
              \/ \E r \in Requests : r.who = u /\ r.op = x.pc /\ r.op # "transform"
                   /\ (r.op = "scanFiles" => r.file = x.file) /\ requests' = Append(requests, r)
  <2>1. x = None => Pc(u)' \notin Ops
    BY <1>2 DEF None, Ops
  <2>2. Resumes(u)
    <3>1. CASE x = None /\ requests' = requests
      BY <1>2, <1>7, <2>1, <3>1 DEF Resumes
    <3>2. CASE Sends(u)
      BY <1>2, <1>7, <3>2 DEF Resumes
    <3> QED BY <1>4, <1>7, <3>1, <3>2
  <2> QED BY <1>1, <1>2, <1>3, <2>2, QueueTypes DEF HooksAreTyped, FilesAreTyped, counters
<1> QED BY <1>5, <1>6, <1>7

LEMMA EditStep ==
  ASSUME IInv, NEW f \in Files, Edit(f)
  PROVE  StaysPut /\ Typed'
<1> DEFINE x == [pc |-> "read", file |-> f, text |-> Absent]
<1>1. edits < MaxEdits /\ edits \in Nat /\ MaxEdits \in Nat /\ edits + 1 \in Updates
  BY PluginAssumption DEF IInv, HooksAreTyped, Updates, Edit
<1>2. PICK u \in Updates : u = edits + 1 /\ u > edits
  BY <1>1
<1>3. /\ edits' = edits + 1 /\ update' = [update EXCEPT ![u] = x]
      /\ Invalidated({f})
      /\ UNCHANGED <<session, requests, replies, plugin, respawns, served, failed, unresolved>>
  BY <1>2 DEF Edit
<1>4. HooksAreTyped /\ ServerIsTyped /\ update[u] = None
  BY <1>2 DEF IInv, HooksAreTyped
<1>5. x \in HotUpdates /\ x.pc = "read"
  BY DEF HotUpdates
<1> HIDE DEF x
<1>6. /\ transform' \in [Pages -> Transforms] /\ valid' \subseteq Pages
      /\ \A p \in Pages : transform'[p].pc = transform[p].pc
  BY <1>3, <1>4, InvalidatedPages
<1>7. /\ update' \in [Updates -> HotUpdates] /\ Pc(u)' = "read"
      /\ \A v \in Updates : v # u => update'[v] = update[v]
      /\ \A v \in Hooks \ {u} : Keeps(v)
  BY <1>3, <1>2, <1>4, <1>5, <1>6, UpdateMoves
<1>8. Keeps(u)
  BY <1>2, <1>4, <1>7, UpdateTypes DEF Keeps, Ops
<1>9. disk' \in Sources
  BY DEF Edit, IInv, FilesAreTyped, Sources, TextsOf, Texts
<1>10. edits' \in 0..MaxEdits /\ \A v \in Updates : v > edits' => v # u /\ v > edits
  BY <1>1, <1>3, <1>2 DEF Updates
<1> QED BY <1>3, <1>4, <1>6, <1>7, <1>8, <1>9, <1>10
        DEF StaysPut, Typed, IInv, FilesAreTyped, HooksAreTyped, ServerIsTyped, plugin

LEMMA RespawnStep ==
  ASSUME IInv, Respawn
  PROVE  StaysPut /\ Typed'
<1>1. /\ session' = Fresh(disk, session.tree)
      /\ UNCHANGED <<disk, requests, replies, transform, update, plugin, server, edits>>
  BY DEF Respawn
<1>2. session' \in Sessions /\ Closed(session'.program) /\ Noted(session')
  BY <1>1, SessionSteps DEF IInv
<1>3. \A v \in Hooks : Keeps(v)
  BY <1>1 DEF Keeps, Pc
<1> QED BY <1>1, <1>2, <1>3
        DEF StaysPut, Typed, IInv, FilesAreTyped, HooksAreTyped, ServerIsTyped, plugin, server

LEMMA ReadStep ==
  ASSUME IInv, NEW u \in Updates, Read(u)
  PROVE  (StaysPut \/ Starts(u) \/ Resumes(u)) /\ Typed'
<1> DEFINE x == [update[u] EXCEPT !.text = disk[update[u].file]]
<1>1. /\ update[u].pc = "read" /\ update' = [update EXCEPT ![u] = x]
      /\ UNCHANGED <<disk, session, requests, replies, transform, plugin, server, counters>>
  BY DEF Read
<1>2. HooksAreTyped /\ update[u] # None
  BY <1>1 DEF IInv, None
<1>3. \A f \in Files : disk[f] \in TextsOf(f) /\ disk[f] \in Texts
  BY DEF IInv, FilesAreTyped, Sources
<1>4. x \in HotUpdates /\ x.pc = "read"
  BY <1>1, <1>2, <1>3, UpdateTypes DEF HotUpdates
<1> HIDE DEF x
<1>5. transform' \in [Pages -> Transforms] /\ overlay' \in Pushes /\ ServerIsTyped'
  BY <1>1 DEF IInv, HooksAreTyped, FilesAreTyped, ServerIsTyped, plugin, server
<1>6. UNCHANGED <<disk, session, counters>> /\ \A p \in Pages : transform'[p].pc = transform[p].pc
  BY <1>1
<1> QED BY <1>1, <1>2, <1>4, <1>5, <1>6, UpdateStepKind DEF Typed

\* The overlay is seeded from what is on disk, and has a text put in.
LEMMA OverlayType ==
  ASSUME FilesAreTyped, NEW f \in Files, NEW text \in TextsOf(f),
         NEW seeded, seeded = IF overlay = NoSources THEN disk ELSE overlay
  PROVE  [seeded EXCEPT ![f] = text] \in Pushes
<1> DEFINE fs == DOMAIN seeded
           pushed == [seeded EXCEPT ![f] = text]
<1>1. fs \in SUBSET Files /\ seeded = [g \in fs |-> seeded[g]] /\ \A g \in fs : seeded[g] \in TextsOf(g)
  <2>1. disk = [g \in Files |-> disk[g]] /\ \A g \in Files : disk[g] \in TextsOf(g)
    BY DEF FilesAreTyped, Sources
  <2>2. DOMAIN overlay \in SUBSET Files /\ overlay = [g \in DOMAIN overlay |-> overlay[g]]
        /\ \A g \in DOMAIN overlay : overlay[g] \in TextsOf(g)
    BY DEF FilesAreTyped, Pushes
  <2> QED BY <2>1, <2>2
<1>2. pushed = [g \in fs |-> pushed[g]] /\ \A g \in fs : pushed[g] \in TextsOf(g)
  BY <1>1
<1> HIDE DEF pushed
<1>3. pushed \in Pushes
  BY <1>1, <1>2, PushesAreTexts
<1> QED BY <1>3 DEF pushed

LEMMA PushStep ==
  ASSUME IInv, NEW u \in Updates, Push(u)
  PROVE  (StaysPut \/ Starts(u) \/ Resumes(u)) /\ Typed'
<1> DEFINE f == update[u].file
           text == IF SlowReads THEN update[u].text ELSE disk[f]
           seeded == IF overlay = NoSources THEN disk ELSE overlay
           x == [update[u] EXCEPT !.pc = "setSources"]
           r == [op |-> "setSources", who |-> u, sources |-> overlay']
<1>1. /\ update[u].pc = "read" /\ (SlowReads => update[u].text # Absent)
      /\ overlay' = [seeded EXCEPT ![f] = text]
      /\ requests' = Append(requests, r)
      /\ update' = [update EXCEPT ![u] = x]
      /\ UNCHANGED <<disk, session, replies, transform, siteFiles, typeDeps, server, counters>>
  BY DEF Push, Ask
<1>2. HooksAreTyped /\ FilesAreTyped /\ update[u] # None
  BY <1>1 DEF IInv, None
<1>3. f \in Files /\ text \in TextsOf(f)
  BY <1>1, <1>2, UpdateTypes DEF FilesAreTyped, Sources
<1>4. overlay' \in Pushes
  BY <1>1, <1>2, <1>3, OverlayType
<1>5. x \in HotUpdates /\ x.pc = "setSources"
  BY <1>2, UpdateTypes DEF HotUpdates
<1>6. r \in Requests /\ r.who = u /\ r.op = "setSources"
  BY <1>4, HooksApart DEF Requests
<1> HIDE DEF x, r, text, seeded, f
<1>7. transform' \in [Pages -> Transforms] /\ ServerIsTyped'
  BY <1>1 DEF IInv, HooksAreTyped, ServerIsTyped, server
<1>8. UNCHANGED <<disk, session, counters>> /\ \A p \in Pages : transform'[p].pc = transform[p].pc
  BY <1>1
<1> QED BY <1>1, <1>2, <1>4, <1>5, <1>6, <1>7, <1>8, UpdateStepKind DEF Typed

\* The file enters the gate, or leaves it; only pages are ever in it.
LEMMA ScanStep ==
  ASSUME IInv, NEW u \in Updates, Scan(u) \/ Regenerate(u)
  PROVE  (StaysPut \/ Starts(u) \/ Resumes(u)) /\ Typed'
<1> DEFINE pc == IF Scan(u) THEN "scanFiles" ELSE "generate"
           x == [update[u] EXCEPT !.pc = pc]
           r == IF Scan(u) THEN [op |-> "scanFiles", who |-> u, file |-> update[u].file]
                ELSE [op |-> "generate", who |-> u]
<1>1. /\ Answered(u) /\ update[u].pc \in {"setSources", "scanFiles"}
      /\ update' = [update EXCEPT ![u] = x]
      /\ UNCHANGED <<disk, session, transform, overlay, typeDeps, server, counters>>
      /\ requests' = Append(requests, r)
  BY DEF Scan, Regenerate, Ask, plugin
<1>2. HooksAreTyped /\ FilesAreTyped /\ update[u] # None
  BY <1>1 DEF IInv, None
<1>3. siteFiles' \subseteq Pages
  <2>1. CASE Scan(u)
    BY <2>1 DEF Scan, plugin, IInv, ServerIsTyped
  <2>2. CASE Regenerate(u)
    <3>1. Pc(u) = "scanFiles" /\ ~Body.missing
      BY <1>2, <2>2, UpdateTypes DEF Regenerate
    <3>2. Body.sites => update[u].file \in Pages
      BY <1>1, <3>1, ResumedBody, MissingIsMissing
    <3> QED BY <2>2, <3>2 DEF Regenerate, IInv, ServerIsTyped
  <2> QED BY <2>1, <2>2
<1>4. x \in HotUpdates /\ x.pc = pc /\ x.file = update[u].file /\ pc \in {"scanFiles", "generate"}
  BY <1>2, UpdateTypes DEF HotUpdates
<1>5. r \in Requests /\ r.who = u /\ r.op = x.pc /\ r.op # "transform"
      /\ (r.op = "scanFiles" => r.file = x.file)
  BY <1>2, <1>4, UpdateTypes, HooksApart DEF Requests
<1> HIDE DEF x, r
<1>6. transform' \in [Pages -> Transforms] /\ overlay' \in Pushes /\ ServerIsTyped'
  BY <1>1, <1>3 DEF IInv, HooksAreTyped, FilesAreTyped, ServerIsTyped, server
<1>7. UNCHANGED <<disk, session, counters>> /\ \A p \in Pages : transform'[p].pc = transform[p].pc
  BY <1>1
<1> QED BY <1>1, <1>2, <1>4, <1>5, <1>6, <1>7, UpdateStepKind DEF Typed

LEMMA SettleStep ==
  ASSUME IInv, NEW u \in Updates, Settle(u)
  PROVE  (StaysPut \/ Starts(u) \/ Resumes(u)) /\ Typed'
<1>1. /\ Answered(u) /\ update[u].pc \in {"scanFiles", "generate"}
      /\ update' = [update EXCEPT ![u] = None]
      /\ \E ps : Invalidated(ps)
      /\ UNCHANGED <<disk, session, requests, plugin, counters, served, failed, unresolved>>
  BY DEF Settle
<1>2. HooksAreTyped /\ ServerIsTyped /\ update[u] # None
  BY <1>1 DEF IInv, None
<1>3. /\ transform' \in [Pages -> Transforms] /\ valid' \subseteq Pages
      /\ \A p \in Pages : transform'[p].pc = transform[p].pc
  BY <1>1, <1>2, InvalidatedPages
<1>4. None \in HotUpdates
  BY DEF HotUpdates
<1>5. overlay' \in Pushes /\ ServerIsTyped'
  BY <1>1, <1>3 DEF IInv, FilesAreTyped, ServerIsTyped, plugin
<1> QED BY <1>1, <1>2, <1>3, <1>4, <1>5, UpdateStepKind DEF Typed

-----------------------------------------------------------------------------
LEMMA StepKinds ==
  ASSUME IInv, Next
  PROVE  Typed' /\ (StaysPut \/ (Execute /\ Executes) \/ \E w : Starts(w) \/ Resumes(w))
<1>1. CASE Execute
  BY <1>1, ExecuteStep
<1>2. CASE Respawn \/ \E f \in Files : Edit(f)
  BY <1>2, RespawnStep, EditStep
<1>3. CASE \E p \in Pages : Fetch(p) \/ TransformStep(p)
  BY <1>3, RequestStep, SkipStep, MissStep, AskModulesStep, ResyncStep, ReturnStep
  DEF Fetch, TransformStep
<1>4. CASE \E u \in Updates : Read(u) \/ UpdateStep(u)
  BY <1>4, ReadStep, PushStep, ScanStep, SettleStep DEF UpdateStep
<1> QED BY <1>1, <1>2, <1>3, <1>4 DEF Next, System

LEMMA OwedStep ==
  ASSUME IInv, Next
  PROVE  Owed'
BY StepKinds, OwedStaysPut, OwedExecutes, OwedStarts, OwedResumes DEF IInv

\* The executed request's reply is what its hook's step expects.
LEMMA ExecutedFits ==
  ASSUME IInv, Execute
  PROVE  \E r \in Replies : BodyFits(r) /\ replies' = Append(replies, r)
<1> DEFINE q == Head(requests)
<1>1. /\ requests # <<>> /\ \/ ExecuteTransform(q) \/ ExecuteMissing(q)
                            \/ ExecuteSetSources(q) \/ ExecuteGenerate(q)
  BY DEF Execute
<1>2. q \in Requests /\ q.who \in Hooks /\ Own(q)
  <2>1. q \in Requests /\ 1 \in DOMAIN requests /\ requests[1] = q
    BY <1>1 DEF IInv, HooksAreTyped
  <2> QED BY <2>1 DEF Requests, IInv, Owed
<1> HIDE DEF q
<1>3. CASE ExecuteTransform(q) /\ q.op = "transform"
  <2> DEFINE r == [who |-> q.who, body |-> TransformReply(session, q.file)]
  <2>1. TransformReply(session, q.file) \in Rewrites
    BY <1>2, <1>3, RewriteType DEF ExecuteTransform, Own, IInv
  <2>2. r \in Replies /\ BodyFits(r)
    BY <1>2, <1>3, <2>1 DEF Replies, BodyFits, Own
  <2> QED BY <1>3, <2>2 DEF ExecuteTransform
<1>4. CASE ExecuteTransform(q) /\ q.op # "transform"
  <2> DEFINE b == [missing |-> FALSE, sites |-> q.file \in Pages /\ session.program[q.file] # {}]
             r == [who |-> q.who, body |-> b]
  <2>1. b \in Scans /\ (b.sites => q.file \in Pages)
    BY DEF Scans
  <2> HIDE DEF b
  <2>2. r \in Replies /\ BodyFits(r)
    BY <1>2, <1>4, <2>1 DEF Replies, BodyFits, Own, ExecuteTransform
  <2> QED BY <1>4, <2>2 DEF ExecuteTransform, b
<1>5. CASE ExecuteMissing(q)
  <2> DEFINE r == [who |-> q.who, body |-> Missing]
  <2>1. r \in Replies /\ BodyFits(r)
    BY <1>2 DEF Replies, BodyFits
  <2> QED BY <1>5, <2>1 DEF ExecuteMissing
<1>6. CASE ExecuteSetSources(q) \/ ExecuteGenerate(q)
  <2> DEFINE r == [who |-> q.who]
  <2>1. r \in Replies /\ BodyFits(r)
    BY <1>2, <1>6 DEF Replies, BodyFits, Own, ExecuteSetSources, ExecuteGenerate
  <2> QED BY <1>6, <2>1 DEF ExecuteSetSources, ExecuteGenerate
<1> QED BY <1>1, <1>3, <1>4, <1>5, <1>6

\* A transform whose modules are being generated has its rewrite in hand.
LEMMA InHandStep ==
  ASSUME IInv, Next, NEW p \in Pages, transform'[p].pc = "generate"
  PROVE  \/ AskModules(p)
         \/ At(p, "generate") /\ transform'[p].reply = transform[p].reply
<1>1. HooksAreTyped /\ ServerIsTyped /\ transform \in [Pages -> Transforms]
  BY DEF IInv, HooksAreTyped
<1>2. CASE UNCHANGED transform
  BY <1>2 DEF At
<1>3. ASSUME NEW ps, Invalidated(ps)
      PROVE  At(p, "generate") /\ transform'[p].reply = transform[p].reply
  BY <1>1, <1>3, InvalidatedPages DEF At
<1>4. ASSUME NEW q \in Pages, Fetch(q) \/ TransformStep(q)
      PROVE  \/ AskModules(p)
             \/ At(p, "generate") /\ transform'[p].reply = transform[p].reply
  <2>1. CASE Skip(q)
    BY <1>2, <2>1 DEF Skip
  <2>2. CASE AskModules(q)
    BY <1>1, <2>2 DEF AskModules, At
  <2>3. CASE Request(q) \/ Miss(q) \/ Resync(q) \/ Resynced(q) \/ Return(q)
    <3>1. p # q => transform'[p] = transform[p]
      BY <1>1, <2>3 DEF Request, Miss, Resync, Resynced, Return, Keep, MoveTo
    <3>2. transform'[q].pc # "generate"
      <4>1. CASE Request(q)
        BY <1>1, <4>1 DEF Request
      <4>2. CASE /\ Miss(q) \/ Resync(q) \/ Resynced(q)
                 /\ \E pc \in {"transform", "setSources"} :
                      \E stage \in {"go", "first", "second"} : MoveTo(q, pc, stage)
        <5>1. PICK pc \in {"transform", "setSources"} :
                     \E stage \in {"go", "first", "second"} : MoveTo(q, pc, stage)
          BY <4>2
        <5>2. transform[q] # Idle => \E x \in Transforms : x.pc = pc /\ transform' = [transform EXCEPT ![q] = x]
          BY <5>1, MoveType
        <5>3. transform[q] # Idle
          <6>1. Answered(q)
            BY <4>2 DEF Miss, Resync, Resynced, Ready
          <6> QED BY <1>1, <6>1, TransformTypes, ResumedBody
        <5> QED BY <1>1, <5>2, <5>3
      <4>3. CASE transform' = [transform EXCEPT ![q] = Idle]
        BY <1>1, <4>3 DEF Idle
      <4> QED BY <2>3, <4>1, <4>2, <4>3 DEF Miss, Resync, Resynced, Return, Keep
    <3> QED BY <3>1, <3>2 DEF At
  <2> QED BY <1>4, <2>1, <2>2, <2>3 DEF Fetch, TransformStep
<1> QED BY <1>2, <1>3, <1>4
        DEF Next, System, Execute, Respawn, Edit, Read, UpdateStep, Push, Scan, Regenerate, Settle

\* A reply that waits while its hook does still fits.
LEMMA FitsKept ==
  ASSUME HooksAreTyped, NEW r, r.who \in Hooks, BodyFits(r), Keeps(r.who)
  PROVE  BodyFits(r)'
<1>1. CASE r.who \in Pages
  <2>1. r.who \notin Updates /\ Pc(r.who) # "scanFiles"
    BY <1>1, HooksApart, TransformTypes
  <2> QED BY <2>1 DEF BodyFits, Keeps, Ops
<1>2. CASE r.who \in Updates
  BY <1>2 DEF BodyFits, Keeps, Ops
<1> QED BY <1>1, <1>2 DEF Hooks

\* A reply is the one just executed, or was there and its hook waits as it did.
LEMMA ReplyOrigin ==
  ASSUME IInv, Next, NEW i \in DOMAIN replies'
  PROVE  \/ /\ Execute
            /\ \A r : replies' = Append(replies, r) => replies'[i] = r
         \/ \E j \in DOMAIN replies, w \in Hooks :
              replies'[i] = replies[j] /\ replies[j].who = w /\ Keeps(w)
<1>1. replies \in Seq(Replies) /\ \A j \in DOMAIN replies : replies[j].who \in Hooks
  BY DEF IInv, HooksAreTyped, Owed, Awaits
<1>2. CASE StaysPut
  BY <1>1, <1>2 DEF StaysPut
<1>3. CASE Execute /\ Executes
  <2>1. \A v : Keeps(v)
    BY <1>3 DEF Executes, Keeps, Pc
  <2>2. PICK r \in Replies : replies' = Append(replies, r)
    BY <1>3 DEF Executes
  <2>3. CASE i \in DOMAIN replies
    BY <1>1, <2>1, <2>2, <2>3, Queued
  <2>4. CASE i = Len(replies) + 1
    BY <1>1, <1>3, <2>4
  <2> QED BY <1>1, <2>2, <2>3, <2>4, Queued
<1>4. ASSUME NEW w, Starts(w)
      PROVE  \E j \in DOMAIN replies, v \in Hooks :
               replies'[i] = replies[j] /\ replies[j].who = v /\ Keeps(v)
  <2>1. replies' = replies /\ replies[i].who \in Hooks \ {w}
    BY <1>4 DEF Starts, IInv, Owed, Awaits
  <2> QED BY <1>4, <2>1 DEF Starts
<1>5. ASSUME NEW w, Resumes(w)
      PROVE  \E j \in DOMAIN replies, v \in Hooks :
               replies'[i] = replies[j] /\ replies[j].who = v /\ Keeps(v)
  <2>1. /\ i + 1 \in DOMAIN replies /\ replies'[i] = replies[i + 1] /\ i + 1 # 1
        /\ 1 \in DOMAIN replies /\ replies[1].who = w
    BY <1>1, <1>5, Queued DEF Resumes, Answered
  <2>2. replies[i + 1].who \in Hooks \ {w}
    BY <2>1 DEF IInv, Owed, Awaits
  <2> QED BY <1>5, <2>1, <2>2 DEF Resumes
<1> QED BY <1>2, <1>3, <1>4, <1>5, StepKinds

LEMMA BodiesStep ==
  ASSUME IInv, Next
  PROVE  BodiesFit'
<1>1. HooksAreTyped
  BY DEF IInv
<1>2. ASSUME NEW r, BodyFits(r)', NEW i, r = replies'[i]
      PROVE  BodyFits(replies[i])'
  BY <1>2 DEF BodyFits, Pc
<1>3. ASSUME NEW i \in DOMAIN replies'
      PROVE  BodyFits(replies[i])'
  <2>1. CASE Execute /\ \A r : replies' = Append(replies, r) => replies'[i] = r
    <3>1. PICK r \in Replies : BodyFits(r) /\ replies' = Append(replies, r)
      BY <2>1, ExecutedFits
    <3>2. BodyFits(r)'
      BY <2>1, <3>1 DEF Execute, BodyFits, Pc
    <3> QED BY <1>2, <2>1, <3>1, <3>2
  <2>2. ASSUME NEW j \in DOMAIN replies, NEW w \in Hooks,
               replies'[i] = replies[j], replies[j].who = w, Keeps(w)
        PROVE  BodyFits(replies[i])'
    <3>1. PICK r : r = replies[j]
      OBVIOUS
    <3>2. r.who = w /\ BodyFits(r)
      BY <2>2, <3>1 DEF IInv, BodiesFit
    <3>3. BodyFits(r)'
      BY <1>1, <2>2, <3>2, FitsKept
    <3> QED BY <1>2, <2>2, <3>1, <3>3
  <2> QED BY <2>1, <2>2, ReplyOrigin
<1>4. ASSUME NEW p \in Pages, transform'[p].pc = "generate"
      PROVE  transform'[p].reply \in Rewrites
  <2>1. CASE AskModules(p)
    BY <2>1, AskModulesStep
  <2>2. CASE At(p, "generate") /\ transform'[p].reply = transform[p].reply
    BY <2>2 DEF IInv, BodiesFit
  <2> QED BY <1>4, <2>1, <2>2, InHandStep
<1> QED BY <1>3, <1>4 DEF BodiesFit, At

-----------------------------------------------------------------------------
LEMMA InitHolds ==
  ASSUME Init
  PROVE  IInv
<1>1. FilesAreTyped
  <2>1. disk \in Sources /\ disk \in Programs /\ Closed(disk)
    BY WholeIsClosed DEF Init
  <2>2. LET fresh == Fresh(disk, {})
        IN  fresh \in Sessions /\ Closed(fresh.program) /\ Noted(fresh)
    BY <2>1, FreshIsSound
  <2>3. session \in Sessions /\ Closed(session.program) /\ Noted(session)
    BY <2>2, GeneratedIsSound DEF Init
  <2>4. NoSources \in Pushes
    <3>1. {} \in SUBSET Files /\ NoSources = [f \in {} |-> NoSources[f]]
      BY DEF NoSources
    <3> HIDE DEF NoSources
    <3> QED BY <3>1, PushesAreTexts
  <2> QED BY <2>1, <2>3, <2>4 DEF FilesAreTyped, Init
<1>2. HooksAreTyped
  <2>1. Idle \in Transforms /\ None \in HotUpdates
    BY DEF Transforms, HotUpdates
  <2>2. edits \in 0..MaxEdits
    BY PluginAssumption DEF Init
  <2> QED BY <2>1, <2>2 DEF HooksAreTyped, Init
<1>3. ServerIsTyped
  <2>1. typeDeps \in [Pages -> (SUBSET Decls) \union {Unknown}]
    <3>1. typeDeps = [p \in Pages |-> Unknown]
      BY DEF Init
    <3> QED BY <3>1
  <2>2. served \in [Pages -> SUBSET (Fns \X Nodes)]
    <3>1. served = [p \in Pages |-> {}]
      BY DEF Init
    <3> QED BY <3>1
  <2> QED BY <2>1, <2>2 DEF Init, ServerIsTyped, SitesOf
<1>4. \A w : ~Awaits(w)
  <2>1. \A p \in Pages : transform[p].pc = "idle"
    BY DEF Init, Idle
  <2>2. \A u \in Updates : update[u].pc = "none"
    BY DEF Init, None
  <2> QED BY <2>1, <2>2 DEF Awaits, Hooks, Pc, Ops
<1>5. DOMAIN requests = {} /\ DOMAIN replies = {}
  BY DEF Init
<1>6. \A p \in Pages : ~At(p, "generate")
  BY DEF Init, Idle, At
<1> QED BY <1>1, <1>2, <1>3, <1>4, <1>5, <1>6 DEF IInv, Owed, BodiesFit

LEMMA StutterHolds ==
  ASSUME IInv, UNCHANGED vars
  PROVE  IInv'
<1> USE DEF vars, plugin, server, counters
<1>1. FilesAreTyped' /\ HooksAreTyped' /\ ServerIsTyped'
  BY DEF IInv, FilesAreTyped, HooksAreTyped, ServerIsTyped
<1>2. Owed'
  BY DEF IInv, Owed, Asked, Replied, Awaits, Own, Pc
<1>3. BodiesFit'
  BY DEF IInv, BodiesFit, BodyFits, At, Pc
<1> QED BY <1>1, <1>2, <1>3 DEF IInv

LEMMA Inductive ==
  ASSUME IInv, [Next]_vars
  PROVE  IInv'
BY StepKinds, OwedStep, BodiesStep, StutterHolds DEF IInv, Typed

\* In every state, the types are kept and each await is owed its one reply.
THEOREM InvariantHolds == Spec => []IInv
BY InitHolds, Inductive, PTL DEF Spec, Safety

\* Every variable of the plugin keeps its type, whatever interleaves.
THEOREM TypeCorrect == Spec => []TypeOK
<1>1. ASSUME IInv
      PROVE  TypeOK
  <2>1. \A p \in Pages : transform[p].pc \in {"idle", "transform", "generate", "setSources"}
    BY <1>1, TransformTypes DEF IInv
  <2>2. \A u \in Updates : update[u].pc \in {"none", "read", "setSources", "scanFiles", "generate"}
    BY <1>1, UpdateTypes DEF IInv
  <2>3. \A f \in DOMAIN overlay : f \in Files /\ overlay[f] \in TextsOf(f)
    BY <1>1 DEF IInv, FilesAreTyped, Pushes
  <2> QED BY <1>1, <2>1, <2>2, <2>3 DEF TypeOK, IInv, FilesAreTyped, ServerIsTyped
<1> QED BY <1>1, InvariantHolds, PTL

\* No hook waits for ever and no reply resumes another's await: the requests
\* sent and the replies queued are as many as the hooks that wait, one of each.
THEOREM AwaitsOwed == Spec => []AwaitsAreOwed
<1>1. ASSUME IInv
      PROVE  AwaitsAreOwed
  <2> DEFINE waiting == {p \in Pages : ~At(p, "idle")}
                          \union {u \in Updates : update[u].pc \notin {"none", "read"}}
             pending == requests \o replies
             n == Len(pending)
             who == [i \in 1..n |-> pending[i].who]
  <2>1. \A w : w \in waiting <=> Awaits(w)
    <3>1. \A p \in Pages : p \in waiting <=> Awaits(p)
      BY <1>1, TransformTypes, HooksApart DEF IInv, At
    <3>2. \A u \in Updates : u \in waiting <=> Awaits(u)
      BY <1>1, UpdateTypes, HooksApart DEF IInv
    <3> QED BY <3>1, <3>2 DEF Awaits, Hooks
  <2>2. requests \in Seq(Requests) /\ replies \in Seq(Replies)
    BY <1>1 DEF IInv, HooksAreTyped
  <2>3. /\ n = Len(requests) + Len(replies) /\ n \in Nat /\ DOMAIN pending = 1..n
        /\ \A i \in 1..n : \/ i \in DOMAIN requests /\ pending[i] = requests[i]
                           \/ /\ i - Len(requests) \in DOMAIN replies
                              /\ pending[i] = replies[i - Len(requests)]
        /\ \A i \in DOMAIN requests : i \in 1..n /\ pending[i] = requests[i]
        /\ \A i \in DOMAIN replies : /\ i + Len(requests) \in 1..n
                                     /\ pending[i + Len(requests)] = replies[i]
    BY <2>2
  <2> HIDE DEF pending, n, waiting
  <2>4. \A i \in 1..n : who[i] \in waiting
    BY <1>1, <2>1, <2>3 DEF IInv, Owed
  <2>5. \A i, j \in 1..n : who[i] = who[j] => i = j
    <3>1. \A i \in 1..n : i \in Int /\ Len(requests) \in Int
      BY <2>2
    <3> QED BY <1>1, <2>3, <3>1 DEF IInv, Owed
  <2>6. \A w \in waiting : \E i \in 1..n : who[i] = w
    <3>1. SUFFICES ASSUME NEW w \in waiting
                   PROVE  \E i \in 1..n : pending[i].who = w
      OBVIOUS
    <3>2. Asked(w) \/ Replied(w)
      BY <1>1, <2>1 DEF IInv, Owed, Awaits
    <3> QED BY <2>3, <3>2 DEF Asked, Replied
  <2>7. who \in Bijection(1..n, waiting)
    BY <2>4, <2>5, <2>6 DEF Bijection, Injection, Surjection, IsInjective
  <2>8. n = Cardinality(waiting)
    BY <2>3, <2>7, FS_CountingElements DEF ExistsBijection
  <2>9. waiting = {pending[i].who : i \in DOMAIN pending}
    BY <2>3, <2>4, <2>6
  <2> QED BY <2>8, <2>9 DEF AwaitsAreOwed, waiting, pending, n
<1> QED BY <1>1, InvariantHolds, PTL

-----------------------------------------------------------------------------
\* In go mode every push is of all the files, a transform asks once, and what
\* it or a scan asks about is in the program.
Whole ==
  /\ session.program \in Sources
  /\ overlay = NoSources \/ overlay \in Sources
  /\ \A i \in DOMAIN requests :
       requests[i].op = "setSources" => requests[i].who \in Updates /\ requests[i].sources \in Sources

AsksOnce ==
  /\ \A p \in Pages : At(p, "idle") \/ (transform[p].stage = "go" /\ ~At(p, "setSources"))
  /\ \A i \in DOMAIN replies :
       Pc(replies[i].who) \in {"transform", "scanFiles"} => ~replies[i].body.missing
  /\ PagesAreInProgram

GoInv == Whole /\ AsksOnce

LEMMA GoInit == Init => GoInv
<1> SUFFICES ASSUME Init PROVE GoInv
  OBVIOUS
<1>1. Fresh(disk, {}) \in Sessions /\ Fresh(disk, {}).program = disk /\ disk \in Sources
      /\ Closed(Fresh(disk, {}).program) /\ Noted(Fresh(disk, {}))
  <2>1. disk \in Sources
    BY DEF Init
  <2> QED BY <2>1, WholeIsClosed, FreshIsSound DEF Fresh
<1>2. session.program \in Sources
  BY <1>1, GeneratedIsSound DEF Init
<1>3. \A p \in Pages : At(p, "idle")
  BY DEF Init, Idle, At
<1>4. DOMAIN requests = {} /\ DOMAIN replies = {}
  BY DEF Init
<1> QED BY <1>2, <1>3, <1>4 DEF Init, GoInv, Whole, AsksOnce, PagesAreInProgram

\* A reply of a hook that resumes is of what its page or file has.
LEMMA GoBody ==
  ASSUME IInv, GoInv, NEW w, Answered(w), Pc(w) \in {"transform", "scanFiles"}
  PROVE  ~Body.missing
<1>1. 1 \in DOMAIN replies /\ replies[1] = Head(replies) /\ Head(replies).who = w
  BY Queued DEF Answered, IInv, HooksAreTyped
<1> QED BY <1>1 DEF GoInv, AsksOnce, Body

\* What a step may be, in go mode.
LEMMA GoActions ==
  ASSUME Mode = "go", IInv, GoInv, Next
  PROVE  \/ Execute \/ Respawn \/ \E f \in Files : Edit(f)
         \/ \E p \in Pages : Request(p) \/ Skip(p) \/ AskModules(p) \/ Return(p)
         \/ \E u \in Updates : \/ Read(u) \/ Push(u) \/ Scan(u) \/ Regenerate(u)
                               \/ Settle(u) /\ update[u].pc = "generate"
<1>1. ASSUME NEW p \in Pages
      PROVE  ~Miss(p) /\ ~Resync(p) /\ ~Resynced(p)
  <2>1. ~Miss(p)
    BY GoBody, TransformTypes DEF Miss, At, IInv
  <2>2. Ready(p) => ~Drifted(p)
    BY DEF Ready, Drifted, GoInv, AsksOnce, At
  <2>3. ~At(p, "setSources")
    BY DEF GoInv, AsksOnce, At
  <2> QED BY <2>1, <2>2, <2>3 DEF Resync, Resynced
<1>2. ASSUME NEW u \in Updates, Settle(u)
      PROVE  update[u].pc = "generate"
  BY <1>2, GoBody, UpdateTypes DEF Settle, IInv
<1> QED BY <1>1, <1>2 DEF Next, System, Fetch, TransformStep, UpdateStep

\* Executing a request, in go mode.
LEMMA GoExecuted ==
  ASSUME IInv, GoInv, Execute
  PROVE  LET r == Head(requests)
         IN  /\ 1 \in DOMAIN requests /\ requests[1] = r /\ requests' = Tail(requests)
             /\ r \in Requests /\ Own(r) /\ Awaits(r.who)
             /\ UNCHANGED <<disk, transform, update, plugin, server, counters>>
             /\ r.op = "transform" => ExecuteTransform(r) /\ r.file \in Pages /\ r.file = r.who
             /\ r.op = "scanFiles" => ExecuteTransform(r) /\ r.file \in Files
             /\ r.op = "setSources" =>
                  /\ r.who \in Updates /\ r.sources \in Sources
                  /\ session' = Swap(session, r.sources)
                  /\ replies' = Append(replies, [who |-> r.who])
             /\ r.op = "generate" => ExecuteGenerate(r)
<1> DEFINE r == Head(requests)
<1>1. /\ requests # <<>> /\ requests' = Tail(requests)
      /\ UNCHANGED <<disk, transform, update, plugin, server, counters>>
      /\ \/ ExecuteTransform(r) \/ ExecuteMissing(r) \/ ExecuteSetSources(r) \/ ExecuteGenerate(r)
  BY DEF Execute
<1>2. 1 \in DOMAIN requests /\ requests[1] = r /\ r \in Requests
  BY <1>1 DEF IInv, HooksAreTyped
<1>3. Own(r) /\ Awaits(r.who) /\ (r.op = "setSources" => r.who \in Updates /\ r.sources \in Sources)
  BY <1>2 DEF IInv, Owed, GoInv, Whole
<1> HIDE DEF r
<1>4. r.op \in Ops /\ (r.op \in {"transform", "scanFiles"} => r.file \in Files)
  BY <1>2 DEF Requests, Ops
<1>5. ~ExecuteMissing(r)
  <2>1. \A f \in Files : session.program[f] # Absent
    BY ProgramAssumption DEF GoInv, Whole, Sources, Texts
  <2> QED BY <1>4, <2>1 DEF ExecuteMissing
<1>6. r.op = "transform" => r.file \in Pages /\ r.file = r.who
  BY <1>3 DEF Own
<1>7. r.op = "setSources" => Loaded(r.sources, disk) = r.sources
  BY <1>3, LoadedWhole
<1>8. /\ r.op \in {"transform", "scanFiles"} => ExecuteTransform(r)
      /\ r.op = "setSources" => ExecuteSetSources(r)
      /\ r.op = "generate" => ExecuteGenerate(r)
  BY <1>1, <1>4, <1>5 DEF ExecuteTransform, ExecuteSetSources, ExecuteGenerate
<1> QED BY <1>1, <1>2, <1>3, <1>4, <1>6, <1>7, <1>8 DEF ExecuteSetSources, r

\* A request that waits was there before, or was just sent.
LEMMA RequestOrigin ==
  ASSUME IInv, Next, NEW i \in DOMAIN requests'
  PROVE  \/ \E j \in DOMAIN requests : requests'[i] = requests[j]
         \/ \A r : requests' = Append(requests, r) => requests'[i] = r
<1>1. requests \in Seq(Requests)
  BY DEF IInv, HooksAreTyped
<1>2. CASE requests' = requests
  BY <1>2
<1>3. CASE requests # <<>> /\ requests' = Tail(requests)
  BY <1>1, <1>3, Queued
<1>4. ASSUME NEW r \in Requests, requests' = Append(requests, r)
      PROVE  \/ \E j \in DOMAIN requests : requests'[i] = requests[j]
             \/ \A q : requests' = Append(requests, q) => requests'[i] = q
  <2>1. CASE i \in DOMAIN requests
    BY <1>1, <1>4, <2>1, Queued
  <2>2. CASE i = Len(requests) + 1
    BY <1>1, <2>2
  <2> QED BY <1>1, <1>4, <2>1, <2>2, Queued
<1> QED BY <1>2, <1>3, <1>4, StepKinds DEF StaysPut, Executes, Starts, Resumes, Sends

LEMMA GoPrograms ==
  ASSUME Mode = "go", IInv, GoInv, Next
  PROVE  Whole'
<1>1. FilesAreTyped /\ disk \in Sources /\ session.program \in Sources
  BY DEF IInv, FilesAreTyped, GoInv, Whole
<1>2. session'.program \in Sources
  <2>1. CASE Execute
    <3> DEFINE r == Head(requests)
    <3>1. r \in Requests
      BY <2>1, GoExecuted
    <3>2. CASE r.op \in {"transform", "scanFiles"}
      <4>1. session' = session \/ \E p \in Pages : /\ session.program[p] # Absent
                                                   /\ session' = Scanned(session, {p})
        BY <2>1, <3>2, GoExecuted DEF ExecuteTransform
      <4> QED BY <1>1, <4>1, SessionSteps
    <3>3. CASE r.op = "setSources"
      <4>1. session' = Swap(session, r.sources) /\ r.sources \in Sources
        BY <2>1, <3>3, GoExecuted
      <4>2. session'.program = r.sources
        BY <1>1, <4>1 DEF Swap, FilesAreTyped, Sessions
      <4> QED BY <4>1, <4>2
    <3>4. CASE r.op = "generate"
      BY <1>1, <2>1, <3>4, GoExecuted, SessionSteps DEF ExecuteGenerate
    <3> QED BY <3>1, <3>2, <3>3, <3>4 DEF Requests
  <2>2. CASE Respawn
    BY <1>1, <2>2 DEF Respawn, Fresh
  <2>3. CASE session' = session
    BY <1>1, <2>3
  <2> QED BY <2>1, <2>2, <2>3, GoActions
          DEF Edit, Request, Skip, AskModules, Return, Read, Push, Scan, Regenerate, Settle
<1>3. ASSUME NEW u \in Updates, Push(u)
      PROVE  overlay' \in Sources /\ requests' = Append(requests, [op |-> "setSources", who |-> u,
                                                                 sources |-> overlay'])
  <2> DEFINE f == update[u].file
             text == IF SlowReads THEN update[u].text ELSE disk[f]
             seeded == IF overlay = NoSources THEN disk ELSE overlay
  <2>1. /\ update[u].pc = "read" /\ (SlowReads => update[u].text # Absent)
        /\ overlay' = [seeded EXCEPT ![f] = text]
        /\ requests' = Append(requests, [op |-> "setSources", who |-> u, sources |-> overlay'])
    BY <1>3 DEF Push, Ask
  <2>2. f \in Files /\ text \in TextsOf(f)
    BY <1>1, <2>1, UpdateTypes DEF IInv, None, Sources
  <2>3. seeded \in Sources /\ text \in Texts
    BY <1>1, <2>2 DEF GoInv, Whole, TextsOf, Texts
  <2> HIDE DEF seeded, text, f
  <2>4. [seeded EXCEPT ![f] = text] \in Sources
    BY <2>2, <2>3 DEF Sources
  <2> QED BY <2>1, <2>4
<1>4. (overlay = NoSources \/ overlay \in Sources)'
  <2>1. CASE overlay' = overlay
    BY <2>1 DEF GoInv, Whole
  <2> QED BY <1>3, <2>1, GoActions
          DEF Execute, Respawn, Edit, Request, Skip, AskModules, Return, Read, Scan, Regenerate,
              Settle, plugin
<1>5. ASSUME NEW i \in DOMAIN requests', requests'[i].op = "setSources"
      PROVE  requests'[i].who \in Updates /\ requests'[i].sources \in Sources
  <2>1. CASE \E j \in DOMAIN requests : requests'[i] = requests[j]
    BY <1>5, <2>1 DEF GoInv, Whole
  <2>2. CASE \A r : requests' = Append(requests, r) => requests'[i] = r
    <3>1. ASSUME NEW u \in Updates, Push(u)
          PROVE  requests'[i].who \in Updates /\ requests'[i].sources \in Sources
      <4> DEFINE r == [op |-> "setSources", who |-> u, sources |-> overlay']
      <4>1. requests'[i] = r
        BY <1>3, <2>2, <3>1
      <4> QED BY <1>3, <3>1, <4>1
    <3>2. CASE \E r : requests' = Append(requests, r) /\ r.op # "setSources"
      BY <1>5, <2>2, <3>2
    <3>3. CASE requests' = requests
      BY <1>5, <3>3 DEF GoInv, Whole
    <3>4. CASE Execute
      <4>1. requests' = Tail(requests) /\ requests # <<>> /\ requests \in Seq(Requests)
        BY <3>4 DEF Execute, IInv, HooksAreTyped
      <4>2. \E j \in DOMAIN requests : requests'[i] = requests[j]
        BY <4>1, Queued
      <4> QED BY <2>1, <4>2
    <3>5. ASSUME NEW p \in Pages, Request(p) \/ AskModules(p)
          PROVE  \E r : requests' = Append(requests, r) /\ r.op # "setSources"
      BY <3>5 DEF Request, AskModules, Ask
    <3>6. ASSUME NEW u \in Updates, Scan(u) \/ Regenerate(u)
          PROVE  \E r : requests' = Append(requests, r) /\ r.op # "setSources"
      BY <3>6 DEF Scan, Regenerate, Ask
    <3> QED BY <3>1, <3>2, <3>3, <3>4, <3>5, <3>6, GoActions
            DEF Respawn, Edit, Skip, Return, Read, Settle
  <2> QED BY <2>1, <2>2, RequestOrigin
<1> QED BY <1>2, <1>4, <1>5 DEF Whole

LEMMA GoAsks ==
  ASSUME Mode = "go", IInv, GoInv, Next
  PROVE  AsksOnce'
<1>1. /\ HooksAreTyped /\ transform \in [Pages -> Transforms]
      /\ \A p \in Pages : At(p, "idle") \/ (transform[p].stage = "go" /\ ~At(p, "setSources"))
  BY DEF IInv, HooksAreTyped, GoInv, AsksOnce
<1>2. PagesAreInProgram'
  <2>1. failed' = failed
    BY GoActions
    DEF Execute, Respawn, Edit, Request, Skip, AskModules, Return, Keep, Read, Push, Scan,
        Regenerate, Settle, server
  <2> QED BY <2>1 DEF GoInv, AsksOnce, PagesAreInProgram
<1>3. ASSUME NEW p \in Pages
      PROVE  (At(p, "idle") \/ (transform[p].stage = "go" /\ ~At(p, "setSources")))'
  <2>1. CASE UNCHANGED transform
    BY <1>1, <2>1 DEF At
  <2>2. ASSUME NEW ps, Invalidated(ps)
        PROVE  transform'[p].pc = transform[p].pc /\ (~At(p, "idle") => transform'[p].stage = transform[p].stage)
    <3>1. transform'[p] = IF p \in ps /\ ~At(p, "idle") THEN [transform[p] EXCEPT !.spoiled = TRUE]
                          ELSE transform[p]
      BY <2>2 DEF Invalidated
    <3> QED BY <1>1, <3>1, TransformTypes DEF At
  <2>3. ASSUME NEW q \in Pages, Request(q) \/ AskModules(q) \/ Return(q)
        PROVE  (At(p, "idle") \/ (transform[p].stage = "go" /\ ~At(p, "setSources")))'
    <3>1. CASE q # p
      <4>1. transform'[p] = transform[p]
        BY <1>1, <2>3, <3>1 DEF Request, AskModules, Return, Keep
      <4> QED BY <1>1, <4>1 DEF At
    <3>2. CASE q = p /\ Request(q)
      BY <1>1, <3>2 DEF Request, At
    <3>3. CASE q = p /\ AskModules(q)
      <4>1. transform' = [transform EXCEPT ![p].pc = "generate", ![p].reply = Body] /\ At(p, "transform")
        BY <3>3 DEF AskModules
      <4>2. transform[p] # Idle /\ transform[p].stage = "go"
        BY <1>1, <4>1, TransformTypes DEF At
      <4> QED BY <1>1, <4>1, <4>2, TransformTypes DEF At
    <3>4. CASE q = p /\ Return(q)
      BY <1>1, <3>4 DEF Return, Keep, At, Idle
    <3> QED BY <2>3, <3>1, <3>2, <3>3, <3>4
  <2>4. ASSUME NEW ps, Invalidated(ps)
        PROVE  (At(p, "idle") \/ (transform[p].stage = "go" /\ ~At(p, "setSources")))'
    BY <1>1, <2>2, <2>4 DEF At
  <2> QED BY <2>1, <2>3, <2>4, GoActions
          DEF Execute, Respawn, Edit, Skip, Read, Push, Scan, Regenerate, Settle
<1>4. ASSUME NEW i \in DOMAIN replies', NEW w, w = replies'[i].who,
             Pc(w)' \in {"transform", "scanFiles"}
      PROVE  ~replies'[i].body.missing
  <2>1. CASE Execute /\ \A r : replies' = Append(replies, r) => replies'[i] = r
    <3>1. PICK r : r = Head(requests)
      OBVIOUS
    <3>2. Own(r) /\ r \in Requests /\ UNCHANGED <<transform, update>>
      BY <2>1, <3>1, GoExecuted
    <3>3. CASE r.op \in {"transform", "scanFiles"}
      <4>1. ExecuteTransform(r)
        BY <2>1, <3>1, <3>3, GoExecuted
      <4>2. \E b : b.missing = FALSE /\ replies' = Append(replies, [who |-> r.who, body |-> b])
        BY <4>1 DEF ExecuteTransform, TransformReply
      <4> QED BY <2>1, <4>2
    <3>4. CASE r.op \in {"setSources", "generate"}
      <4>1. replies' = Append(replies, [who |-> r.who])
        BY <2>1, <3>1, <3>4, GoExecuted DEF ExecuteGenerate
      <4>2. w = r.who
        BY <1>4, <2>1, <4>1
      <4>3. Pc(w)' = Pc(w) /\ Pc(w) = r.op
        BY <3>2, <4>2 DEF Pc, Own
      <4> QED BY <1>4, <3>4, <4>3
    <3> QED BY <3>2, <3>3, <3>4 DEF Requests
  <2>2. ASSUME NEW j \in DOMAIN replies, replies'[i] = replies[j], replies[j].who = w, Keeps(w)
        PROVE  ~replies'[i].body.missing
    <3>1. Pc(w) \in {"transform", "scanFiles"}
      BY <1>4, <2>2 DEF Keeps, Ops
    <3> QED BY <2>2, <3>1 DEF GoInv, AsksOnce
  <2> QED BY <1>4, <2>1, <2>2, ReplyOrigin
<1>5. ASSUME NEW i \in DOMAIN replies', Pc(replies[i].who)' \in {"transform", "scanFiles"}
      PROVE  ~replies'[i].body.missing
  <2>1. PICK w : w = replies'[i].who
    OBVIOUS
  <2>2. Pc(w)' \in {"transform", "scanFiles"}
    BY <1>5, <2>1 DEF Pc
  <2> QED BY <1>4, <2>1, <2>2
<1> QED BY <1>2, <1>3, <1>5 DEF AsksOnce

LEMMA GoHolds ==
  ASSUME Mode = "go"
  PROVE  Spec => [](IInv /\ GoInv)
<1>1. ASSUME IInv, GoInv, [Next]_vars
      PROVE  GoInv'
  <2>1. CASE Next
    BY <1>1, <2>1, GoPrograms, GoAsks DEF GoInv
  <2>2. CASE UNCHANGED vars
    <3> USE <2>2 DEF vars, plugin, server
    <3>1. Whole'
      BY <1>1 DEF GoInv, Whole
    <3>2. AsksOnce'
      BY <1>1 DEF GoInv, AsksOnce, At, Pc, PagesAreInProgram
    <3> QED BY <3>1, <3>2 DEF GoInv
  <2> QED BY <1>1, <2>1, <2>2
<1> QED BY <1>1, InitHolds, GoInit, Inductive, PTL DEF Spec, Safety

\* unplugin.ts:769-774: in go mode no transform of a page ever throws for want
\* of its file, whatever is edited and whenever the child is lost.
THEOREM GoNeverBreaks == Spec => []PagesAreInProgram
<1>1. CASE Mode = "go"
  <2>1. GoInv => PagesAreInProgram
    BY DEF GoInv, AsksOnce
  <2> QED BY <1>1, <2>1, GoHolds, PTL
<1>2. CASE Mode # "go"
  <2>1. PagesAreInProgram
    BY <1>2 DEF PagesAreInProgram
  <2> QED BY <2>1, PTL
<1> QED BY <1>1, <1>2
=============================================================================
