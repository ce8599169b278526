-------------------------- MODULE NextBrokerProofs --------------------------
(***************************************************************************)
(* Proofs about NextBroker, for any files, texts, references and number of *)
(* edits: the state keeps its type, no edit is lost, the rewrites that     *)
(* Turbopack keeps have modules to import (QuietIsWhole) and are of the    *)
(* present types (TypesReachPages).                                        *)
(*                                                                         *)
(* Beyond NoEditIsLost the first invariant says where the program comes    *)
(* from: it is whole, it is the overlay once that was seeded, and a text   *)
(* that was read is the file's present text or the file is yet to be read  *)
(* again.                                                                  *)
(***************************************************************************)
EXTENDS NextBroker, ResolverProgramProofs

\* A file that will be read after the batch being absorbed.
ReadLater(f) == f \in dirty \/ \E i \in DOMAIN batches : i > 1 /\ f \in batches[i]

Queues ==
  /\ dirty \in SUBSET Files
  /\ batches \in Seq(SUBSET Files)
  /\ work # Idle => batches # <<>>

SessionIsWhole ==
  /\ session \in Sessions
  /\ Noted(session)
  /\ session.program \in Sources

OverlayIsProgram == overlay = NoSources \/ overlay = session.program

ReadIsCurrent ==
  work.pc = "read" =>
    /\ work.texts \in [Batch -> Texts]
    /\ \A f \in Batch : /\ work.texts[f] \in TextsOf(f)
                        /\ work.texts[f] = disk[f] \/ ReadLater(f)

CallsAreOfPages ==
  /\ chain \in Seq([page : Pages, code : PageTexts])
  /\ serving # Idle => "page" \in DOMAIN serving /\ serving.page \in Pages

Gates ==
  /\ phase \in {"starting", "ready", "failed"}
  /\ siteFiles \subseteq Pages
  /\ stamp \in (SUBSET (Fns \X Nodes)) \union {Unwritten}
  /\ valid \subseteq Pages

Edits ==
  /\ disk \in Sources
  /\ Queues /\ SessionIsWhole /\ OverlayIsProgram /\ ReadIsCurrent
  /\ NoEditIsLost

IInv == Edits /\ CallsAreOfPages /\ Gates

-----------------------------------------------------------------------------
LEMMA IdleIsIdle == Idle.pc = "idle"
BY DEF Idle

LEMMA SwapWhole ==
  ASSUME SessionIsWhole, NEW sources \in Sources
  PROVE  /\ Swap(session, sources) \in Sessions
         /\ Noted(Swap(session, sources))
         /\ Swap(session, sources).program = sources
<1>1. Swap(session, sources).program = sources
  BY DEF Swap, SessionIsWhole, Sessions
<1> QED BY <1>1, SwapIsSound, SourcesHaveAllPages DEF SessionIsWhole

LEMMA ScannedWhole ==
  ASSUME SessionIsWhole, NEW ps \in SUBSET Pages
  PROVE  /\ Scanned(session, ps) \in Sessions
         /\ Noted(Scanned(session, ps))
         /\ Scanned(session, ps).program = session.program
BY ScannedKeeps, SourcesHaveAllPages DEF SessionIsWhole

LEMMA GeneratedWhole ==
  ASSUME SessionIsWhole
  PROVE  /\ Generated(session) \in Sessions
         /\ Noted(Generated(session))
         /\ Generated(session).program = session.program
BY GeneratedIsSound, SourcesHaveAllPages DEF SessionIsWhole

LEMMA InitHolds == Init => IInv
<1> SUFFICES ASSUME Init PROVE IInv
  OBVIOUS
<1>1. disk \in Sources /\ session = Fresh(disk, {})
  BY BrokerAssumption DEF Init
<1>2. SessionIsWhole
  BY <1>1, FreshIsSound, SourcesHaveAllPages DEF SessionIsWhole, Fresh
<1>3. session.program = disk
  BY <1>1 DEF Fresh
<1>4. Queues /\ OverlayIsProgram
  BY DEF Init, Queues, OverlayIsProgram
<1>5. ReadIsCurrent
  BY IdleIsIdle DEF Init, ReadIsCurrent
<1>6. Gates
  <2>1. siteFiles = {} /\ valid = {} /\ stamp = Unwritten /\ phase = "starting"
    BY DEF Init
  <2> QED BY <2>1 DEF Gates
<1>7. CallsAreOfPages
  <2>1. chain = <<>> /\ serving = Idle
    BY DEF Init
  <2> QED BY <2>1 DEF CallsAreOfPages
<1> QED BY <1>1, <1>2, <1>3, <1>4, <1>5, <1>6, <1>7 DEF IInv, Edits, NoEditIsLost

-----------------------------------------------------------------------------
\* A step that leaves the files, the queues and the program alone.
LEMMA EditsKept ==
  ASSUME Edits, UNCHANGED <<disk, overlay, dirty, batches, work>>,
         session' \in Sessions, Noted(session'), session'.program = session.program
  PROVE  Edits'
BY DEF Edits, Queues, SessionIsWhole, OverlayIsProgram, ReadIsCurrent, NoEditIsLost,
       ReadLater, Batch

LEMMA EditKeeps ==
  ASSUME Edits, NEW f \in Files, Edit(f)
  PROVE  Edits'
<1>1. PICK text \in TextsOf(f) : disk' = [disk EXCEPT ![f] = text]
  BY DEF Edit
<1>2. dirty' = dirty \union {f} /\ UNCHANGED <<session, overlay, batches, work>>
  BY DEF Edit, absorbing
<1>3. disk' \in Sources
  BY <1>1 DEF Edits, Sources, TextsOf, Texts
<1>4. \A g \in Files : g # f => disk'[g] = disk[g]
  BY <1>1 DEF Edits, Sources
<1>5. Queues' /\ SessionIsWhole' /\ OverlayIsProgram'
  BY <1>2 DEF Edits, Queues, SessionIsWhole, OverlayIsProgram
<1>6. \A g \in Files : ReadLater(g) => ReadLater(g)'
  BY <1>2 DEF ReadLater
<1>7. ReadLater(f)'
  BY <1>2 DEF ReadLater
<1>8. ReadIsCurrent'
  <2>1. SUFFICES ASSUME work.pc = "read"
                 PROVE  \A g \in Batch : g \in Files /\ (work.texts[g] = disk'[g] \/ ReadLater(g)')
    BY <1>2 DEF Edits, ReadIsCurrent, Batch
  <2>2. work # Idle
    BY <2>1, IdleIsIdle
  <2>3. Batch \subseteq Files
    BY <2>2 DEF Edits, Queues, Batch
  <2> QED BY <1>4, <1>6, <1>7, <2>1, <2>3 DEF Edits, ReadIsCurrent
<1>9. NoEditIsLost'
  BY <1>2, <1>4 DEF Edits, NoEditIsLost
<1> QED BY <1>3, <1>5, <1>8, <1>9 DEF Edits

LEMMA FlushKeeps ==
  ASSUME Edits, Flush
  PROVE  Edits'
<1>1. /\ batches' = Append(batches, dirty) /\ dirty' = {}
      /\ UNCHANGED <<disk, session, overlay, work>>
  BY DEF Flush
<1>2. /\ batches \in Seq(SUBSET Files) /\ dirty \in SUBSET Files
      /\ work # Idle => batches # <<>>
  BY DEF Edits, Queues
<1>3. /\ Len(batches') = Len(batches) + 1 /\ batches' # <<>>
      /\ \A i \in DOMAIN batches : i \in DOMAIN batches' /\ batches'[i] = batches[i]
      /\ batches'[Len(batches) + 1] = dirty /\ Len(batches) + 1 \in DOMAIN batches'
  BY <1>1, <1>2
<1>4. Queues' /\ SessionIsWhole' /\ OverlayIsProgram' /\ disk' \in Sources
  BY <1>1, <1>2, <1>3 DEF Edits, Queues, SessionIsWhole, OverlayIsProgram
<1>5. work # Idle => Len(batches) + 1 > 1 /\ Batch' = Batch
  BY <1>1, <1>2, <1>3 DEF Batch
<1>6. ASSUME NEW f \in Files, work # Idle, ReadLater(f)
      PROVE  ReadLater(f)'
  BY <1>1, <1>3, <1>5, <1>6 DEF ReadLater
<1>7. ReadIsCurrent'
  <2>1. work.pc = "read" => work # Idle /\ Batch \subseteq Files
    BY <1>2, IdleIsIdle DEF Batch
  <2> QED BY <1>1, <1>5, <1>6, <2>1 DEF Edits, ReadIsCurrent
<1>8. NoEditIsLost'
  <2>1. SUFFICES ASSUME NEW f \in Files
                 PROVE  \/ session.program[f] = disk[f]
                        \/ \E i \in DOMAIN batches' : /\ f \in batches'[i]
                             /\ \/ i > 1 \/ work = Idle
                                \/ work.pc = "read" /\ work.texts[f] = disk[f]
    BY <1>1 DEF NoEditIsLost
  <2>2. CASE f \in dirty
    BY <1>3, <1>5, <2>2
  <2>3. CASE f \notin dirty
    BY <1>3, <2>3 DEF Edits, NoEditIsLost
  <2> QED BY <2>2, <2>3
<1> QED BY <1>4, <1>7, <1>8 DEF Edits

LEMMA ReadBatchKeeps ==
  ASSUME Edits, ReadBatch
  PROVE  Edits'
<1>1. /\ batches # <<>> /\ work = Idle
      /\ work' = [pc |-> "read", texts |-> [f \in Batch |-> disk[f]]]
      /\ UNCHANGED <<disk, session, overlay, dirty, batches>>
  BY DEF ReadBatch
<1>2. work'.pc = "read" /\ work'.texts = [f \in Batch |-> disk[f]] /\ Batch' = Batch
  BY <1>1 DEF Batch
<1>3. Batch \subseteq Files
  BY <1>1 DEF Edits, Queues, Batch
<1>4. Queues' /\ SessionIsWhole' /\ OverlayIsProgram' /\ disk' \in Sources
  BY <1>1 DEF Edits, Queues, SessionIsWhole, OverlayIsProgram
<1>5. \A f \in Batch : work'.texts[f] = disk[f] /\ disk[f] \in TextsOf(f) /\ disk[f] \in Texts
  BY <1>2, <1>3 DEF Edits, Sources
<1>6. ReadIsCurrent'
  BY <1>1, <1>2, <1>5 DEF ReadIsCurrent
<1>7. NoEditIsLost'
  <2>1. SUFFICES ASSUME NEW f \in Files, NEW i \in DOMAIN batches, f \in batches[i]
                 PROVE  i > 1 \/ (work'.pc = "read" /\ work'.texts[f] = disk[f])
    BY <1>1 DEF Edits, NoEditIsLost
  <2>2. CASE i = 1
    BY <1>2, <1>5, <2>1, <2>2 DEF Batch
  <2>3. CASE i # 1
    BY <2>3 DEF Edits, Queues
  <2> QED BY <2>2, <2>3
<1> QED BY <1>4, <1>6, <1>7 DEF Edits

\* After the push every file has the text it was read with, or one that no
\* batch so far has changed.
LEMMA PushBatchKeeps ==
  ASSUME Edits, PushBatch
  PROVE  Edits'
<1> DEFINE seeded == IF overlay = NoSources THEN disk ELSE overlay
           pushed == [f \in Files |-> IF f \in Batch THEN work.texts[f] ELSE seeded[f]]
<1>1. /\ work.pc = "read" /\ work' = [pc |-> "pushed"]
      /\ overlay' = pushed
      /\ session' = Swap(session, Loaded(pushed, disk))
      /\ UNCHANGED <<disk, dirty, batches>>
  BY DEF PushBatch
<1>2. work # Idle /\ work'.pc = "pushed" /\ batches # <<>>
  BY <1>1, IdleIsIdle DEF Edits, Queues
<1>3. work' # Idle
  BY <1>2, IdleIsIdle
<1>4. seeded \in Sources
  BY DEF Edits, OverlayIsProgram, SessionIsWhole
<1>5. pushed \in Sources
  <2>1. \A f \in Files : pushed[f] \in TextsOf(f)
    BY <1>1, <1>4 DEF Edits, ReadIsCurrent, Sources
  <2>2. \A f \in Files : TextsOf(f) \subseteq Texts
    BY DEF TextsOf, Texts
  <2> QED BY <2>1, <2>2 DEF Sources
<1>6. \A f \in Files : pushed[f] = IF f \in Batch THEN work.texts[f] ELSE seeded[f]
  OBVIOUS
<1> HIDE DEF pushed, seeded
<1>7. /\ session' \in Sessions /\ Noted(session') /\ session'.program = pushed
  BY <1>1, <1>5, LoadedWhole, SwapWhole DEF Edits
<1>8. Queues' /\ SessionIsWhole' /\ OverlayIsProgram' /\ ReadIsCurrent' /\ disk' \in Sources
  BY <1>1, <1>2, <1>3, <1>5, <1>7
  DEF Edits, Queues, SessionIsWhole, OverlayIsProgram, ReadIsCurrent
<1>9. NoEditIsLost'
  <2>1. SUFFICES ASSUME NEW f \in Files
                 PROVE  pushed[f] = disk[f] \/ ReadLater(f)
    BY <1>1, <1>7 DEF NoEditIsLost, ReadLater
  <2>2. CASE f \in Batch
    BY <1>1, <1>6, <2>2 DEF Edits, ReadIsCurrent
  <2>3. CASE f \notin Batch
    <3>1. seeded[f] = disk[f] \/ seeded[f] = session.program[f]
      BY DEF seeded, Edits, OverlayIsProgram
    <3>2. session.program[f] = disk[f] \/ ReadLater(f)
      <4>1. CASE \E i \in DOMAIN batches : f \in batches[i]
        BY <2>3, <4>1 DEF ReadLater, Batch, Edits, Queues
      <4>2. CASE ~ \E i \in DOMAIN batches : f \in batches[i]
        BY <4>2 DEF Edits, NoEditIsLost, ReadLater
      <4> QED BY <4>1, <4>2
    <3> QED BY <1>6, <2>3, <3>1, <3>2
  <2> QED BY <2>2, <2>3
<1> QED BY <1>8, <1>9 DEF Edits

\* The steps of an absorption that keep the program.
LEMMA AbsorbKeeps ==
  ASSUME Edits, ScanBatch \/ RegenerateBatch
  PROVE  Edits' /\ work' # Idle
<1>1. work.pc \in {"pushed", "scanned"} /\ work'.pc \in {"scanned", "generated"}
  BY DEF ScanBatch, RegenerateBatch
<1>2. UNCHANGED <<disk, overlay, dirty, batches>>
  BY DEF ScanBatch, RegenerateBatch
<1>3. session' = Scanned(session, Batch \cap Pages) \/ session' = Generated(session)
  BY DEF ScanBatch, RegenerateBatch
<1>4. session' \in Sessions /\ Noted(session') /\ session'.program = session.program
  BY <1>3, ScannedWhole, GeneratedWhole DEF Edits
<1>5. work # Idle /\ work' # Idle
  BY <1>1, IdleIsIdle
<1>6. Queues' /\ SessionIsWhole' /\ OverlayIsProgram' /\ ReadIsCurrent' /\ disk' \in Sources
  BY <1>1, <1>2, <1>4, <1>5 DEF Edits, Queues, SessionIsWhole, OverlayIsProgram, ReadIsCurrent
<1>7. NoEditIsLost'
  BY <1>1, <1>2, <1>4, <1>5 DEF Edits, NoEditIsLost
<1> QED BY <1>5, <1>6, <1>7 DEF Edits

LEMMA SettleBatchKeeps ==
  ASSUME Edits, SettleBatch
  PROVE  Edits'
<1>1. /\ work.pc = "generated" /\ work' = Idle /\ batches' = Tail(batches)
      /\ UNCHANGED <<disk, session, overlay, dirty>>
  BY DEF SettleBatch
<1>2. work # Idle
  BY <1>1, IdleIsIdle
<1>3. batches \in Seq(SUBSET Files) /\ batches # <<>>
  BY <1>2 DEF Edits, Queues
<1>4. /\ batches' \in Seq(SUBSET Files)
      /\ \A i \in DOMAIN batches : i > 1 => i - 1 \in DOMAIN batches' /\ batches'[i - 1] = batches[i]
  BY <1>1, <1>3
<1>5. Queues' /\ SessionIsWhole' /\ OverlayIsProgram' /\ disk' \in Sources
  BY <1>1, <1>4 DEF Edits, Queues, SessionIsWhole, OverlayIsProgram
<1>6. ReadIsCurrent'
  BY <1>1, IdleIsIdle DEF ReadIsCurrent
<1>7. NoEditIsLost'
  BY <1>1, <1>2, <1>4 DEF Edits, NoEditIsLost
<1> QED BY <1>5, <1>6, <1>7 DEF Edits

-----------------------------------------------------------------------------
\* Calls: a request keeps its page on its way through the broker.
LEMMA CallsStep ==
  ASSUME IInv, Next
  PROVE  CallsAreOfPages'
<1>1. /\ chain \in Seq([page : Pages, code : PageTexts])
      /\ serving # Idle => "page" \in DOMAIN serving /\ serving.page \in Pages
  BY DEF IInv, CallsAreOfPages
<1>2. CASE UNCHANGED <<chain, serving>>
  BY <1>1, <1>2 DEF CallsAreOfPages
<1>3. CASE \E p \in Pages : Call(p)
  <2>1. PICK p \in Pages : Call(p)
    BY <1>3
  <2>2. chain' = Append(chain, [page |-> p, code |-> disk[p]]) /\ serving' = serving
    BY <2>1 DEF Call
  <2>3. disk[p] \in PageTexts
    BY DEF IInv, Edits, Sources, Files, TextsOf
  <2> QED BY <1>1, <2>2, <2>3 DEF CallsAreOfPages
<1>4. CASE Fail \/ Take
  <2>1. chain # <<>> /\ chain' = Tail(chain)
    BY <1>4 DEF Fail, Take
  <2>2. chain' \in Seq([page : Pages, code : PageTexts])
    BY <1>1, <2>1
  <2>3. Head(chain).page \in Pages
    <3> DEFINE Requests == [page : Pages, code : PageTexts]
    <3>1. chain \in Seq(Requests) /\ chain # <<>>
      BY <1>1, <2>1
    <3> HIDE DEF Requests
    <3>2. Head(chain) \in Requests
      BY <3>1
    <3> QED BY <3>2 DEF Requests
  <2>4. CASE Fail
    BY <1>1, <2>2, <2>4 DEF Fail, CallsAreOfPages
  <2>5. CASE Take
    <3>1. serving' = [pc |-> "waiting", page |-> Head(chain).page,
                      code |-> Head(chain).code, wait |-> Len(batches), missed |-> dirty]
      BY <2>5 DEF Take
    <3> QED BY <2>2, <2>3, <3>1 DEF CallsAreOfPages
  <2> QED BY <1>4, <2>4, <2>5
<1>5. CASE Transform \/ Generate \/ Answer
  <2>1. chain' = chain
    BY <1>5 DEF Transform, Generate, Answer
  <2>2. serving # Idle
    BY <1>5 DEF Transform, Generate, Answer
  <2>3. CASE Transform
    BY <1>1, <2>1, <2>2, <2>3 DEF Transform, CallsAreOfPages
  <2>4. CASE Generate
    BY <1>1, <2>1, <2>2, <2>4 DEF Generate, CallsAreOfPages
  <2>5. CASE Answer
    BY <1>1, <2>1, <2>5 DEF Answer, CallsAreOfPages
  <2> QED BY <1>5, <2>3, <2>4, <2>5
<1>6. CASE SettleBatch
  <2>1. chain' = chain
    BY <1>6 DEF SettleBatch
  <2>2. serving' = serving \/ (serving # Idle /\ serving' = [serving EXCEPT !.wait = @ - 1])
    BY <1>6 DEF SettleBatch, Unwait
  <2> QED BY <1>1, <2>1, <2>2 DEF CallsAreOfPages
<1>7. CASE \/ Started \/ StartFailed \/ Flush
           \/ ReadBatch \/ PushBatch \/ ScanBatch \/ RegenerateBatch
           \/ \E f \in Files : Edit(f)
           \/ \E p \in Pages : Return(p)
  BY <1>2, <1>7
  DEF Started, StartFailed, Flush, ReadBatch, PushBatch, ScanBatch, RegenerateBatch, Edit,
      Return, answering
<1> QED BY <1>3, <1>4, <1>5, <1>6, <1>7 DEF Next, Absorb, Serve

\* The gate, the stamp and the kept results.
LEMMA GatesStep ==
  ASSUME IInv, Next
  PROVE  Gates'
<1>1. /\ phase \in {"starting", "ready", "failed"} /\ siteFiles \subseteq Pages
      /\ stamp \in (SUBSET (Fns \X Nodes)) \union {Unwritten} /\ valid \subseteq Pages
      /\ session.tree \in SUBSET (Fns \X Nodes)
  BY DEF IInv, Gates, Edits, SessionIsWhole, Sessions
<1>2. SitesOf(session.program) \subseteq Pages
  BY DEF SitesOf, PagesOf
<1>3. CASE Started
  <2>1. session' = Generated(session)
    BY <1>3 DEF Started
  <2>2. session'.tree \in SUBSET (Fns \X Nodes)
    BY <2>1, GeneratedWhole DEF IInv, Edits, Sessions
  <2> QED BY <1>1, <1>2, <1>3, <2>2 DEF Started, Gates, Noticed
<1>4. CASE RegenerateBatch
  BY <1>1, <1>2, <1>4 DEF RegenerateBatch, Gates, answering, turbopack
<1>5. CASE SettleBatch \/ Answer
  BY <1>1, <1>5 DEF SettleBatch, Answer, Stamped, Unstamped, Noticed, Gates, absorbing
<1>6. CASE \/ StartFailed \/ Flush \/ ReadBatch \/ PushBatch \/ ScanBatch
           \/ Fail \/ Take \/ Transform \/ Generate
           \/ \E f \in Files : Edit(f)
           \/ \E p \in Pages : Call(p) \/ Return(p)
  <2>1. UNCHANGED <<siteFiles, stamp>> /\ phase' \in {phase, "failed"}
    BY <1>6
    DEF StartFailed, Flush, ReadBatch, PushBatch, ScanBatch, Fail, Take, Transform, Generate,
        Edit, Call, Return, absorbing
  <2>2. \A p \in valid' : p \in valid \/ p \in Pages
    BY <1>6
    DEF StartFailed, Flush, ReadBatch, PushBatch, ScanBatch, Fail, Take, Transform, Generate,
        Edit, Call, Return, Noticed, turbopack
  <2> QED BY <1>1, <2>1, <2>2 DEF Gates
<1> QED BY <1>3, <1>4, <1>5, <1>6 DEF Next, Absorb, Serve

LEMMA EditsStep ==
  ASSUME IInv, Next
  PROVE  Edits'
<1> USE DEF IInv
<1>1. SessionIsWhole
  BY DEF Edits
<1>2. CASE \E f \in Files : Edit(f)
  BY <1>2, EditKeeps
<1>3. CASE Flush
  BY <1>3, FlushKeeps
<1>4. CASE Absorb
  BY <1>4, ReadBatchKeeps, PushBatchKeeps, AbsorbKeeps, SettleBatchKeeps DEF Absorb
<1>5. CASE Started \/ Generate
  <2>1. session' = Generated(session) /\ UNCHANGED <<disk, overlay, dirty, batches, work>>
    BY <1>5 DEF Started, Generate, absorbing
  <2> QED BY <1>1, <2>1, GeneratedWhole, EditsKept
<1>6. CASE Transform
  <2>1. UNCHANGED <<disk, overlay, dirty, batches, work>>
    BY <1>6 DEF Transform, absorbing
  <2>2. session' = session \/ session' = Scanned(session, {serving.page})
    BY <1>6 DEF Transform
  <2>3. {serving.page} \in SUBSET Pages
    BY <1>6 DEF Transform, CallsAreOfPages
  <2>4. session' \in Sessions /\ Noted(session') /\ session'.program = session.program
    BY <1>1, <2>2, <2>3, ScannedWhole DEF SessionIsWhole
  <2> QED BY <2>1, <2>4, EditsKept
<1>7. CASE \/ StartFailed \/ Fail \/ Take \/ Answer
           \/ \E p \in Pages : Call(p) \/ Return(p)
  <2>1. UNCHANGED <<disk, session, overlay, dirty, batches, work>>
    BY <1>7 DEF StartFailed, Fail, Take, Answer, Call, Return, absorbing
  <2>2. session' \in Sessions /\ Noted(session') /\ session'.program = session.program
    BY <1>1, <2>1 DEF SessionIsWhole
  <2> QED BY <2>1, <2>2, EditsKept
<1> QED BY <1>2, <1>3, <1>4, <1>5, <1>6, <1>7 DEF Next, Serve

LEMMA Inductive == IInv /\ [Next]_vars => IInv'
<1>1. ASSUME IInv, Next PROVE IInv'
  BY <1>1, EditsStep, CallsStep, GatesStep DEF IInv
<1>2. ASSUME IInv, UNCHANGED vars PROVE IInv'
  BY <1>2
  DEF vars, absorbing, answering, turbopack, IInv, Edits, CallsAreOfPages, Gates, Queues,
      SessionIsWhole, OverlayIsProgram, ReadIsCurrent, NoEditIsLost, ReadLater, Batch
<1> QED BY <1>1, <1>2

LEMMA InvariantHolds == Spec => []IInv
<1>1. Spec => Init /\ [][Next]_vars
  BY DEF Spec, Safety
<1> QED BY <1>1, InitHolds, Inductive, PTL

\* The broker's state keeps its type, for any files, texts and edits: only
\* pages pass the gate, and the stamp is the digest of a listing.
THEOREM TypeCorrect == Spec => []TypeOK
<1>1. IInv => TypeOK
  <2>1. SUFFICES ASSUME IInv PROVE TypeOK
    OBVIOUS
  <2>2. \A f \in DOMAIN overlay : f \in Files /\ overlay[f] \in TextsOf(f)
    <3>1. CASE overlay = NoSources
      BY <3>1 DEF NoSources
    <3>2. CASE overlay = session.program
      BY <2>1, <3>2 DEF IInv, Edits, SessionIsWhole, Sources
    <3> QED BY <2>1, <3>1, <3>2 DEF IInv, Edits, OverlayIsProgram
  <2>3. \A i \in DOMAIN batches : batches[i] \subseteq Files
    BY <2>1 DEF IInv, Edits, Queues
  <2> QED BY <2>1, <2>2, <2>3 DEF IInv, Edits, SessionIsWhole, Queues, Gates, TypeOK
<1> QED BY <1>1, InvariantHolds, PTL

\* Whatever the order of edits, timers, batches and calls, an edit the watcher
\* has seen is in the program or on its way there with its present text.
THEOREM EditsAreKept == Spec => []NoEditIsLost
<1>1. IInv => NoEditIsLost
  BY DEF IInv, Edits
<1> QED BY <1>1, InvariantHolds, PTL

-----------------------------------------------------------------------------
(***************************************************************************)
(* The second invariant follows a rewrite from the request to the kept     *)
(* result.  What it imports is in the listing the stamp stands for, or the *)
(* batch being absorbed will bring it and force the stamp.  What it was    *)
(* made from is the present text of each file it declares: an edit before  *)
(* the request was taken is in an awaited batch, one after it drops the    *)
(* result.                                                                 *)
(***************************************************************************)

Paths == Files \union {Stamp}
Answers == [keys : SUBSET (Fns \X Nodes), deps : SUBSET Paths, missed : SUBSET Files]
Replies == [keys : SUBSET (Fns \X Nodes), deps : SUBSET Decls, added : BOOLEAN]

Loaders == {Idle} \union [pc : {"called"}, changed : SUBSET Paths]
             \union [pc : {"replied"}, changed : SUBSET Paths, answer : Answers]

Servings == {Idle}
  \union [pc : {"waiting"}, page : Pages, code : PageTexts, wait : Nat, missed : SUBSET Files]
  \union [pc : {"transformed"}, page : Pages, missed : SUBSET Files, reply : Replies]

CallsAreTyped ==
  /\ loader \in [Pages -> Loaders]
  /\ serving \in Servings
  /\ result \in [Pages -> Answers]

\* A page has one call, and that one request; nothing is served before the start.
OneRequest ==
  /\ \A i \in DOMAIN chain : loader[chain[i].page].pc = "called"
  /\ \A i, j \in DOMAIN chain : chain[i].page = chain[j].page => i = j
  /\ serving # Idle => /\ loader[serving.page].pc = "called"
                       /\ \A i \in DOMAIN chain : chain[i].page # serving.page
  /\ phase = "starting" => /\ serving = Idle /\ valid = {}
                           /\ \A p \in Pages : loader[p].pc # "replied"

-----------------------------------------------------------------------------
\* The listing is what the program demands but while a batch has pushed and not
\* generated, and the stamp is the listing's but while a batch goes on.
ListingIsStamped ==
  phase = "ready" =>
    /\ work.pc \notin {"pushed", "scanned"} => session.tree = Demand(session.program)
    /\ work.pc \notin {"pushed", "scanned", "generated"} => stamp = session.tree

\* Modules the stamp stands for, or that the batch which will force it brings.
Cover(keys, listed, pc, program) ==
  \/ keys \subseteq listed
  \/ pc \in {"pushed", "scanned", "generated"} /\ keys \subseteq Demand(program)

Covered(keys) == Cover(keys, stamp, work.pc, session.program)

\* What Turbopack keeps, or will unless the stamp changes, is covered.
KeptIsCovered ==
  phase = "ready" =>
    /\ \A p \in valid : Stamp \in result[p].deps /\ Covered(result[p].keys)
    /\ \A p \in Pages : loader[p].pc = "replied" =>
         /\ Stamp \in loader[p].answer.deps
         /\ Stamp \in loader[p].changed \/ Covered(loader[p].answer.keys)
    /\ serving.pc = "transformed" =>
         Stamp \in loader[serving.page].changed \/ Covered(serving.reply.keys)

-----------------------------------------------------------------------------
\* A page with sites is known to the gate, or a batch yet to regenerate has it.
GateIsCurrent ==
  phase = "ready" =>
    \A p \in Pages :
      \/ p \in siteFiles \/ session.program[p] = {} \/ p \in dirty
      \/ \E i \in DOMAIN batches : p \in batches[i] /\ (i > 1 \/ work.pc # "generated")

\* The text of a request is the page's present one, or Turbopack knows better.
ChainIsCurrent ==
  \A i \in DOMAIN chain : \/ chain[i].page \in loader[chain[i].page].changed
                          \/ chain[i].code = disk[chain[i].page]

\* So it is with the request that waits for its batches; and a file that has not
\* changed since, nor had when it was taken, is in no batch it does not await.
WaitIsCurrent ==
  serving.pc = "waiting" =>
    /\ serving.page \in loader[serving.page].changed \/ serving.code = disk[serving.page]
    /\ \A f \in Files \ (serving.missed \union loader[serving.page].changed) :
         /\ f \notin dirty
         /\ \A i \in DOMAIN batches : f \in batches[i] => i <= serving.wait

\* An answer to p, when the files in changed have changed since the call: its
\* keys are those of the present texts, if what it declares and what it took to
\* be settled covers these.
CurrentOn(texts, p, answer, changed) ==
  answer.deps \cap changed = {} /\ p \notin answer.missed =>
    /\ p \in answer.deps
    /\ Named(texts[p]) \subseteq answer.deps
    /\ Mentioned(texts[p]) \subseteq answer.deps \ answer.missed => answer.keys = Keys(texts, p)

Current(p, answer, changed) == CurrentOn(disk, p, answer, changed)

\* The answer that is on its way to the loader of the page being served.
Answered == Answering(serving.page, serving.reply, serving.reply.deps \union {Stamp})

KeptIsCurrent ==
  phase = "ready" =>
    /\ \A p \in valid : Current(p, result[p], {})
    /\ \A p \in Pages : loader[p].pc = "replied" => Current(p, loader[p].answer, loader[p].changed)
    /\ serving.pc = "transformed" =>
         Current(serving.page, Answered, loader[serving.page].changed)

Kept == /\ CallsAreTyped /\ OneRequest /\ ListingIsStamped /\ KeptIsCovered
        /\ GateIsCurrent /\ ChainIsCurrent /\ WaitIsCurrent /\ KeptIsCurrent

-----------------------------------------------------------------------------
LEMMA CallTypes ==
  ASSUME CallsAreTyped, NEW p \in Pages
  PROVE  /\ loader[p] \in Loaders
         /\ loader[p].pc \in {"idle", "called", "replied"}
         /\ loader[p] = Idle <=> loader[p].pc = "idle"
         /\ loader[p] # Idle => loader[p].changed \in SUBSET Paths
         /\ loader[p].pc = "replied" => loader[p].answer \in Answers
<1>1. loader[p] \in Loaders
  BY DEF CallsAreTyped
<1>2. CASE loader[p] = Idle
  BY <1>1, <1>2, IdleIsIdle
<1>3. CASE loader[p] \in [pc : {"called"}, changed : SUBSET Paths]
  BY <1>1, <1>3, IdleIsIdle
<1>4. CASE loader[p] \in [pc : {"replied"}, changed : SUBSET Paths, answer : Answers]
  BY <1>1, <1>4, IdleIsIdle
<1> QED BY <1>1, <1>2, <1>3, <1>4 DEF Loaders

LEMMA ServingTypes ==
  ASSUME CallsAreTyped
  PROVE  /\ serving.pc \in {"idle", "waiting", "transformed"}
         /\ serving = Idle <=> serving.pc = "idle"
         /\ serving # Idle => serving.page \in Pages /\ serving.missed \in SUBSET Files
         /\ serving.pc = "waiting" => serving.wait \in Nat /\ serving.code \in PageTexts
         /\ serving.pc = "transformed" => serving.reply \in Replies
<1>1. serving \in Servings
  BY DEF CallsAreTyped
<1>2. CASE serving = Idle
  BY <1>2, IdleIsIdle
<1>3. CASE serving \in [pc : {"waiting"}, page : Pages, code : PageTexts, wait : Nat,
                        missed : SUBSET Files]
  BY <1>3, IdleIsIdle
<1>4. CASE serving \in [pc : {"transformed"}, page : Pages, missed : SUBSET Files,
                        reply : Replies]
  BY <1>4, IdleIsIdle
<1> QED BY <1>1, <1>2, <1>3, <1>4 DEF Servings

\* The calls go on as given, knowing of changed files, and only results that do
\* not declare these are kept.
Follows(calls, files) ==
  /\ loader' \in [Pages -> Loaders]
  /\ result' \in [Pages -> Answers]
  /\ valid' \subseteq valid
  /\ \A p \in valid' : result'[p] = result[p] /\ result[p].deps \cap files = {}
  /\ \A p \in Pages :
       /\ loader'[p].pc = calls[p].pc
       /\ calls[p] # Idle => loader'[p].changed = calls[p].changed \union files
       /\ calls[p].pc = "replied" => loader'[p].answer = calls[p].answer

LEMMA NoticedCalls ==
  ASSUME NEW calls \in [Pages -> Loaders], NEW files \in SUBSET Paths,
         Noticed(calls, files), result \in [Pages -> Answers], valid \subseteq Pages
  PROVE  Follows(calls, files)
<1>1. NoResult \in Answers
  BY DEF NoResult, Answers
<1>2. /\ valid' = {p \in valid : result[p].deps \cap files = {}}
      /\ result' = [p \in Pages |-> IF p \in valid' THEN result[p] ELSE NoResult]
      /\ loader' = [p \in Pages |->
           IF calls[p] = Idle THEN Idle
           ELSE [calls[p] EXCEPT !.changed = calls[p].changed \union files]]
  BY DEF Noticed
<1>3. result' \in [Pages -> Answers] /\ valid' \subseteq valid
  BY <1>1, <1>2
<1>4. \A p \in valid' : result'[p] = result[p] /\ result[p].deps \cap files = {}
  BY <1>2
<1>5. ASSUME NEW p \in Pages
      PROVE  /\ loader'[p] \in Loaders
             /\ loader'[p].pc = calls[p].pc
             /\ calls[p] # Idle => loader'[p].changed = calls[p].changed \union files
             /\ calls[p].pc = "replied" => loader'[p].answer = calls[p].answer
  <2>1. CASE calls[p] = Idle
    BY <1>2, <2>1, IdleIsIdle DEF Loaders
  <2>2. CASE calls[p] # Idle /\ calls[p] \in [pc : {"called"}, changed : SUBSET Paths]
    BY <1>2, <2>2 DEF Loaders
  <2>3. CASE calls[p] # Idle /\ calls[p] \in [pc : {"replied"}, changed : SUBSET Paths, answer : Answers]
    BY <1>2, <2>3 DEF Loaders
  <2> QED BY <2>1, <2>2, <2>3 DEF Loaders
<1>6. loader' \in [Pages -> Loaders]
  BY <1>2, <1>5
<1> QED BY <1>3, <1>4, <1>5, <1>6 DEF Follows

LEMMA UnnoticedCalls ==
  ASSUME NEW calls \in [Pages -> Loaders], loader' = calls, UNCHANGED <<result, valid>>,
         result \in [Pages -> Answers], valid \subseteq Pages
  PROVE  Follows(calls, {})
<1>1. ASSUME NEW p \in Pages, calls[p] # Idle
      PROVE  calls[p].changed = calls[p].changed \union {}
  BY DEF Loaders
<1> QED BY <1>1 DEF Follows

\* A refresh of the stamp: all calls learn of it, or the stamp stays as it is.
LEMMA RefreshedCalls ==
  ASSUME NEW calls \in [Pages -> Loaders], Stamped(calls) \/ Unstamped(calls),
         result \in [Pages -> Answers], valid \subseteq Pages
  PROVE  \/ stamp' = session.tree /\ Follows(calls, {Stamp})
         \/ stamp' = stamp /\ Unstamped(calls) /\ Follows(calls, {})
<1>1. CASE Stamped(calls)
  <2>1. {Stamp} \in SUBSET Paths
    BY DEF Paths
  <2> QED BY <1>1, <2>1, NoticedCalls DEF Stamped
<1>2. CASE Unstamped(calls)
  BY <1>2, UnnoticedCalls DEF Unstamped
<1> QED BY <1>1, <1>2

LEMMA RepliedCalls ==
  ASSUME CallsAreTyped, NEW p \in Pages, loader[p] # Idle, NEW answer \in Answers
  PROVE  /\ Replied(p, answer) \in [Pages -> Loaders]
         /\ Replied(p, answer)[p] = [pc |-> "replied", changed |-> loader[p].changed,
                                     answer |-> answer]
         /\ \A q \in Pages : q # p => Replied(p, answer)[q] = loader[q]
<1>1. loader \in [Pages -> Loaders] /\ loader[p].changed \in SUBSET Paths
  BY CallTypes DEF CallsAreTyped
<1>2. [pc |-> "replied", changed |-> loader[p].changed, answer |-> answer] \in Loaders
  BY <1>1 DEF Loaders
<1> QED BY <1>1, <1>2 DEF Replied

LEMMA AnsweredType ==
  ASSUME CallsAreTyped, serving.pc = "transformed"
  PROVE  /\ Answered \in Answers
         /\ Answered.keys = serving.reply.keys
         /\ Answered.deps = {serving.page, Stamp} \union serving.reply.deps
         /\ Answered.missed = serving.missed
<1>1. serving # Idle
  BY IdleIsIdle
<1>2. serving.page \in Pages /\ serving.missed \in SUBSET Files /\ serving.reply \in Replies
  BY <1>1, ServingTypes
<1>3. /\ Answered.keys = serving.reply.keys
      /\ Answered.deps = {serving.page} \union (serving.reply.deps \union {Stamp})
      /\ Answered.missed = serving.missed
      /\ Answered = [keys |-> Answered.keys, deps |-> Answered.deps, missed |-> Answered.missed]
  BY DEF Answered, Answering
<1>4. Answered.deps \in SUBSET Paths
  BY <1>2, <1>3 DEF Replies, Paths, Files
<1> QED BY <1>2, <1>3, <1>4 DEF Replies, Answers

-----------------------------------------------------------------------------
\* The steps that answer nobody: what Turbopack learns at each.
Quietly == \/ StartFailed \/ Flush \/ ReadBatch \/ PushBatch \/ ScanBatch \/ RegenerateBatch
           \/ Take \/ Transform \/ Generate

LEMMA QuietSteps ==
  ASSUME CallsAreTyped, valid \subseteq Pages, Quietly
  PROVE  Follows(loader, {}) /\ loader' = loader /\ valid' = valid /\ result' = result
<1>1. UNCHANGED <<loader, result, valid>>
  BY DEF Quietly, StartFailed, Flush, ReadBatch, PushBatch, ScanBatch, RegenerateBatch, Take,
         Transform, Generate, turbopack
<1> QED BY <1>1, UnnoticedCalls DEF CallsAreTyped

\* A start, an edit or a batch's end: the steps at which files change that
\* Turbopack watches, but for an answer.
LEMMA NoticedSteps ==
  ASSUME CallsAreTyped, valid \subseteq Pages
  PROVE  /\ Started => Follows(loader, {Stamp})
         /\ \A f \in Files : Edit(f) => Follows(loader, {f})
         /\ SettleBatch => \/ stamp' = session.tree /\ Follows(loader, {Stamp})
                           \/ /\ stamp' = stamp /\ stamp = session.tree /\ Follows(loader, {})
                              /\ UNCHANGED <<loader, result, valid>>
<1>1. loader \in [Pages -> Loaders] /\ result \in [Pages -> Answers]
  BY DEF CallsAreTyped
<1>2. {Stamp} \in SUBSET Paths /\ \A f \in Files : {f} \in SUBSET Paths
  BY DEF Paths
<1>3. Started => Follows(loader, {Stamp})
  BY <1>1, <1>2, NoticedCalls DEF Started
<1>4. \A f \in Files : Edit(f) => Follows(loader, {f})
  BY <1>1, <1>2, NoticedCalls DEF Edit
<1>5. ASSUME SettleBatch
      PROVE  \/ stamp' = session.tree /\ Follows(loader, {Stamp})
             \/ /\ stamp' = stamp /\ stamp = session.tree /\ Follows(loader, {})
                /\ UNCHANGED <<loader, result, valid>>
  <2>1. CASE Stamped(loader)
    BY <1>1, <1>2, <2>1, NoticedCalls DEF Stamped
  <2>2. CASE stamp = session.tree /\ Unstamped(loader)
    BY <1>1, <2>2, UnnoticedCalls DEF Unstamped
  <2> QED BY <1>5, <2>1, <2>2 DEF SettleBatch
<1> QED BY <1>3, <1>4, <1>5

LEMMA GeneratedServing ==
  ASSUME CallsAreTyped, Generate
  PROVE  /\ serving.pc = "transformed" /\ serving'.pc = "transformed"
         /\ serving' \in Servings
         /\ serving'.page = serving.page /\ serving'.missed = serving.missed
         /\ serving'.reply = [serving.reply EXCEPT !.added = FALSE]
<1> DEFINE Transformed ==
      [pc : {"transformed"}, page : Pages, missed : SUBSET Files, reply : Replies]
<1>1. /\ serving # Idle /\ serving.pc = "transformed"
      /\ serving' = [serving EXCEPT !.reply.added = FALSE]
  BY DEF Generate
<1>2. serving \in Transformed
  <2>1. serving \in Servings
    BY DEF CallsAreTyped
  <2>2. serving \notin [pc : {"waiting"}, page : Pages, code : PageTexts, wait : Nat,
                       missed : SUBSET Files]
    BY <1>1
  <2> QED BY <1>1, <2>1, <2>2 DEF Servings
<1>3. [serving.reply EXCEPT !.added = FALSE] \in Replies
  BY <1>2 DEF Replies
<1>4. serving' = [serving EXCEPT !.reply = [serving.reply EXCEPT !.added = FALSE]]
  BY <1>1
<1>5. /\ serving' \in Transformed
      /\ serving'.page = serving.page /\ serving'.missed = serving.missed
      /\ serving'.reply = [serving.reply EXCEPT !.added = FALSE]
  BY <1>2, <1>3, <1>4
<1> QED BY <1>1, <1>5 DEF Servings

\* The request being served, at every step but its taking and its answer.
Onwards == \/ Started \/ StartFailed \/ Flush \/ Absorb \/ Transform \/ Generate \/ Fail
           \/ \E f \in Files : Edit(f)
           \/ \E p \in Pages : Call(p) \/ Return(p)

LEMMA ServingSteps ==
  ASSUME CallsAreTyped, Onwards
  PROVE  /\ serving = Idle <=> serving' = Idle
         /\ serving # Idle => serving'.page = serving.page /\ serving'.missed = serving.missed
<1>1. CASE UNCHANGED serving
  BY <1>1
<1>2. CASE Transform
  BY <1>2, IdleIsIdle DEF Transform
<1>3. CASE Generate
  BY <1>3, GeneratedServing, IdleIsIdle
<1>4. CASE SettleBatch
  <2>1. serving' = serving \/ (serving.pc = "waiting" /\ serving' = [serving EXCEPT !.wait = @ - 1])
    BY <1>4 DEF SettleBatch, Unwait
  <2>2. ASSUME serving.pc = "waiting", serving' = [serving EXCEPT !.wait = @ - 1]
        PROVE  serving'.pc = "waiting" /\ serving'.page = serving.page /\ serving'.missed = serving.missed
    BY <2>2
  <2> QED BY <1>4, <2>1, <2>2, IdleIsIdle
<1>5. CASE \/ Started \/ StartFailed \/ Flush \/ ReadBatch \/ PushBatch \/ ScanBatch
           \/ RegenerateBatch \/ Fail
           \/ \E f \in Files : Edit(f)
           \/ \E p \in Pages : Call(p) \/ Return(p)
  BY <1>1, <1>5
  DEF Started, StartFailed, Flush, ReadBatch, PushBatch, ScanBatch, RegenerateBatch, Fail, Edit,
      Call, Return, answering
<1> QED BY <1>2, <1>3, <1>4, <1>5 DEF Onwards, Absorb

-----------------------------------------------------------------------------
LEMMA ReplyType ==
  ASSUME IInv, NEW p \in Pages
  PROVE  [keys  |-> Keys(session.program, p),
          deps  |-> IF session.program[p] = {} THEN {} ELSE Deps(Scanned(session, {p}), p),
          added |-> Scanned(session, {p}).interned # session.interned] \in Replies
<1>1. session.program \in Sources /\ SessionIsWhole
  BY DEF IInv, Edits, SessionIsWhole
<1>2. Keys(session.program, p) \subseteq Demand(session.program)
  BY <1>1, SourcesHaveAllPages DEF Demand
<1>3. Demand(session.program) \subseteq Fns \X Nodes
  BY <1>1, SourcesHaveAllPages, KeysType
<1>4. {p} \in SUBSET Pages
  OBVIOUS
<1>5. Scanned(session, {p}) \in Sessions
  BY <1>1, <1>4, ScannedWhole
<1>6. Deps(Scanned(session, {p}), p) \subseteq Decls
  BY <1>5 DEF Deps, Sessions
<1> QED BY <1>2, <1>3, <1>6 DEF Replies

LEMMA TypesStep ==
  ASSUME IInv, IInv', CallsAreTyped, OneRequest, Next
  PROVE  CallsAreTyped'
<1>1. /\ loader \in [Pages -> Loaders] /\ result \in [Pages -> Answers] /\ serving \in Servings
      /\ valid \subseteq Pages
  BY DEF CallsAreTyped, IInv, Gates
<1>2. chain # <<>> => Head(chain) \in [page : Pages, code : PageTexts]
  <2> DEFINE Requests == [page : Pages, code : PageTexts]
  <2>1. chain \in Seq(Requests)
    BY DEF IInv, CallsAreOfPages
  <2> HIDE DEF Requests
  <2>2. chain # <<>> => Head(chain) \in Requests
    BY <2>1
  <2> QED BY <2>2 DEF Requests
<1>3. CASE StartFailed \/ Flush \/ ReadBatch \/ PushBatch \/ ScanBatch \/ RegenerateBatch
  <2>1. Follows(loader, {}) /\ serving' = serving
    BY <1>1, <1>3, QuietSteps
    DEF Quietly, StartFailed, Flush, ReadBatch, PushBatch, ScanBatch, RegenerateBatch, answering
  <2> QED BY <1>1, <2>1 DEF CallsAreTyped, Follows
<1>4. CASE Started \/ \E f \in Files : Edit(f)
  <2>1. serving' = serving /\ \E files : Follows(loader, files)
    BY <1>1, <1>4, NoticedSteps DEF Started, Edit, answering
  <2> QED BY <1>1, <2>1 DEF CallsAreTyped, Follows
<1>5. CASE SettleBatch
  <2>1. \E files : Follows(loader, files)
    BY <1>1, <1>5, NoticedSteps
  <2>2. serving' \in Servings
    <3>1. CASE serving # Idle /\ serving.pc = "waiting" /\ serving.wait > 0
      <4> DEFINE Waiting == [pc : {"waiting"}, page : Pages, code : PageTexts, wait : Nat,
                             missed : SUBSET Files]
      <4>1. serving \notin [pc : {"transformed"}, page : Pages, missed : SUBSET Files,
                            reply : Replies]
        BY <3>1
      <4>2. serving \in Waiting
        BY <1>1, <3>1, <4>1 DEF Servings
      <4>3. serving.wait - 1 \in Nat
        BY <3>1, <4>2
      <4>4. serving' = [serving EXCEPT !.wait = serving.wait - 1]
        BY <1>5, <3>1 DEF SettleBatch, Unwait
      <4>5. serving' \in Waiting
        BY <4>2, <4>3, <4>4
      <4> QED BY <4>5 DEF Servings
    <3>2. CASE ~(serving # Idle /\ serving.pc = "waiting" /\ serving.wait > 0)
      BY <1>1, <1>5, <3>2 DEF SettleBatch, Unwait
    <3> QED BY <3>1, <3>2
  <2> QED BY <2>1, <2>2 DEF CallsAreTyped, Follows
<1>6. CASE \E p \in Pages : Call(p)
  <2>1. PICK p \in Pages : Call(p)
    BY <1>6
  <2>2. [pc |-> "called", changed |-> {}] \in Loaders
    BY DEF Loaders
  <2> QED BY <1>1, <2>1, <2>2 DEF Call, CallsAreTyped
<1>7. CASE Fail
  <2>1. chain # <<>> /\ UNCHANGED <<serving, result>>
    BY <1>7 DEF Fail
  <2> DEFINE p == Head(chain).page
             answer == [NoResult EXCEPT !.deps = {p}]
  <2>2. p \in Pages
    BY <1>2, <2>1
  <2>3. answer = [keys |-> {}, deps |-> {p}, missed |-> {}]
    BY DEF NoResult
  <2>4. answer \in Answers
    BY <2>2, <2>3 DEF Answers, Paths, Files
  <2>5. 1 \in DOMAIN chain /\ Head(chain) = chain[1]
    BY <2>1 DEF IInv, CallsAreOfPages
  <2>6. loader[p] # Idle
    BY <2>5, IdleIsIdle DEF OneRequest
  <2>7. loader' = Replied(p, answer)
    BY <1>7 DEF Fail
  <2> HIDE DEF p, answer
  <2> QED BY <1>1, <2>1, <2>2, <2>4, <2>6, <2>7, RepliedCalls DEF CallsAreTyped
<1>8. CASE Take
  <2>1. UNCHANGED <<loader, result>> /\ chain # <<>>
        /\ serving' = [pc |-> "waiting", page |-> Head(chain).page, code |-> Head(chain).code,
                       wait |-> Len(batches), missed |-> dirty]
    BY <1>8 DEF Take, turbopack
  <2>2. Len(batches) \in Nat /\ dirty \in SUBSET Files
    BY DEF IInv, Edits, Queues
  <2> QED BY <1>1, <1>2, <2>1, <2>2 DEF CallsAreTyped, Servings
<1>9. CASE Transform
  <2>1. UNCHANGED <<loader, result>> /\ serving # Idle
    BY <1>9 DEF Transform, turbopack
  <2>2. serving.page \in Pages /\ serving.missed \in SUBSET Files
    BY <2>1, ServingTypes
  <2>3. NoReply \in Replies
    BY DEF NoReply, Replies
  <2>4. \E reply \in Replies : serving' = [pc |-> "transformed", page |-> serving.page,
                                           missed |-> serving.missed, reply |-> reply]
    BY <1>9, <2>2, <2>3, ReplyType DEF Transform
  <2> QED BY <1>1, <2>1, <2>2, <2>4 DEF CallsAreTyped, Servings
<1>10. CASE Generate
  BY <1>1, <1>10, GeneratedServing DEF Generate, turbopack, CallsAreTyped
<1>11. CASE Answer
  <2>1. serving # Idle /\ serving.pc = "transformed" /\ serving' = Idle
        /\ (Stamped(Replied(serving.page, Answered)) \/ Unstamped(Replied(serving.page, Answered)))
    BY <1>11 DEF Answer, Answered
  <2>2. serving.page \in Pages /\ loader[serving.page] # Idle
    BY <2>1, ServingTypes, IdleIsIdle DEF OneRequest
  <2>3. Replied(serving.page, Answered) \in [Pages -> Loaders]
    BY <2>1, <2>2, AnsweredType, RepliedCalls
  <2>4. \E files : Follows(Replied(serving.page, Answered), files)
    BY <1>1, <2>1, <2>3, RefreshedCalls
  <2> QED BY <2>1, <2>4 DEF CallsAreTyped, Follows, Servings
<1>12. CASE \E p \in Pages : Return(p)
  <2>1. PICK p \in Pages : Return(p)
    BY <1>12
  <2>2. loader[p].answer \in Answers
    BY <2>1, CallTypes DEF Return
  <2>3. result' = result \/ result' = [result EXCEPT ![p] = loader[p].answer]
    BY <2>1 DEF Return
  <2>4. loader' = [loader EXCEPT ![p] = Idle] /\ serving' = serving
    BY <2>1 DEF Return, answering
  <2> QED BY <1>1, <2>2, <2>3, <2>4 DEF CallsAreTyped, Loaders
<1> QED BY <1>3, <1>4, <1>5, <1>6, <1>7, <1>8, <1>9, <1>10, <1>11, <1>12 DEF Next, Absorb, Serve

LEMMA ChainTypes ==
  ASSUME IInv
  PROVE  /\ chain \in Seq([page : Pages, code : PageTexts])
         /\ \A i \in DOMAIN chain : chain[i].page \in Pages /\ chain[i].code \in PageTexts
<1> DEFINE Requests == [page : Pages, code : PageTexts]
<1>1. chain \in Seq(Requests)
  BY DEF IInv, CallsAreOfPages
<1> HIDE DEF Requests
<1>2. \A i \in DOMAIN chain : chain[i] \in Requests
  BY <1>1
<1> QED BY <1>1, <1>2 DEF Requests

\* A step that takes no request keeps the calls as they are, one for each page.
LEMMA RequestsKept ==
  ASSUME IInv, CallsAreTyped, OneRequest, NEW files, Follows(loader, files), chain' = chain,
         serving = Idle <=> serving' = Idle, serving # Idle => serving'.page = serving.page,
         phase' = "starting" => phase = "starting"
  PROVE  OneRequest'
<1>1. \A p \in Pages : loader'[p].pc = loader[p].pc
  BY DEF Follows
<1>2. \A i \in DOMAIN chain : chain[i].page \in Pages
  BY ChainTypes
<1>3. serving # Idle => serving.page \in Pages
  BY ServingTypes
<1>4. valid' \subseteq valid
  BY DEF Follows
<1> QED BY <1>1, <1>2, <1>3, <1>4 DEF OneRequest

LEMMA OneRequestStep ==
  ASSUME IInv, CallsAreTyped, OneRequest, Next
  PROVE  OneRequest'
<1>1. /\ valid \subseteq Pages /\ chain \in Seq([page : Pages, code : PageTexts])
      /\ \A i \in DOMAIN chain : chain[i].page \in Pages
      /\ loader \in [Pages -> Loaders]
  BY ChainTypes DEF IInv, Gates, CallsAreTyped
<1>2. CASE (Quietly /\ ~Take) \/ Started \/ SettleBatch \/ \E f \in Files : Edit(f)
  <2>1. \E files : Follows(loader, files)
    BY <1>1, <1>2, QuietSteps, NoticedSteps
  <2>2. chain' = chain /\ (phase' = "starting" => phase = "starting")
    BY <1>2
    DEF Quietly, StartFailed, Flush, ReadBatch, PushBatch, ScanBatch, RegenerateBatch, Transform,
        Generate, Started, SettleBatch, Edit, answering
  <2>3. Onwards
    BY <1>2 DEF Quietly, Onwards, Absorb
  <2> QED BY <2>1, <2>2, <2>3, ServingSteps, RequestsKept
<1>3. CASE \E p \in Pages : Call(p)
  <2>1. PICK p \in Pages : Call(p)
    BY <1>3
  <2>2. /\ loader[p] = Idle /\ loader' = [loader EXCEPT ![p] = [pc |-> "called", changed |-> {}]]
        /\ chain' = Append(chain, [page |-> p, code |-> disk[p]])
        /\ UNCHANGED <<serving, valid, phase>>
    BY <2>1 DEF Call
  <2>3. \A i \in DOMAIN chain : chain[i].page # p
    BY <2>2, IdleIsIdle DEF OneRequest
  <2>4. serving # Idle => serving.page \in Pages /\ serving.page # p
    BY <2>2, ServingTypes, IdleIsIdle DEF OneRequest
  <2>5. /\ loader'[p].pc = "called" /\ \A q \in Pages : q # p => loader'[q].pc = loader[q].pc
    BY <1>1, <2>2
  <2>6. \A i \in DOMAIN chain' :
          \/ i \in DOMAIN chain /\ chain'[i].page = chain[i].page
          \/ i = Len(chain) + 1 /\ chain'[i].page = p
    BY <1>1, <2>2
  <2>7. Len(chain) + 1 \in DOMAIN chain' /\ chain'[Len(chain) + 1].page = p
    BY <1>1, <2>2
  <2>8. \A i \in DOMAIN chain' : loader'[chain'[i].page].pc = "called"
    BY <1>1, <2>3, <2>5, <2>6 DEF OneRequest
  <2>9. \A i, j \in DOMAIN chain' : chain'[i].page = chain'[j].page => i = j
    BY <2>3, <2>6 DEF OneRequest
  <2>10. serving # Idle => \A i \in DOMAIN chain' : chain'[i].page # serving.page
    BY <2>4, <2>6 DEF OneRequest
  <2>11. serving # Idle => loader'[serving.page].pc = "called"
    BY <2>4, <2>5 DEF OneRequest
  <2>12. phase = "starting" =>
           serving = Idle /\ valid = {} /\ \A q \in Pages : loader'[q].pc # "replied"
    BY <2>5 DEF OneRequest
  <2> QED BY <2>2, <2>8, <2>9, <2>10, <2>11, <2>12 DEF OneRequest
<1>4. CASE Fail \/ Take
  <2>1. chain # <<>> /\ chain' = Tail(chain) /\ phase # "starting" /\ phase' = phase
    BY <1>4 DEF Fail, Take
  <2>2. /\ 1 \in DOMAIN chain /\ Head(chain) = chain[1]
        /\ \A i \in DOMAIN chain' : i + 1 \in DOMAIN chain /\ chain'[i] = chain[i + 1]
    BY <1>1, <2>1
  <2>3. \A i \in DOMAIN chain' : i + 1 # 1 /\ i \in Nat
    BY <1>1, <2>1
  <2>4. \A i \in DOMAIN chain' :
          /\ chain'[i].page \in Pages /\ chain'[i].page # chain[1].page
          /\ loader[chain'[i].page].pc = "called"
    BY <1>1, <2>2, <2>3 DEF OneRequest
  <2>5. \A i, j \in DOMAIN chain' : chain'[i].page = chain'[j].page => i = j
    BY <2>2, <2>3 DEF OneRequest
  <2>6. CASE Fail
    <3>1. serving' = serving /\ \A q \in Pages : q # chain[1].page => loader'[q] = loader[q]
      BY <1>1, <2>2, <2>6 DEF Fail, Replied
    <3>2. serving # Idle =>
            /\ serving.page \in Pages /\ serving.page # chain[1].page
            /\ \A i \in DOMAIN chain' : chain'[i].page # serving.page
      BY <2>2, ServingTypes DEF OneRequest
    <3> QED BY <2>1, <2>4, <2>5, <3>1, <3>2 DEF OneRequest
  <2>7. CASE Take
    <3>1. /\ serving' = [pc |-> "waiting", page |-> chain[1].page, code |-> chain[1].code,
                         wait |-> Len(batches), missed |-> dirty]
          /\ loader' = loader
      BY <2>2, <2>7 DEF Take, turbopack
    <3>2. serving'.page = chain[1].page
      BY <3>1
    <3> QED BY <2>1, <2>2, <2>4, <2>5, <3>1, <3>2 DEF OneRequest
  <2> QED BY <1>4, <2>6, <2>7
<1>5. CASE Answer
  <2>1. /\ serving # Idle /\ serving.pc = "transformed" /\ serving' = Idle /\ chain' = chain
        /\ phase' = phase
        /\ Stamped(Replied(serving.page, Answered)) \/ Unstamped(Replied(serving.page, Answered))
    BY <1>5 DEF Answer, Answered
  <2>2. serving.page \in Pages /\ loader[serving.page] # Idle
    BY <2>1, ServingTypes, IdleIsIdle DEF OneRequest
  <2>3. /\ Replied(serving.page, Answered) \in [Pages -> Loaders]
        /\ \A q \in Pages : q # serving.page => Replied(serving.page, Answered)[q] = loader[q]
    BY <2>1, <2>2, AnsweredType, RepliedCalls
  <2>4. \A q \in Pages : q # serving.page => loader'[q].pc = loader[q].pc
    BY <1>1, <2>1, <2>3, RefreshedCalls DEF CallsAreTyped, Follows
  <2>5. phase # "starting"
    BY <2>1 DEF OneRequest
  <2> QED BY <1>1, <2>1, <2>4, <2>5 DEF OneRequest
<1>6. CASE \E p \in Pages : Return(p)
  <2>1. PICK p \in Pages : Return(p)
    BY <1>6
  <2>2. /\ loader[p].pc = "replied" /\ loader' = [loader EXCEPT ![p] = Idle]
        /\ UNCHANGED <<chain, serving, phase>>
    BY <2>1 DEF Return, answering
  <2>3. \A q \in Pages : q # p => loader'[q] = loader[q]
    BY <1>1, <2>2
  <2>4. phase # "starting"
    BY <2>2 DEF OneRequest
  <2>5. \A i \in DOMAIN chain : chain[i].page # p
    BY <2>2 DEF OneRequest
  <2>6. serving # Idle => serving.page \in Pages /\ serving.page # p
    BY <2>2, ServingTypes DEF OneRequest
  <2> QED BY <1>1, <2>2, <2>3, <2>4, <2>5, <2>6 DEF OneRequest
<1> QED BY <1>2, <1>3, <1>4, <1>5, <1>6 DEF Next, Absorb, Serve, Quietly

-----------------------------------------------------------------------------
\* What each operation does to the listing.
LEMMA ListingOf ==
  ASSUME IInv
  PROVE  /\ Generated(session).tree = Demand(session.program)
         /\ Generated(session).program = session.program
         /\ \A ps \in SUBSET Pages : /\ Scanned(session, ps).tree = session.tree
                                     /\ Scanned(session, ps).program = session.program
         /\ \A sources : Swap(session, sources).tree = session.tree
<1>1. SessionIsWhole
  BY DEF IInv, Edits
<1>2. PagesOf(session.program) = Pages /\ Closed(session.program)
  BY <1>1, SourcesHaveAllPages DEF SessionIsWhole
<1>3. ASSUME NEW ps \in SUBSET Pages
      PROVE  /\ Scanned(session, ps) \in Sessions
             /\ Scanned(session, ps).tree = session.tree
             /\ Scanned(session, ps).program = session.program
  BY <1>1, <1>2, ScannedKeeps DEF SessionIsWhole
<1>4. Scanned(session, PagesOf(session.program)) \in Sessions
  BY <1>2, <1>3
<1>5. Generated(session).tree = Demand(session.program)
  BY <1>4 DEF Generated, Sessions
<1>6. Generated(session).program = session.program
  BY <1>1, GeneratedWhole
<1>7. \A sources : Swap(session, sources).tree = session.tree
  BY <1>1 DEF Swap, SessionIsWhole, Sessions
<1> QED BY <1>3, <1>5, <1>6, <1>7

\* A loader's own generation changes the listing only while a batch goes on.
LEMMA ListingStep ==
  ASSUME IInv, CallsAreTyped, OneRequest, ListingIsStamped, Next
  PROVE  ListingIsStamped'
<1>1. valid \subseteq Pages
  BY DEF IInv, Gates
<1>2. CASE Started
  <2>1. session' = Generated(session) /\ stamp' = session'.tree
    BY <1>2 DEF Started
  <2> QED BY <2>1, ListingOf DEF ListingIsStamped
<1>3. CASE ReadBatch
  BY <1>3 DEF ReadBatch, ListingIsStamped, Idle
<1>4. CASE PushBatch \/ ScanBatch
  <2>1. work'.pc \in {"pushed", "scanned"}
    BY <1>4 DEF PushBatch, ScanBatch
  <2> QED BY <2>1 DEF ListingIsStamped
<1>5. CASE RegenerateBatch
  <2>1. work'.pc = "generated" /\ session' = Generated(session)
    BY <1>5 DEF RegenerateBatch
  <2> QED BY <2>1, ListingOf DEF ListingIsStamped
<1>6. CASE SettleBatch
  <2>1. work.pc = "generated" /\ stamp' = session.tree /\ UNCHANGED <<session, phase>>
    BY <1>1, <1>6, NoticedSteps DEF SettleBatch
  <2> QED BY <2>1 DEF ListingIsStamped
<1>7. CASE Transform
  <2>1. serving # Idle /\ UNCHANGED <<work, stamp, phase>>
        /\ (session' = session \/ session' = Scanned(session, {serving.page}))
    BY <1>7 DEF Transform, absorbing
  <2>2. {serving.page} \in SUBSET Pages
    BY <2>1, ServingTypes
  <2>3. session'.tree = session.tree /\ session'.program = session.program
    BY <2>1, <2>2, ListingOf
  <2> QED BY <2>1, <2>3 DEF ListingIsStamped
<1>8. CASE Generate
  <2>1. session' = Generated(session) /\ UNCHANGED <<work, stamp, phase>>
    BY <1>8 DEF Generate, absorbing
  <2>2. session'.tree = Demand(session'.program) /\ session'.program = session.program
    BY <2>1, ListingOf
  <2> QED BY <2>1, <2>2 DEF ListingIsStamped
<1>9. CASE Answer
  <2>1. stamp' \in {stamp, session.tree} /\ UNCHANGED <<session, work, phase>>
    BY <1>9 DEF Answer, Stamped, Unstamped, absorbing
  <2> QED BY <2>1 DEF ListingIsStamped
<1>10. CASE \/ StartFailed \/ Flush \/ Fail \/ Take
            \/ \E f \in Files : Edit(f)
            \/ \E p \in Pages : Call(p) \/ Return(p)
  <2>1. UNCHANGED <<session, work, stamp>> /\ (phase' = phase \/ phase' = "failed")
    BY <1>10 DEF StartFailed, Flush, Fail, Take, Edit, Call, Return, absorbing
  <2> QED BY <2>1 DEF ListingIsStamped
<1> QED BY <1>2, <1>3, <1>4, <1>5, <1>6, <1>7, <1>8, <1>9, <1>10 DEF Next, Absorb, Serve

-----------------------------------------------------------------------------
\* What is covered after a step.
Then(keys) == Cover(keys, stamp', work'.pc, session'.program)

\* Steps at which nothing but what Turbopack keeps and knows may change.
LEMMA CoveredKept ==
  ASSUME IInv, CallsAreTyped, OneRequest, KeptIsCovered, NEW files, Follows(loader, files),
         phase = "ready", \A keys : Covered(keys) => Then(keys) \/ Stamp \in files,
         serving'.pc = "transformed" =>
           /\ serving.pc = "transformed" /\ serving'.page = serving.page
           /\ serving'.reply.keys = serving.reply.keys
  PROVE  KeptIsCovered'
<1>1. \A p \in valid' : Stamp \in result'[p].deps /\ Then(result'[p].keys)
  BY DEF Follows, KeptIsCovered
<1>2. ASSUME NEW p \in Pages, loader'[p].pc = "replied"
      PROVE  /\ Stamp \in loader'[p].answer.deps
             /\ Stamp \in loader'[p].changed \/ Then(loader'[p].answer.keys)
  <2>1. loader[p].pc = "replied" /\ loader[p] # Idle
    BY <1>2, IdleIsIdle DEF Follows
  <2>2. loader'[p].answer = loader[p].answer /\ loader'[p].changed = loader[p].changed \union files
    BY <2>1 DEF Follows
  <2> QED BY <2>1, <2>2 DEF KeptIsCovered
<1>3. ASSUME serving'.pc = "transformed"
      PROVE  Stamp \in loader'[serving'.page].changed \/ Then(serving'.reply.keys)
  <2>1. serving # Idle /\ serving.page \in Pages /\ loader[serving.page] # Idle
    BY <1>3, ServingTypes, IdleIsIdle DEF OneRequest
  <2>2. loader'[serving.page].changed = loader[serving.page].changed \union files
    BY <2>1 DEF Follows
  <2> QED BY <1>3, <2>1, <2>2 DEF KeptIsCovered
<1> QED BY <1>1, <1>2, <1>3 DEF KeptIsCovered, Covered, Then

\* The batch in progress: what was covered stays so, or the stamp is forced.
LEMMA AbsorbCovers ==
  ASSUME IInv, IInv', CallsAreTyped, OneRequest, ListingIsStamped, KeptIsCovered, Absorb,
         phase = "ready"
  PROVE  KeptIsCovered'
<1>1. valid \subseteq Pages
  BY DEF IInv, Gates
<1>2. CASE SettleBatch
  <2>1. /\ work.pc = "generated" /\ session' = session
        /\ \/ Follows(loader, {Stamp})
           \/ stamp' = stamp /\ stamp = session.tree /\ Follows(loader, {})
    BY <1>1, <1>2, NoticedSteps DEF SettleBatch
  <2>2. session.tree = Demand(session.program)
    BY <2>1 DEF ListingIsStamped
  <2>3. serving'.pc = "transformed" => serving' = serving
    <3>1. serving' = serving \/ (serving.pc = "waiting" /\ serving' = [serving EXCEPT !.wait = @ - 1])
      BY <1>2 DEF SettleBatch, Unwait
    <3>2. ASSUME serving.pc = "waiting", serving' = [serving EXCEPT !.wait = @ - 1]
          PROVE  serving'.pc = "waiting"
      BY <3>2
    <3> QED BY <3>1, <3>2
  <2>4. CASE Follows(loader, {Stamp})
    BY <2>3, <2>4, CoveredKept
  <2>5. CASE stamp' = stamp /\ stamp = session.tree /\ Follows(loader, {})
    <3>1. \A keys : Covered(keys) => Then(keys)
      BY <2>1, <2>2, <2>5 DEF Covered, Then, Cover
    <3> QED BY <2>3, <2>5, <3>1, CoveredKept
  <2> QED BY <2>1, <2>4, <2>5
<1>3. CASE ReadBatch \/ PushBatch \/ ScanBatch \/ RegenerateBatch
  <2>1. Follows(loader, {}) /\ serving' = serving /\ stamp' = stamp
    BY <1>1, <1>3, QuietSteps
    DEF Quietly, ReadBatch, PushBatch, ScanBatch, RegenerateBatch, answering
  <2>2. \A keys : Covered(keys) => Then(keys)
    <3>1. CASE ReadBatch
      BY <2>1, <3>1 DEF ReadBatch, Covered, Then, Cover, Idle
    <3>2. CASE PushBatch
      BY <2>1, <3>2 DEF PushBatch, Covered, Then, Cover
    <3>3. CASE ScanBatch
      <4>1. Batch \cap Pages \in SUBSET Pages
        OBVIOUS
      <4>2. session'.program = session.program /\ work'.pc = "scanned"
        BY <3>3, <4>1, ListingOf DEF ScanBatch
      <4> QED BY <2>1, <3>3, <4>2 DEF Covered, Then, Cover
    <3>4. CASE RegenerateBatch
      <4>1. session'.program = session.program /\ work'.pc = "generated"
        BY <3>4, ListingOf DEF RegenerateBatch
      <4> QED BY <2>1, <3>4, <4>1 DEF Covered, Then, Cover
    <3> QED BY <1>3, <3>1, <3>2, <3>3, <3>4
  <2> QED BY <2>1, <2>2, CoveredKept
<1> QED BY <1>2, <1>3 DEF Absorb

\* The modules a page asks for are the program's, hence covered.
LEMMA KeysAreCovered ==
  ASSUME IInv, ListingIsStamped, phase = "ready", NEW p \in Pages
  PROVE  Covered(Keys(session.program, p))
<1>1. Keys(session.program, p) \subseteq Demand(session.program)
  BY SourcesHaveAllPages DEF Demand, IInv, Edits, SessionIsWhole
<1> QED BY <1>1 DEF ListingIsStamped, Covered, Cover

LEMMA TransformCovers ==
  ASSUME IInv, CallsAreTyped, ListingIsStamped, KeptIsCovered, Transform, phase = "ready"
  PROVE  KeptIsCovered'
<1>1. serving # Idle /\ serving.page \in Pages
  BY ServingTypes DEF Transform
<1>2. UNCHANGED <<phase, loader, result, valid, stamp, work>>
  BY DEF Transform, absorbing, turbopack
<1>3. session'.program = session.program
  <2>1. {serving.page} \in SUBSET Pages
    BY <1>1
  <2> QED BY <2>1, ListingOf DEF Transform
<1>4. \A keys : Covered(keys) => Then(keys)
  BY <1>2, <1>3 DEF Covered, Then
<1>5. Covered(serving'.reply.keys)
  <2>1. CASE PassesGate(serving.page, serving.code)
    <3>1. serving'.reply.keys = Keys(session.program, serving.page)
      BY <2>1 DEF Transform
    <3> QED BY <1>1, <3>1, KeysAreCovered
  <2>2. CASE ~PassesGate(serving.page, serving.code)
    BY <2>2 DEF Transform, NoReply, Covered, Cover
  <2> QED BY <2>1, <2>2
<1> QED BY <1>2, <1>4, <1>5 DEF KeptIsCovered, Covered, Then

LEMMA AnswerCovers ==
  ASSUME IInv, CallsAreTyped, OneRequest, KeptIsCovered, Answer, phase = "ready"
  PROVE  KeptIsCovered'
<1> DEFINE calls == Replied(serving.page, Answered)
<1>1. /\ serving # Idle /\ serving.pc = "transformed" /\ serving' = Idle
      /\ Stamped(calls) \/ Unstamped(calls)
      /\ UNCHANGED <<phase, session, work>>
  BY DEF Answer, Answered, absorbing
<1>2. serving.page \in Pages /\ loader[serving.page] # Idle
  BY <1>1, ServingTypes, IdleIsIdle DEF OneRequest
<1>3. /\ calls \in [Pages -> Loaders]
      /\ calls[serving.page] = [pc |-> "replied", changed |-> loader[serving.page].changed,
                                answer |-> Answered]
      /\ \A q \in Pages : q # serving.page => calls[q] = loader[q]
  BY <1>1, <1>2, AnsweredType, RepliedCalls
<1>4. Answered.keys = serving.reply.keys /\ Stamp \in Answered.deps
  BY <1>1, AnsweredType
<1> HIDE DEF calls
<1>5. \A p \in Pages : calls[p].pc = "replied" =>
        /\ calls[p] # Idle /\ Stamp \in calls[p].answer.deps
        /\ Stamp \in calls[p].changed \/ Covered(calls[p].answer.keys)
  <2>1. ASSUME NEW p \in Pages, calls[p].pc = "replied", p # serving.page
        PROVE  /\ calls[p] # Idle /\ Stamp \in calls[p].answer.deps
               /\ Stamp \in calls[p].changed \/ Covered(calls[p].answer.keys)
    BY <1>3, <2>1, IdleIsIdle DEF KeptIsCovered
  <2>2. /\ calls[serving.page].pc = "replied" /\ calls[serving.page].answer = Answered
        /\ calls[serving.page].changed = loader[serving.page].changed
    BY <1>3
  <2>3. /\ calls[serving.page] # Idle /\ Stamp \in calls[serving.page].answer.deps
        /\ Stamp \in calls[serving.page].changed \/ Covered(calls[serving.page].answer.keys)
    BY <1>1, <1>4, <2>2, IdleIsIdle DEF KeptIsCovered
  <2> QED BY <2>1, <2>3
<1>6. serving'.pc # "transformed"
  BY <1>1, IdleIsIdle
<1>7. PICK files : /\ Follows(calls, files)
                   /\ Stamp \in files \/ stamp' = stamp
  BY <1>1, <1>3, RefreshedCalls DEF CallsAreTyped, IInv, Gates
<1>8. \A keys : Covered(keys) => Then(keys) \/ Stamp \in files
  BY <1>1, <1>7 DEF Covered, Then
<1>9. \A p \in valid' : Stamp \in result'[p].deps /\ Then(result'[p].keys)
  BY <1>7, <1>8 DEF Follows, KeptIsCovered
<1>10. \A p \in Pages : loader'[p].pc = "replied" =>
         /\ Stamp \in loader'[p].answer.deps
         /\ Stamp \in loader'[p].changed \/ Then(loader'[p].answer.keys)
  BY <1>5, <1>7, <1>8 DEF Follows
<1> QED BY <1>6, <1>9, <1>10 DEF KeptIsCovered, Covered, Then

LEMMA CoveredStep ==
  ASSUME IInv, IInv', CallsAreTyped, OneRequest, ListingIsStamped, KeptIsCovered, Next
  PROVE  KeptIsCovered'
<1>1. valid \subseteq Pages /\ loader \in [Pages -> Loaders] /\ result \in [Pages -> Answers]
  BY DEF IInv, Gates, CallsAreTyped
<1>2. CASE Started
  <2>1. phase = "starting" /\ serving' = serving /\ Follows(loader, {Stamp})
    BY <1>1, <1>2, NoticedSteps DEF Started, answering
  <2> QED BY <2>1, IdleIsIdle DEF OneRequest, Follows, KeptIsCovered
<1>3. CASE phase # "ready" /\ ~Started
  <2>1. phase' # "ready"
    BY <1>3
    DEF Next, Absorb, Serve, StartFailed, Flush, ReadBatch, PushBatch, ScanBatch,
        RegenerateBatch, SettleBatch, Fail, Take, Transform, Generate, Answer, Edit, Call, Return
  <2> QED BY <2>1 DEF KeptIsCovered
<1>4. CASE StartFailed \/ Fail
  <2>1. phase' # "ready"
    BY <1>4 DEF StartFailed, Fail
  <2> QED BY <2>1 DEF KeptIsCovered
<1>5. CASE phase = "ready" /\ Absorb
  BY <1>5, AbsorbCovers
<1>6. CASE phase = "ready" /\ Transform
  BY <1>6, TransformCovers
<1>7. CASE phase = "ready" /\ Answer
  BY <1>7, AnswerCovers
<1>8. CASE phase = "ready" /\ (Flush \/ Take \/ Generate \/ \E f \in Files : Edit(f))
  <2>1. \E files : Follows(loader, files)
    BY <1>1, <1>8, QuietSteps, NoticedSteps DEF Quietly
  <2>2. UNCHANGED <<stamp, work>> /\ session'.program = session.program
    BY <1>8, ListingOf DEF Flush, Take, Generate, Edit, absorbing
  <2>3. \A keys : Covered(keys) => Then(keys)
    BY <2>2 DEF Covered, Then
  <2>4. serving'.pc = "transformed" => /\ serving.pc = "transformed" /\ serving'.page = serving.page
                                       /\ serving'.reply.keys = serving.reply.keys
    <3>1. CASE Flush \/ \E f \in Files : Edit(f)
      BY <3>1 DEF Flush, Edit, answering
    <3>2. CASE Take
      BY <3>2 DEF Take
    <3>3. CASE Generate
      BY <3>3, GeneratedServing, ServingTypes DEF Replies
    <3> QED BY <1>8, <3>1, <3>2, <3>3
  <2> QED BY <1>8, <2>1, <2>3, <2>4, CoveredKept
<1>9. CASE phase = "ready" /\ \E p \in Pages : Call(p)
  <2>1. PICK p \in Pages : Call(p)
    BY <1>9
  <2>2. /\ UNCHANGED <<phase, session, work, stamp, serving, result, valid>>
        /\ loader[p] = Idle /\ loader' = [loader EXCEPT ![p] = [pc |-> "called", changed |-> {}]]
    BY <2>1 DEF Call, absorbing
  <2>3. /\ loader'[p].pc = "called" /\ \A q \in Pages : q # p => loader'[q] = loader[q]
    BY <1>1, <2>2
  <2>4. serving.pc = "transformed" => serving.page \in Pages /\ serving.page # p
    BY <2>2, ServingTypes, IdleIsIdle DEF OneRequest
  <2> QED BY <2>2, <2>3, <2>4 DEF KeptIsCovered, Covered
<1>10. CASE phase = "ready" /\ \E p \in Pages : Return(p)
  <2>1. PICK p \in Pages : Return(p)
    BY <1>10
  <2>2. /\ UNCHANGED <<phase, session, work, stamp, serving>>
        /\ loader[p].pc = "replied" /\ loader' = [loader EXCEPT ![p] = Idle]
        /\ \/ /\ loader[p].changed \cap loader[p].answer.deps = {}
              /\ result' = [result EXCEPT ![p] = loader[p].answer] /\ valid' = valid \union {p}
           \/ UNCHANGED <<result, valid>>
    BY <2>1 DEF Return, absorbing, answering
  <2>3. /\ loader'[p].pc = "idle" /\ \A q \in Pages : q # p => loader'[q] = loader[q]
    BY <1>1, <2>2, IdleIsIdle
  <2>4. serving.pc = "transformed" => serving.page \in Pages /\ serving.page # p
    BY <2>2, ServingTypes, IdleIsIdle DEF OneRequest
  <2>5. \A q \in valid' : Stamp \in result'[q].deps /\ Covered(result'[q].keys)
    BY <1>1, <1>10, <2>2 DEF KeptIsCovered
  <2> QED BY <2>2, <2>3, <2>4, <2>5 DEF KeptIsCovered, Covered
<1> QED BY <1>2, <1>3, <1>4, <1>5, <1>6, <1>7, <1>8, <1>9, <1>10 DEF Next, Serve

-----------------------------------------------------------------------------
LEMMA GateStep ==
  ASSUME IInv, GateIsCurrent, Next
  PROVE  GateIsCurrent'
<1> USE DEF GateIsCurrent
<1>1. /\ batches \in Seq(SUBSET Files)
      /\ work # Idle => batches # <<>>
      /\ session.program \in Sources /\ siteFiles \subseteq Pages
  BY DEF IInv, Edits, Queues, SessionIsWhole, Gates
<1>2. CASE Started
  <2>1. session'.program = session.program /\ siteFiles' = SitesOf(session.program)
    BY <1>2, ListingOf DEF Started
  <2>2. \A p \in Pages : session.program[p] = {} \/ p \in SitesOf(session.program)
    BY <1>1, SourcesHaveAllPages DEF SitesOf
  <2> QED BY <2>1, <2>2
<1>3. CASE \E f \in Files : Edit(f)
  BY <1>3 DEF Edit, absorbing
<1>4. CASE Flush
  <2>1. /\ batches' = Append(batches, dirty) /\ UNCHANGED <<session, phase, siteFiles, work>>
    BY <1>4 DEF Flush
  <2>2. /\ \A i \in DOMAIN batches : i \in DOMAIN batches' /\ batches'[i] = batches[i]
        /\ Len(batches) + 1 \in DOMAIN batches' /\ batches'[Len(batches) + 1] = dirty
    BY <1>1, <2>1 DEF IInv, Edits, Queues
  <2>3. Len(batches) + 1 > 1 \/ work.pc # "generated"
    BY <1>1, IdleIsIdle
  <2> QED BY <2>1, <2>2, <2>3
<1>5. CASE ReadBatch
  BY <1>5 DEF ReadBatch
<1>6. CASE PushBatch
  <2> DEFINE seeded == IF overlay = NoSources THEN disk ELSE overlay
             pushed == [f \in Files |-> IF f \in Batch THEN work.texts[f] ELSE seeded[f]]
  <2>1. /\ work.pc = "read" /\ work'.pc = "pushed" /\ session'.program = Loaded(pushed, disk)
        /\ UNCHANGED <<phase, siteFiles, dirty, batches>>
    BY <1>6 DEF PushBatch, Swap, IInv, Edits, SessionIsWhole, Sessions
  <2>2. Loaded(pushed, disk) = pushed
    BY DEF Loaded
  <2>3. work # Idle /\ batches # <<>>
    BY <1>1, <2>1, IdleIsIdle
  <2>4. 1 \in DOMAIN batches /\ Batch = batches[1]
    BY <1>1, <2>3 DEF Batch
  <2>5. ASSUME NEW p \in Pages, p \notin Batch
        PROVE  pushed[p] \in {disk[p], session.program[p]}
    BY <2>5 DEF IInv, Edits, OverlayIsProgram, Files
  <2>6. ASSUME NEW p \in Pages, session.program[p] # disk[p], p \notin Batch
        PROVE  p \in dirty \/ \E i \in DOMAIN batches : p \in batches[i]
    BY <2>6 DEF IInv, Edits, NoEditIsLost, Files
  <2> HIDE DEF pushed
  <2> QED BY <1>6, <2>1, <2>2, <2>4, <2>5, <2>6 DEF PushBatch
<1>7. CASE ScanBatch
  <2>1. Batch \cap Pages \in SUBSET Pages
    OBVIOUS
  <2>2. session'.program = session.program /\ work'.pc = "scanned" /\ work.pc = "pushed"
    BY <1>7, <2>1, ListingOf DEF ScanBatch
  <2> QED BY <1>7, <2>2 DEF ScanBatch
<1>8. CASE RegenerateBatch
  <2>1. /\ session'.program = session.program
        /\ siteFiles' = (siteFiles \ Batch) \union (SitesOf(session.program) \cap Batch)
        /\ UNCHANGED <<phase, dirty, batches>> /\ work.pc = "scanned"
    BY <1>8, ListingOf DEF RegenerateBatch
  <2>2. \A p \in Pages : session.program[p] = {} \/ p \in SitesOf(session.program)
    BY <1>1, SourcesHaveAllPages DEF SitesOf
  <2>3. work # Idle /\ Batch = batches[1]
    BY <1>1, <2>1, IdleIsIdle DEF Batch
  <2>4. \A p \in Pages : p \in batches[1] => session.program[p] = {} \/ p \in siteFiles'
    BY <2>1, <2>2, <2>3
  <2>5. \A i \in DOMAIN batches : i = 1 \/ i > 1
    BY <1>1
  <2>6. \A p \in Pages : p \notin batches[1] => (p \in siteFiles => p \in siteFiles')
    BY <2>1, <2>3
  <2> QED BY <2>1, <2>4, <2>5, <2>6
<1>9. CASE SettleBatch
  <2>1. /\ work.pc = "generated" /\ work' = Idle /\ batches' = Tail(batches)
        /\ UNCHANGED <<session, phase, siteFiles, dirty>>
    BY <1>9 DEF SettleBatch
  <2>2. batches # <<>>
    BY <1>1, <2>1, IdleIsIdle
  <2>3. \A i \in DOMAIN batches : i > 1 => i - 1 \in DOMAIN batches' /\ batches'[i - 1] = batches[i]
    BY <1>1, <2>1, <2>2
  <2> QED BY <2>1, <2>3, IdleIsIdle
<1>10. CASE \/ StartFailed \/ Serve
            \/ \E p \in Pages : Call(p) \/ Return(p)
  <2>1. UNCHANGED <<siteFiles, dirty, batches, work>> /\ (phase' = phase \/ phase' = "failed")
    BY <1>10
    DEF StartFailed, Serve, Fail, Take, Transform, Generate, Answer, Call, Return, absorbing
  <2>2. session'.program = session.program
    <3>1. serving # Idle => {serving.page} \in SUBSET Pages
      BY DEF IInv, CallsAreOfPages
    <3> QED BY <1>10, <3>1, ListingOf
            DEF StartFailed, Serve, Fail, Take, Transform, Generate, Answer, Call, Return, absorbing
  <2> QED BY <2>1, <2>2
<1> QED BY <1>2, <1>3, <1>4, <1>5, <1>6, <1>7, <1>8, <1>9, <1>10 DEF Next, Absorb

-----------------------------------------------------------------------------
LEMMA ChainStep ==
  ASSUME IInv, CallsAreTyped, OneRequest, ChainIsCurrent, Next
  PROVE  ChainIsCurrent'
<1> USE DEF ChainIsCurrent
<1>1. /\ valid \subseteq Pages /\ loader \in [Pages -> Loaders] /\ result \in [Pages -> Answers]
      /\ chain \in Seq([page : Pages, code : PageTexts])
      /\ \A i \in DOMAIN chain : /\ chain[i].page \in Pages
                                 /\ loader[chain[i].page].pc = "called"
                                 /\ loader[chain[i].page] # Idle
  BY ChainTypes, IdleIsIdle DEF IInv, Gates, CallsAreTyped, OneRequest
<1>2. CASE \E f \in Files : Edit(f)
  <2>1. PICK f \in Files : Edit(f)
    BY <1>2
  <2>2. Follows(loader, {f}) /\ chain' = chain
    BY <1>1, <2>1, NoticedSteps DEF Edit, answering
  <2>3. \A g \in Files : g # f => disk'[g] = disk[g]
    BY <2>1 DEF Edit, IInv, Edits, Sources
  <2> QED BY <1>1, <2>2, <2>3 DEF Follows, Files
<1>3. CASE (Quietly /\ ~Take) \/ Started \/ SettleBatch
  <2>1. \E files : Follows(loader, files)
    BY <1>1, <1>3, QuietSteps, NoticedSteps
  <2>2. UNCHANGED <<chain, disk>>
    BY <1>3
    DEF Quietly, StartFailed, Flush, ReadBatch, PushBatch, ScanBatch, RegenerateBatch, Transform,
        Generate, Started, SettleBatch, answering
  <2> QED BY <1>1, <2>1, <2>2 DEF Follows
<1>4. CASE \E p \in Pages : Call(p)
  <2>1. PICK p \in Pages : Call(p)
    BY <1>4
  <2>2. /\ loader[p] = Idle /\ disk' = disk
        /\ loader' = [loader EXCEPT ![p] = [pc |-> "called", changed |-> {}]]
        /\ chain' = Append(chain, [page |-> p, code |-> disk[p]])
    BY <2>1 DEF Call
  <2>3. \A i \in DOMAIN chain' :
          \/ i \in DOMAIN chain /\ chain'[i] = chain[i]
          \/ chain'[i] = [page |-> p, code |-> disk[p]]
    BY <1>1, <2>2
  <2>4. \A i \in DOMAIN chain : loader'[chain[i].page] = loader[chain[i].page]
    BY <1>1, <2>2
  <2> QED BY <2>2, <2>3, <2>4
<1>5. CASE Fail \/ Take
  <2>1. chain # <<>> /\ chain' = Tail(chain) /\ disk' = disk
    BY <1>5 DEF Fail, Take
  <2>2. /\ 1 \in DOMAIN chain /\ Head(chain) = chain[1]
        /\ \A i \in DOMAIN chain' : /\ i + 1 \in DOMAIN chain /\ i + 1 # 1
                                    /\ chain'[i] = chain[i + 1]
    BY <1>1, <2>1
  <2>3. \A i \in DOMAIN chain' : chain[i + 1].page # chain[1].page
    BY <2>2 DEF OneRequest
  <2>4. \A q \in Pages : q # chain[1].page => loader'[q] = loader[q]
    BY <1>1, <1>5, <2>2 DEF Fail, Take, Replied, turbopack
  <2> QED BY <1>1, <2>1, <2>2, <2>3, <2>4
<1>6. CASE Answer
  <2>1. /\ serving # Idle /\ serving.pc = "transformed" /\ UNCHANGED <<chain, disk>>
        /\ Stamped(Replied(serving.page, Answered)) \/ Unstamped(Replied(serving.page, Answered))
    BY <1>6 DEF Answer, Answered
  <2>2. serving.page \in Pages /\ loader[serving.page] # Idle
    BY <2>1, ServingTypes, IdleIsIdle DEF OneRequest
  <2>3. /\ Replied(serving.page, Answered) \in [Pages -> Loaders]
        /\ \A q \in Pages : q # serving.page => Replied(serving.page, Answered)[q] = loader[q]
    BY <2>1, <2>2, AnsweredType, RepliedCalls
  <2>4. \E files : Follows(Replied(serving.page, Answered), files)
    BY <1>1, <2>1, <2>3, RefreshedCalls
  <2>5. \A i \in DOMAIN chain : chain[i].page # serving.page
    BY <2>1 DEF OneRequest
  <2> QED BY <1>1, <2>1, <2>3, <2>4, <2>5 DEF Follows
<1>7. CASE \E p \in Pages : Return(p)
  <2>1. PICK p \in Pages : Return(p)
    BY <1>7
  <2>2. /\ loader[p].pc = "replied" /\ loader' = [loader EXCEPT ![p] = Idle]
        /\ UNCHANGED <<chain, disk>>
    BY <2>1 DEF Return, answering
  <2>3. \A i \in DOMAIN chain : loader'[chain[i].page] = loader[chain[i].page]
    BY <1>1, <2>2
  <2> QED BY <2>2, <2>3
<1> QED BY <1>2, <1>3, <1>4, <1>5, <1>6, <1>7 DEF Next, Absorb, Serve, Quietly

LEMMA WaitStep ==
  ASSUME IInv, CallsAreTyped, OneRequest, ChainIsCurrent, WaitIsCurrent, Next
  PROVE  WaitIsCurrent'
<1> USE DEF WaitIsCurrent
<1>1. /\ valid \subseteq Pages /\ loader \in [Pages -> Loaders] /\ result \in [Pages -> Answers]
      /\ batches \in Seq(SUBSET Files) /\ dirty \in SUBSET Files
  BY DEF IInv, Gates, CallsAreTyped, Edits, Queues
<1>2. serving.pc = "waiting" =>
        /\ serving # Idle /\ serving.page \in Pages /\ loader[serving.page] # Idle
        /\ serving.wait \in Nat
  BY ServingTypes, IdleIsIdle DEF OneRequest
<1>3. CASE \E f \in Files : Edit(f)
  <2>1. PICK f \in Files : Edit(f)
    BY <1>3
  <2>2. /\ Follows(loader, {f}) /\ serving' = serving /\ dirty' = dirty \union {f}
        /\ batches' = batches
    BY <1>1, <2>1, NoticedSteps DEF Edit, answering, absorbing
  <2>3. \A g \in Files : g # f => disk'[g] = disk[g]
    BY <2>1 DEF Edit, IInv, Edits, Sources
  <2> QED BY <1>2, <2>2, <2>3 DEF Follows, Files
<1>4. CASE Flush
  <2>1. /\ UNCHANGED <<serving, loader, disk>> /\ batches' = Append(batches, dirty) /\ dirty' = {}
    BY <1>4 DEF Flush, answering, turbopack
  <2>2. \A i \in DOMAIN batches' : \/ i \in DOMAIN batches /\ batches'[i] = batches[i]
                                   \/ batches'[i] = dirty
    BY <1>1, <2>1
  <2> QED BY <2>1, <2>2
<1>5. CASE SettleBatch
  <2>1. /\ \E files : Follows(loader, files)
        /\ batches' = Tail(batches) /\ UNCHANGED <<disk, dirty>> /\ work # Idle
    BY <1>1, <1>5, NoticedSteps, IdleIsIdle DEF SettleBatch
  <2>2. batches # <<>>
    BY <2>1 DEF IInv, Edits, Queues
  <2>3. \A i \in DOMAIN batches' : /\ i \in Nat /\ i > 0 /\ i + 1 \in DOMAIN batches
                                   /\ batches'[i] = batches[i + 1]
    BY <1>1, <2>1, <2>2
  <2>4. ASSUME serving'.pc = "waiting"
        PROVE  /\ serving.pc = "waiting" /\ serving'.page = serving.page
               /\ serving'.code = serving.code /\ serving'.missed = serving.missed
               /\ \/ serving.wait > 0 /\ serving'.wait = serving.wait - 1
                  \/ serving.wait = 0 /\ serving'.wait = 0
    <3>1. CASE serving # Idle /\ serving.pc = "waiting" /\ serving.wait > 0
      <4>1. serving' = [serving EXCEPT !.wait = serving.wait - 1]
        BY <1>5, <3>1 DEF SettleBatch, Unwait
      <4>2. serving \in [pc : {"waiting"}, page : Pages, code : PageTexts, wait : Nat,
                         missed : SUBSET Files]
        <5>1. serving \notin [pc : {"transformed"}, page : Pages, missed : SUBSET Files,
                              reply : Replies]
          BY <3>1
        <5> QED BY <3>1, <5>1 DEF CallsAreTyped, Servings
      <4> QED BY <3>1, <4>1, <4>2
    <3>2. CASE ~(serving # Idle /\ serving.pc = "waiting" /\ serving.wait > 0)
      <4>1. serving' = serving
        BY <1>5, <3>2 DEF SettleBatch, Unwait
      <4> QED BY <1>2, <2>4, <3>2, <4>1
    <3> QED BY <3>1, <3>2
  <2>5. ASSUME serving'.pc = "waiting"
        PROVE  /\ serving.page \in Pages /\ loader[serving.page].changed \subseteq loader'[serving.page].changed
               /\ serving.wait \in Nat
    BY <1>2, <2>1, <2>4, <2>5 DEF Follows
  <2> QED BY <2>1, <2>3, <2>4, <2>5
<1>6. CASE Take
  <2>1. /\ chain # <<>> /\ UNCHANGED <<loader, disk, dirty, batches>>
        /\ serving' = [pc |-> "waiting", page |-> Head(chain).page, code |-> Head(chain).code,
                       wait |-> Len(batches), missed |-> dirty]
    BY <1>6 DEF Take, turbopack, absorbing
  <2>2. 1 \in DOMAIN chain /\ Head(chain) = chain[1]
    BY <2>1, ChainTypes
  <2>3. \A i \in DOMAIN batches : i <= Len(batches)
    BY <1>1
  <2> QED BY <2>1, <2>2, <2>3 DEF ChainIsCurrent
<1>7. CASE Transform \/ Generate \/ Answer
  <2>1. serving'.pc # "waiting"
    BY <1>7, GeneratedServing, IdleIsIdle DEF Transform, Answer
  <2> QED BY <2>1
<1>8. CASE Started \/ StartFailed \/ ReadBatch \/ PushBatch \/ ScanBatch \/ RegenerateBatch
  <2>1. \E files : Follows(loader, files)
    BY <1>1, <1>8, QuietSteps, NoticedSteps DEF Quietly
  <2>2. UNCHANGED <<serving, disk, dirty, batches>>
    BY <1>8
    DEF Started, StartFailed, ReadBatch, PushBatch, ScanBatch, RegenerateBatch, answering, absorbing
  <2> QED BY <1>2, <2>1, <2>2 DEF Follows
<1>9. CASE Fail \/ \E p \in Pages : Call(p) \/ Return(p)
  <2>1. UNCHANGED <<serving, disk, dirty, batches>>
    BY <1>9 DEF Fail, Call, Return, absorbing, answering
  <2>2. ASSUME serving.pc = "waiting"
        PROVE  loader'[serving.page] = loader[serving.page]
    <3>1. CASE Fail
      <4>1. chain # <<>> /\ 1 \in DOMAIN chain /\ Head(chain) = chain[1]
        BY <3>1, ChainTypes DEF Fail
      <4>2. chain[1].page # serving.page
        BY <1>2, <2>2, <4>1 DEF OneRequest
      <4> QED BY <1>1, <1>2, <2>2, <3>1, <4>1, <4>2 DEF Fail, Replied
    <3>2. CASE \E p \in Pages : Call(p) \/ Return(p)
      <4>1. loader[serving.page].pc = "called"
        BY <1>2, <2>2 DEF OneRequest
      <4> QED BY <1>1, <1>2, <2>2, <3>2, <4>1, IdleIsIdle DEF Call, Return
    <3> QED BY <1>9, <3>1, <3>2
  <2> QED BY <2>1, <2>2
<1> QED BY <1>3, <1>4, <1>5, <1>6, <1>7, <1>8, <1>9 DEF Next, Absorb, Serve

\* Knowing of more changes, an answer that is current stays so.
LEMMA CurrentOfMore ==
  ASSUME NEW texts, NEW p, NEW answer, NEW changed, NEW more, changed \subseteq more,
         CurrentOn(texts, p, answer, changed)
  PROVE  CurrentOn(texts, p, answer, more)
BY DEF CurrentOn

\* An edit is of a file that the answer declares, or does not matter to it.
LEMMA CurrentEdited ==
  ASSUME NEW old, NEW new, NEW p, NEW f, \A g : g # f /\ g \in Files => new[g] = old[g],
         old \in Sources, p \in Pages, NEW answer, NEW changed, CurrentOn(old, p, answer, changed)
  PROVE  CurrentOn(new, p, answer, changed \union {f})
<1> SUFFICES ASSUME answer.deps \cap (changed \union {f}) = {}, p \notin answer.missed
             PROVE  /\ p \in answer.deps
                    /\ Named(new[p]) \subseteq answer.deps
                    /\ Mentioned(new[p]) \subseteq answer.deps \ answer.missed =>
                         answer.keys = Keys(new, p)
  BY DEF CurrentOn
<1>1. p \in answer.deps /\ f \notin answer.deps /\ Named(old[p]) \subseteq answer.deps
  BY DEF CurrentOn
<1>2. new[p] = old[p]
  BY <1>1 DEF Files
<1>3. ASSUME Mentioned(new[p]) \subseteq answer.deps \ answer.missed
      PROVE  answer.keys = Keys(new, p)
  <2>1. old[p] \in PageTexts
    BY DEF Sources, TextsOf, Files
  <2>2. Mentioned(old[p]) \subseteq Decls
    BY <2>1, MentionedAreDecls
  <2>3. \A d \in Mentioned(old[p]) : new[d] = old[d]
    BY <1>1, <1>2, <1>3, <2>2 DEF Files
  <2>4. answer.keys = Keys(old, p)
    BY <1>2, <1>3 DEF CurrentOn
  <2> QED BY <1>2, <2>3, <2>4, KeysOfTexts
<1> QED BY <1>1, <1>2, <1>3

\* A file that was settled when the request was taken, and has not been edited
\* since, has its present text in the program once the batches are awaited.
LEMMA SettledIsAbsorbed ==
  ASSUME IInv, CallsAreTyped, WaitIsCurrent, serving.pc = "waiting", serving.wait = 0,
         NEW f \in Files \ (serving.missed \union loader[serving.page].changed)
  PROVE  /\ session.program[f] = disk[f]
         /\ f \notin dirty /\ \A i \in DOMAIN batches : f \notin batches[i]
<1>1. f \notin dirty
  BY DEF WaitIsCurrent
<1>2. \A i \in DOMAIN batches : f \notin batches[i]
  <2>1. \A i \in DOMAIN batches : i \in Nat /\ i > 0
    BY DEF IInv, Edits, Queues
  <2>2. \A i \in DOMAIN batches : f \in batches[i] => i <= 0
    BY DEF WaitIsCurrent
  <2>3. ASSUME NEW i \in DOMAIN batches, f \in batches[i]
        PROVE  FALSE
    <3>1. i \in Nat /\ i > 0 /\ i <= 0
      BY <2>1, <2>2, <2>3
    <3> QED BY <3>1
  <2> QED BY <2>3
<1> QED BY <1>1, <1>2 DEF IInv, Edits, NoEditIsLost

\* What the transform answers is current.
LEMMA TransformIsCurrent ==
  ASSUME IInv, CallsAreTyped, OneRequest, GateIsCurrent, WaitIsCurrent, Transform,
         phase = "ready", CallsAreTyped'
  PROVE  CurrentOn(disk, serving.page, Answered', loader[serving.page].changed)
<1> DEFINE p == serving.page
           changed == loader[serving.page].changed
           after == Scanned(session, {p})
<1>1. /\ serving # Idle /\ serving.pc = "waiting" /\ serving.wait = 0
      /\ serving'.pc = "transformed" /\ serving'.page = p /\ serving'.missed = serving.missed
  BY DEF Transform
<1>2. p \in Pages /\ serving.code \in PageTexts
  BY <1>1, ServingTypes
<1>3. /\ Answered'.keys = serving'.reply.keys
      /\ Answered'.deps = {p, Stamp} \union serving'.reply.deps
      /\ Answered'.missed = serving.missed
  BY <1>1 DEF Answered, Answering
<1>4. /\ disk \in Sources /\ session.program \in Sources /\ SessionIsWhole
      /\ disk[p] \in PageTexts
  BY <1>2 DEF IInv, Edits, SessionIsWhole, Sources, TextsOf, Files
<1> SUFFICES ASSUME Answered'.deps \cap changed = {}, p \notin serving.missed
             PROVE  /\ p \in Answered'.deps
                    /\ Named(disk[p]) \subseteq Answered'.deps
                    /\ Mentioned(disk[p]) \subseteq Answered'.deps \ serving.missed =>
                         Answered'.keys = Keys(disk, p)
  BY <1>3 DEF CurrentOn
<1>5. session.program[p] = disk[p] /\ p \notin dirty /\ \A i \in DOMAIN batches : p \notin batches[i]
  BY <1>1, <1>2, <1>3, SettledIsAbsorbed DEF Files
<1>6. serving.code = disk[p]
  BY <1>1, <1>3 DEF WaitIsCurrent
<1>7. CASE PassesGate(p, serving.code)
  <2>1. /\ serving'.reply.keys = Keys(session.program, p)
        /\ serving'.reply.deps = IF disk[p] = {} THEN {} ELSE Deps(after, p)
    BY <1>5, <1>7 DEF Transform
  <2>2. Named(disk[p]) \subseteq Answered'.deps
    <3>1. CASE disk[p] = {}
      BY <3>1 DEF Named
    <3>2. CASE disk[p] # {}
      <4>1. {p} \in SUBSET PagesOf(session.program) /\ Closed(session.program)
        BY <1>2, <1>4, SourcesHaveAllPages
      <4>2. \A d \in Named(disk[p]) : <<Node(session.program, d), d>> \in after.declFiles
        BY <1>4, <1>5, <4>1, ScannedKeeps DEF SessionIsWhole
      <4>3. after.program = session.program
        BY <1>4, <4>1, ScannedKeeps DEF SessionIsWhole
      <4>4. Named(disk[p]) \subseteq Deps(after, p)
        <5>1. Named(after.program[p]) \subseteq Deps(after, p)
          BY <1>5, <4>2, <4>3, NamedInDeps
        <5> QED BY <1>5, <4>3, <5>1
      <4> QED BY <1>3, <2>1, <3>2, <4>4
    <3> QED BY <3>1, <3>2
  <2>3. ASSUME Mentioned(disk[p]) \subseteq Answered'.deps \ serving.missed
        PROVE  Answered'.keys = Keys(disk, p)
    <3>1. Mentioned(disk[p]) \subseteq Files
      BY <1>4, MentionedAreDecls DEF Files
    <3>2. \A d \in Mentioned(disk[p]) : session.program[d] = disk[d]
      BY <1>1, <2>3, <3>1, SettledIsAbsorbed
    <3>3. Keys(session.program, p) = Keys(disk, p)
      BY <1>5, <3>2, KeysOfTexts
    <3> QED BY <1>3, <2>1, <3>3
  <2> QED BY <1>3, <2>2, <2>3
<1>8. CASE ~PassesGate(p, serving.code)
  <2>1. serving'.reply = NoReply
    BY <1>8 DEF Transform
  <2>2. disk[p] = {}
    BY <1>2, <1>5, <1>8 DEF PassesGate, GateIsCurrent
  <2>3. Named(disk[p]) = {} /\ Keys(disk, p) = {} /\ Answered'.keys = {}
    BY <1>3, <2>1, <2>2 DEF Named, Keys, NoReply
  <2> QED BY <1>3, <2>3
<1> QED BY <1>7, <1>8

\* Steps that only tell Turbopack of files, and change no text but theirs.
LEMMA CurrentKept ==
  ASSUME IInv, CallsAreTyped, OneRequest, KeptIsCurrent, phase = "ready",
         NEW files, Follows(loader, files),
         \A p \in Pages : \A answer, changed :
           CurrentOn(disk, p, answer, changed) => CurrentOn(disk', p, answer, changed \union files),
         serving'.pc = "transformed" =>
           serving.pc = "transformed" /\ serving'.page = serving.page /\ Answered' = Answered
  PROVE  KeptIsCurrent'
<1>1. ASSUME NEW p \in valid'
      PROVE  CurrentOn(disk', p, result'[p], {})
  <2>1. p \in valid /\ p \in Pages /\ result'[p] = result[p] /\ result[p].deps \cap files = {}
    BY DEF Follows, IInv, Gates
  <2>2. CurrentOn(disk, p, result[p], {})
    BY <2>1 DEF KeptIsCurrent, Current
  <2>3. CurrentOn(disk', p, result[p], {} \union files)
    BY <2>1, <2>2
  <2> QED BY <2>1, <2>3 DEF CurrentOn
<1>2. ASSUME NEW p \in Pages, loader'[p].pc = "replied"
      PROVE  CurrentOn(disk', p, loader'[p].answer, loader'[p].changed)
  <2>1. loader[p].pc = "replied" /\ loader[p] # Idle
    BY <1>2, IdleIsIdle DEF Follows
  <2>2. loader'[p].answer = loader[p].answer /\ loader'[p].changed = loader[p].changed \union files
    BY <2>1 DEF Follows
  <2>3. CurrentOn(disk, p, loader[p].answer, loader[p].changed)
    BY <2>1 DEF KeptIsCurrent, Current
  <2>4. CurrentOn(disk', p, loader[p].answer, loader[p].changed \union files)
    BY <2>3
  <2> QED BY <2>2, <2>4
<1>3. ASSUME serving'.pc = "transformed"
      PROVE  CurrentOn(disk', serving'.page, Answered', loader'[serving'.page].changed)
  <2>1. /\ serving.pc = "transformed" /\ serving # Idle /\ serving.page \in Pages
        /\ loader[serving.page] # Idle
    BY <1>3, ServingTypes, IdleIsIdle DEF OneRequest
  <2>2. loader'[serving.page].changed = loader[serving.page].changed \union files
    BY <2>1 DEF Follows
  <2>3. CurrentOn(disk, serving.page, Answered, loader[serving.page].changed)
    BY <2>1 DEF KeptIsCurrent, Current
  <2>4. CurrentOn(disk', serving.page, Answered, loader[serving.page].changed \union files)
    BY <2>1, <2>3
  <2> QED BY <1>3, <2>2, <2>4
<1> QED BY <1>1, <1>2, <1>3 DEF KeptIsCurrent, Current

\* The answer is that of the request, for the calls that go on.
LEMMA AnswerIsCurrent ==
  ASSUME IInv, CallsAreTyped, OneRequest, KeptIsCurrent, Answer, phase = "ready"
  PROVE  KeptIsCurrent'
<1> DEFINE calls == Replied(serving.page, Answered)
<1>1. /\ serving # Idle /\ serving.pc = "transformed" /\ serving' = Idle
      /\ Stamped(calls) \/ Unstamped(calls)
      /\ UNCHANGED <<phase, disk>>
  BY DEF Answer, Answered
<1>2. serving.page \in Pages /\ loader[serving.page] # Idle
  BY <1>1, ServingTypes, IdleIsIdle DEF OneRequest
<1>3. /\ calls \in [Pages -> Loaders]
      /\ calls[serving.page] = [pc |-> "replied", changed |-> loader[serving.page].changed,
                                answer |-> Answered]
      /\ \A q \in Pages : q # serving.page => calls[q] = loader[q]
  BY <1>1, <1>2, AnsweredType, RepliedCalls
<1> HIDE DEF calls
<1>4. PICK files : Follows(calls, files)
  BY <1>1, <1>3, RefreshedCalls DEF CallsAreTyped, IInv, Gates
<1>5. \A p \in Pages : calls[p].pc = "replied" =>
        calls[p] # Idle /\ CurrentOn(disk, p, calls[p].answer, calls[p].changed)
  <2>1. ASSUME NEW p \in Pages, calls[p].pc = "replied", p # serving.page
        PROVE  calls[p] # Idle /\ CurrentOn(disk, p, calls[p].answer, calls[p].changed)
    BY <1>3, <2>1, IdleIsIdle DEF KeptIsCurrent, Current
  <2>2. /\ calls[serving.page].pc = "replied" /\ calls[serving.page].answer = Answered
        /\ calls[serving.page].changed = loader[serving.page].changed
    BY <1>3
  <2>3. /\ calls[serving.page] # Idle
        /\ CurrentOn(disk, serving.page, calls[serving.page].answer, calls[serving.page].changed)
    BY <1>1, <2>2, IdleIsIdle DEF KeptIsCurrent, Current
  <2> QED BY <2>1, <2>3
<1>6. serving'.pc # "transformed"
  BY <1>1, IdleIsIdle
<1>7. \A p \in valid' : CurrentOn(disk, p, result'[p], {})
  BY <1>4 DEF Follows, KeptIsCurrent, Current
<1>8. ASSUME NEW p \in Pages, loader'[p].pc = "replied"
      PROVE  CurrentOn(disk, p, loader'[p].answer, loader'[p].changed)
  <2>1. /\ calls[p].pc = "replied" /\ loader'[p].answer = calls[p].answer
        /\ loader'[p].changed = calls[p].changed \union files
    BY <1>4, <1>5, <1>8 DEF Follows
  <2> QED BY <1>5, <2>1, CurrentOfMore
<1> QED BY <1>1, <1>6, <1>7, <1>8 DEF KeptIsCurrent, Current

LEMMA CurrentStep ==
  ASSUME IInv, CallsAreTyped, CallsAreTyped', OneRequest, GateIsCurrent, WaitIsCurrent,
         KeptIsCurrent, Next
  PROVE  KeptIsCurrent'
<1>1. valid \subseteq Pages /\ loader \in [Pages -> Loaders] /\ result \in [Pages -> Answers]
  BY DEF IInv, Gates, CallsAreTyped
<1>2. CASE Started
  <2>1. phase = "starting" /\ serving' = serving /\ Follows(loader, {Stamp})
    BY <1>1, <1>2, NoticedSteps DEF Started, answering
  <2>2. valid' = {} /\ serving' = Idle /\ \A p \in Pages : loader'[p].pc # "replied"
    BY <2>1 DEF OneRequest, Follows
  <2> QED BY <2>2, IdleIsIdle DEF KeptIsCurrent
<1>3. CASE phase # "ready" /\ ~Started
  <2>1. phase' # "ready"
    BY <1>3
    DEF Next, Absorb, Serve, StartFailed, Flush, ReadBatch, PushBatch, ScanBatch,
        RegenerateBatch, SettleBatch, Fail, Take, Transform, Generate, Answer, Edit, Call, Return
  <2> QED BY <2>1 DEF KeptIsCurrent
<1>4. CASE StartFailed \/ Fail
  <2>1. phase' # "ready"
    BY <1>4 DEF StartFailed, Fail
  <2> QED BY <2>1 DEF KeptIsCurrent
<1>5. CASE phase = "ready" /\ \E f \in Files : Edit(f)
  <2>1. PICK f \in Files : Edit(f)
    BY <1>5
  <2>2. Follows(loader, {f}) /\ serving' = serving
    BY <1>1, <2>1, NoticedSteps DEF Edit, answering
  <2>3. disk \in Sources /\ \A g : g # f /\ g \in Files => disk'[g] = disk[g]
    BY <2>1 DEF Edit, IInv, Edits, Sources
  <2>4. \A p \in Pages : \A answer, changed :
          CurrentOn(disk, p, answer, changed) => CurrentOn(disk', p, answer, changed \union {f})
    BY <2>3, CurrentEdited
  <2>5. Answered' = Answered
    BY <2>2 DEF Answered, Answering
  <2> QED BY <1>5, <2>2, <2>4, <2>5, CurrentKept
<1>6. CASE phase = "ready" /\ (Flush \/ Take \/ Generate \/ Absorb)
  <2>1. PICK files : Follows(loader, files)
    BY <1>1, <1>6, QuietSteps, NoticedSteps DEF Quietly, Absorb
  <2>2. disk' = disk
    BY <1>6
    DEF Flush, Take, Generate, Absorb, ReadBatch, PushBatch, ScanBatch, RegenerateBatch, SettleBatch
  <2>3. \A p \in Pages : \A answer, changed :
          CurrentOn(disk, p, answer, changed) => CurrentOn(disk', p, answer, changed \union files)
    BY <2>2, CurrentOfMore
  <2>4. ASSUME serving'.pc = "transformed"
        PROVE  serving.pc = "transformed" /\ serving'.page = serving.page /\ Answered' = Answered
    <3>1. CASE serving' = serving
      BY <2>4, <3>1 DEF Answered, Answering
    <3>2. CASE Take
      BY <2>4, <3>2 DEF Take
    <3>3. CASE Generate
      <4>1. serving.reply \in Replies
        BY <3>3, GeneratedServing, ServingTypes
      <4>2. serving'.reply.keys = serving.reply.keys /\ serving'.reply.deps = serving.reply.deps
        BY <3>3, <4>1, GeneratedServing DEF Replies
      <4> QED BY <3>3, <4>2, GeneratedServing DEF Answered, Answering
    <3>4. CASE SettleBatch
      <4>1. serving' = serving \/ (serving.pc = "waiting" /\ serving' = [serving EXCEPT !.wait = @ - 1])
        BY <3>4 DEF SettleBatch, Unwait
      <4>2. ASSUME serving.pc = "waiting", serving' = [serving EXCEPT !.wait = @ - 1]
            PROVE  serving'.pc = "waiting"
        BY <4>2
      <4> QED BY <2>4, <3>1, <4>1, <4>2
    <3> QED BY <1>6, <3>1, <3>2, <3>3, <3>4
            DEF Flush, Absorb, ReadBatch, PushBatch, ScanBatch, RegenerateBatch, answering
  <2> QED BY <1>6, <2>1, <2>3, <2>4, CurrentKept
<1>7. CASE phase = "ready" /\ Transform
  <2>1. UNCHANGED <<disk, loader, result, valid>> /\ serving'.page = serving.page
    BY <1>7 DEF Transform, turbopack
  <2>2. CurrentOn(disk, serving.page, Answered', loader[serving.page].changed)
    BY <1>7, TransformIsCurrent
  <2> QED BY <1>7, <2>1, <2>2 DEF KeptIsCurrent, Current
<1>8. CASE phase = "ready" /\ Answer
  BY <1>8, AnswerIsCurrent
<1>9. CASE phase = "ready" /\ \E p \in Pages : Call(p)
  <2>1. PICK p \in Pages : Call(p)
    BY <1>9
  <2>2. /\ UNCHANGED <<phase, disk, serving, result, valid>>
        /\ loader[p] = Idle /\ loader' = [loader EXCEPT ![p] = [pc |-> "called", changed |-> {}]]
    BY <2>1 DEF Call
  <2>3. /\ loader'[p].pc = "called" /\ \A q \in Pages : q # p => loader'[q] = loader[q]
    BY <1>1, <2>2
  <2>4. serving.pc = "transformed" => serving.page \in Pages /\ serving.page # p
    BY <2>2, ServingTypes, IdleIsIdle DEF OneRequest
  <2> QED BY <2>2, <2>3, <2>4 DEF KeptIsCurrent, Current, Answered, Answering
<1>10. CASE phase = "ready" /\ \E p \in Pages : Return(p)
  <2>1. PICK p \in Pages : Return(p)
    BY <1>10
  <2>2. /\ UNCHANGED <<phase, disk, serving>>
        /\ loader[p].pc = "replied" /\ loader' = [loader EXCEPT ![p] = Idle]
        /\ \/ /\ loader[p].changed \cap loader[p].answer.deps = {}
              /\ result' = [result EXCEPT ![p] = loader[p].answer] /\ valid' = valid \union {p}
           \/ UNCHANGED <<result, valid>>
    BY <2>1 DEF Return, answering
  <2>3. /\ loader'[p].pc = "idle" /\ \A q \in Pages : q # p => loader'[q] = loader[q]
    BY <1>1, <2>2, IdleIsIdle
  <2>4. serving.pc = "transformed" => serving.page \in Pages /\ serving.page # p
    BY <2>2, ServingTypes, IdleIsIdle DEF OneRequest
  <2>5. \A q \in valid' : CurrentOn(disk, q, result'[q], {})
    <3>1. CASE UNCHANGED <<result, valid>>
      BY <1>10, <3>1 DEF KeptIsCurrent, Current
    <3>2. CASE /\ loader[p].changed \cap loader[p].answer.deps = {}
               /\ result' = [result EXCEPT ![p] = loader[p].answer] /\ valid' = valid \union {p}
      <4>1. CurrentOn(disk, p, loader[p].answer, loader[p].changed)
        BY <1>10, <2>2 DEF KeptIsCurrent, Current
      <4>2. CurrentOn(disk, p, loader[p].answer, {})
        BY <3>2, <4>1 DEF CurrentOn
      <4>3. result'[p] = loader[p].answer /\ \A q \in valid : q # p => result'[q] = result[q]
        BY <1>1, <3>2
      <4> QED BY <1>10, <3>2, <4>2, <4>3 DEF KeptIsCurrent, Current
    <3> QED BY <2>2, <3>1, <3>2
  <2> QED BY <1>10, <2>2, <2>3, <2>4, <2>5 DEF KeptIsCurrent, Current, Answered, Answering
<1> QED BY <1>2, <1>3, <1>4, <1>5, <1>6, <1>7, <1>8, <1>9, <1>10 DEF Next, Serve

-----------------------------------------------------------------------------
LEMMA KeptInit == Init => Kept
<1> SUFFICES ASSUME Init PROVE Kept
  OBVIOUS
<1>1. /\ chain = <<>> /\ serving = Idle /\ valid = {} /\ phase = "starting"
      /\ loader = [p \in Pages |-> Idle] /\ result = [p \in Pages |-> NoResult]
  BY DEF Init
<1>2. NoResult \in Answers
  BY DEF NoResult, Answers
<1>3. CallsAreTyped
  BY <1>1, <1>2 DEF CallsAreTyped, Loaders, Servings
<1>4. OneRequest
  BY <1>1, IdleIsIdle DEF OneRequest
<1>5. ChainIsCurrent /\ WaitIsCurrent
  BY <1>1, IdleIsIdle DEF ChainIsCurrent, WaitIsCurrent
<1>6. ListingIsStamped /\ KeptIsCovered /\ GateIsCurrent /\ KeptIsCurrent
  BY <1>1 DEF ListingIsStamped, KeptIsCovered, GateIsCurrent, KeptIsCurrent
<1> QED BY <1>3, <1>4, <1>5, <1>6 DEF Kept

LEMMA KeptInductive == IInv /\ IInv' /\ Kept /\ [Next]_vars => Kept'
<1>1. ASSUME IInv, IInv', Kept, Next
      PROVE  Kept'
  <2> USE <1>1 DEF Kept
  <2>1. CallsAreTyped'
    BY TypesStep
  <2>2. OneRequest'
    BY OneRequestStep
  <2>3. ListingIsStamped'
    BY ListingStep
  <2>4. KeptIsCovered'
    BY CoveredStep
  <2>5. GateIsCurrent'
    BY GateStep
  <2>6. ChainIsCurrent' /\ WaitIsCurrent'
    BY ChainStep, WaitStep
  <2>7. KeptIsCurrent'
    BY <2>1, CurrentStep
  <2> QED BY <2>1, <2>2, <2>3, <2>4, <2>5, <2>6, <2>7
<1>2. ASSUME Kept, UNCHANGED vars
      PROVE  Kept'
  BY <1>2
  DEF vars, absorbing, answering, turbopack, Kept, CallsAreTyped, OneRequest, ListingIsStamped,
      KeptIsCovered, Covered, GateIsCurrent, ChainIsCurrent, WaitIsCurrent, KeptIsCurrent,
      Current, Answered, Answering
<1> QED BY <1>1, <1>2

LEMMA KeptHolds == Spec => []Kept
<1>1. Init => Kept
  BY KeptInit
<1>2. IInv /\ IInv' /\ Kept /\ [Next]_vars => Kept'
  BY KeptInductive
<1> QED BY <1>1, <1>2, InvariantHolds, PTL DEF Spec, Safety

\* Whenever the broker has absorbed all it was told (broker.ts flushDirty and the
\* hotUpdate chain) and answered all it was asked, the generated modules are those
\* of the project on disk, the stamp file is of their listing, and every rewrite
\* Turbopack keeps imports only modules that are there, however edits, batches and
\* calls overlapped.
THEOREM QuietBuildsAreWhole == Spec => []QuietIsWhole
<1>1. IInv /\ Kept => QuietIsWhole
  <2>1. SUFFICES ASSUME IInv, Kept, Quiet
                 PROVE  /\ session.tree = Demand(disk) /\ stamp = session.tree
                        /\ \A p \in valid : result[p].keys \subseteq session.tree
    BY DEF QuietIsWhole
  <2>2. dirty = {} /\ batches = <<>> /\ phase = "ready" /\ work = Idle
    BY <2>1 DEF Quiet, IInv, Edits, Queues
  <2>3. \A f \in Files : session.program[f] = disk[f]
    BY <2>1, <2>2 DEF IInv, Edits, NoEditIsLost
  <2>4. session.program = disk
    BY <2>1, <2>3 DEF IInv, Edits, SessionIsWhole, Sources
  <2>5. session.tree = Demand(disk) /\ stamp = session.tree
    BY <2>1, <2>2, <2>4, IdleIsIdle DEF Kept, ListingIsStamped
  <2>6. \A p \in valid : Covered(result[p].keys)
    BY <2>1, <2>2 DEF Kept, KeptIsCovered
  <2>7. \A p \in valid : result[p].keys \subseteq stamp
    BY <2>2, <2>6, IdleIsIdle DEF Covered, Cover
  <2> QED BY <2>5, <2>7
<1> QED BY <1>1, InvariantHolds, KeptHolds, PTL

\* At every moment a rewrite that Turbopack keeps asks for the validators of the
\* present types of its page (the dependencies of broker.ts handle and loader.ts
\* suffice), but when the page or a type's file had been edited and not yet flushed
\* as the request was taken, or a member's file is not among the dependencies.
THEOREM KeptRewritesAreCurrent == Spec => []TypesReachPages
<1>1. IInv /\ Kept => TypesReachPages
  <2>1. SUFFICES ASSUME IInv, Kept, phase = "ready", NEW p \in valid,
                        ({p} \union Mentioned(disk[p])) \cap result[p].missed = {},
                        Mentioned(disk[p]) \subseteq Named(disk[p]) \union result[p].deps
                 PROVE  result[p].keys = Keys(disk, p)
    BY DEF TypesReachPages
  <2>2. CurrentOn(disk, p, result[p], {})
    BY <2>1 DEF Kept, KeptIsCurrent, Current
  <2>3. Named(disk[p]) \subseteq result[p].deps
    BY <2>1, <2>2 DEF CurrentOn
  <2>4. Mentioned(disk[p]) \subseteq result[p].deps \ result[p].missed
    BY <2>1, <2>3
  <2> QED BY <2>1, <2>2, <2>4 DEF CurrentOn
<1> QED BY <1>1, InvariantHolds, KeptHolds, PTL
=============================================================================
