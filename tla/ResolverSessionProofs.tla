----------------------- MODULE ResolverSessionProofs -----------------------
(***************************************************************************)
(* Proofs about ResolverSession, for any files, texts and references.      *)
(*                                                                         *)
(* The invariant has three parts beyond types: a program has what its      *)
(* pages import; what is noted of a file is what the file declares in the  *)
(* current program; and a reply is about a page of the program.  That the  *)
(* dependencies reported are complete is proved for types without members  *)
(* of other files only, and is false otherwise.                            *)
(***************************************************************************)
EXTENDS ResolverSession, ResolverProgramProofs

AskedIsLoaded == asked # NoPage => session.program[asked] # Absent

IInv == TypeOK /\ ImportsAreLoaded /\ NotesAreCurrent /\ AskedIsLoaded

-----------------------------------------------------------------------------
LEMMA InitHolds == Init => IInv
<1>1. SUFFICES ASSUME Init PROVE IInv
  OBVIOUS
<1>2. /\ session \in Sessions /\ Closed(session.program) /\ Noted(session)
  BY <1>1, WholeIsClosed, FreshIsSound DEF Init, Fresh
<1>3. TypeOK
  BY <1>1, <1>2 DEF Init, TypeOK
<1>4. ImportsAreLoaded /\ NotesAreCurrent
  BY <1>2 DEF ImportsAreLoaded, NotesAreCurrent, Closed, Noted
<1> QED BY <1>1, <1>3, <1>4 DEF Init, IInv, AskedIsLoaded

\* What a step owes the invariant, apart from the page asked about.
LEMMA SessionStep ==
  ASSUME IInv, Next
  PROVE  /\ disk' \in Sources
         /\ session' \in Sessions
         /\ Closed(session'.program)
         /\ Noted(session')
<1>1. /\ disk \in Sources /\ session \in Sessions
      /\ Closed(session.program) /\ Noted(session)
  BY DEF IInv, TypeOK, ImportsAreLoaded, NotesAreCurrent, Closed, Noted
<1>2. CASE \E f \in Files : Edit(f)
  <2>1. PICK f \in Files : Edit(f)
    BY <1>2
  <2>2. PICK text \in TextsOf(f) : disk' = [disk EXCEPT ![f] = text]
    BY <2>1 DEF Edit
  <2>3. TextsOf(f) \subseteq Texts
    BY DEF TextsOf, Texts
  <2>4. disk' \in Sources
    BY <1>1, <2>2, <2>3 DEF Sources
  <2>5. session' = session
    BY <2>1 DEF Edit
  <2> QED BY <1>1, <2>4, <2>5
<1>3. CASE \E fs \in SUBSET Files : SetSources(fs)
  <2>1. PICK fs \in SUBSET Files : SetSources(fs)
    BY <1>3
  <2> DEFINE program == Loaded([f \in fs |-> disk[f]], disk)
  <2>2. session' = Swap(session, program) /\ disk' = disk
    BY <2>1 DEF SetSources
  <2>3. program \in Programs /\ Closed(program)
    BY <1>1, LoadedIsClosed
  <2> HIDE DEF program
  <2> QED BY <1>1, <2>2, <2>3, SwapIsSound
<1>4. CASE \E p \in Pages : ScanFiles(p) \/ Transform(p)
  <2>1. PICK p \in Pages : ScanFiles(p) \/ Transform(p)
    BY <1>4
  <2>2. {p} \in SUBSET PagesOf(session.program)
    BY <2>1 DEF ScanFiles, Transform, PagesOf
  <2>3. session' = Scanned(session, {p}) /\ disk' = disk
    BY <2>1 DEF ScanFiles, Transform
  <2> QED BY <1>1, <2>2, <2>3, ScannedKeeps
<1>5. CASE \E p \in Pages : Reject(p)
  BY <1>1, <1>5 DEF Reject
<1>6. CASE Generate
  <2>1. session' = Generated(session) /\ disk' = disk
    BY <1>6 DEF Generate
  <2> QED BY <1>1, <2>1, GeneratedIsSound
<1>7. CASE Reset
  <2> DEFINE gone == [f \in Files |-> Absent]
  <2>1. session' = Fresh(gone, session.tree) /\ disk' = disk
    BY <1>7 DEF Reset
  <2>2. gone \in Programs /\ Closed(gone)
    BY WholeIsClosed
  <2>3. session.tree \in SUBSET (Fns \X Nodes)
    BY <1>1 DEF Sessions
  <2> HIDE DEF gone
  <2> QED BY <1>1, <2>1, <2>2, <2>3, FreshIsSound
<1> QED BY <1>2, <1>3, <1>4, <1>5, <1>6, <1>7 DEF Next

LEMMA AskedStep ==
  ASSUME IInv, Next
  PROVE  /\ asked' \in Pages \union {NoPage}
         /\ asked' # NoPage => Transform(asked') /\ session'.program[asked'] # Absent
<1>1. CASE \E p \in Pages : Transform(p)
  <2>1. PICK p \in Pages : Transform(p)
    BY <1>1
  <2>2. asked' = p /\ session' = Scanned(session, {p}) /\ session.program[p] # Absent
    BY <2>1 DEF Transform
  <2>3. session'.program = session.program
    BY <2>2 DEF Scanned, IInv, TypeOK, Sessions
  <2> QED BY <2>1, <2>2, <2>3
<1>2. CASE ~(\E p \in Pages : Transform(p))
  <2>1. asked' = NoPage
    BY <1>2 DEF Next, Edit, SetSources, ScanFiles, Reject, Generate, Reset
  <2> QED BY <2>1
<1> QED BY <1>1, <1>2

LEMMA Inductive == IInv /\ [Next]_vars => IInv'
<1>1. ASSUME IInv, Next PROVE IInv'
  <2>1. TypeOK'
    BY <1>1, SessionStep, AskedStep DEF TypeOK
  <2>2. ImportsAreLoaded' /\ NotesAreCurrent'
    BY <1>1, SessionStep DEF ImportsAreLoaded, NotesAreCurrent, Closed, Noted
  <2>3. AskedIsLoaded'
    BY <1>1, AskedStep DEF AskedIsLoaded
  <2> QED BY <2>1, <2>2, <2>3 DEF IInv
<1>2. ASSUME IInv, UNCHANGED vars PROVE IInv'
  BY <1>2 DEF IInv, TypeOK, ImportsAreLoaded, NotesAreCurrent, AskedIsLoaded, vars
<1> QED BY <1>1, <1>2

LEMMA InvariantHolds == Spec => []IInv
BY InitHolds, Inductive, PTL DEF Spec

-----------------------------------------------------------------------------
\* A session keeps its shape: programs map files to texts of their kind, types
\* and modules are what their shapes say.
THEOREM TypeCorrect == Spec => []TypeOK
<1>1. IInv => TypeOK
  BY DEF IInv
<1> QED BY InvariantHolds, <1>1, PTL

\* setSources leaves no import of a page unresolved, whatever is pushed.
THEOREM ImportsStayLoaded == Spec => []ImportsAreLoaded
<1>1. IInv => ImportsAreLoaded
  BY DEF IInv
<1> QED BY InvariantHolds, <1>1, PTL

\* No dependency is reported that the current program does not bear out: the
\* file declares, now, a type that the page reaches.
THEOREM DependenciesAreCurrent == Spec => []DepsAreCurrent
<1>1. IInv => DepsAreCurrent
  <2>1. SUFFICES ASSUME IInv, asked # NoPage, NEW d \in Deps(session, asked)
                 PROVE  \E e \in Mentioned(session.program[asked]) :
                          /\ session.program[d] # Absent
                          /\ Node(session.program, d) = Node(session.program, e)
    BY DEF DepsAreCurrent
  <2>2. PICK entry \in session.declFiles :
          /\ entry[2] = d
          /\ entry[1] \in {Node(session.program, e) : e \in Mentioned(session.program[asked])}
    BY <2>1 DEF Deps
  <2>3. session.program[d] # Absent /\ entry[1] = Node(session.program, d)
    BY <2>1, <2>2 DEF IInv, NotesAreCurrent
  <2> QED BY <2>2, <2>3
<1> QED BY InvariantHolds, <1>1, PTL

\* A transform never misses the file of a type that a call of the page names.
THEOREM OwnDependenciesAreComplete == Spec => []OwnDepsCover
<1>1. Init => OwnDepsCover
  BY DEF Init, OwnDepsCover
<1>2. IInv /\ Next => OwnDepsCover'
  <2>1. SUFFICES ASSUME IInv, Next, asked' # NoPage
                 PROVE  Named(session'.program[asked']) \subseteq Deps(session', asked')
    BY DEF OwnDepsCover
  <2> DEFINE p == asked'
             program == session.program
  <2>2. p \in Pages /\ Transform(p)
    BY <2>1, AskedStep
  <2>3. session' = Scanned(session, {p}) /\ program[p] # Absent
    BY <2>2 DEF Transform
  <2>4. {p} \in SUBSET PagesOf(program)
    BY <2>2, <2>3 DEF PagesOf
  <2>5. session \in Sessions /\ Closed(program) /\ Noted(session)
    BY <2>1 DEF IInv, TypeOK, ImportsAreLoaded, NotesAreCurrent, Closed, Noted
  <2>6. /\ session'.program = program
        /\ \A d \in Named(program[p]) : <<Node(program, d), d>> \in session'.declFiles
    BY <2>3, <2>4, <2>5, ScannedKeeps
  <2>7. ASSUME NEW d \in Named(program[p]) PROVE d \in Deps(session', p)
    <3>1. <<Node(program, d), d>> \in session'.declFiles
      BY <2>6
    <3>2. Node(program, d) \in {Node(program, e) : e \in Mentioned(program[p])}
      BY DEF Mentioned
    <3> QED BY <2>6, <3>1, <3>2 DEF Deps
  <2> QED BY <2>6, <2>7
<1>3. OwnDepsCover /\ UNCHANGED vars => OwnDepsCover'
  BY DEF OwnDepsCover, vars
<1> QED BY InvariantHolds, <1>1, <1>2, <1>3, PTL DEF Spec

\* So it reports every file the page's types come from, as long as no type has
\* a member declared in another file.
THEOREM DependenciesAreComplete == FlatRefs => (Spec => []DepsCover)
<1> SUFFICES ASSUME FlatRefs PROVE Spec => []DepsCover
  OBVIOUS
<1>1. IInv /\ OwnDepsCover => DepsCover
  <2>1. SUFFICES ASSUME IInv, OwnDepsCover, asked # NoPage
                 PROVE  Mentioned(session.program[asked]) \subseteq Deps(session, asked)
    BY DEF DepsCover
  <2>2. asked \in Pages /\ session \in Sessions /\ session.program[asked] # Absent
    BY <2>1 DEF IInv, TypeOK, AskedIsLoaded
  <2>3. session.program[asked] \in PageTexts
    BY <2>2, TextsOfProgram DEF Sessions, PagesOf
  <2>4. \A d \in Named(session.program[asked]) : Refs[d] = {}
    BY <2>3, MentionedAreDecls DEF FlatRefs
  <2>5. Mentioned(session.program[asked]) = Named(session.program[asked])
    BY <2>4 DEF Mentioned
  <2> QED BY <2>1, <2>5 DEF OwnDepsCover
<1> QED BY InvariantHolds, OwnDependenciesAreComplete, <1>1, PTL
=============================================================================
