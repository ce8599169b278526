--------------------------- MODULE ResolverSession ---------------------------
(***************************************************************************)
(* A resolver session answering requests: setSources, scanFiles,           *)
(* transform, generate and reset, in any order a host may send them, while *)
(* the files change on disk.  The question is what a session's replies say *)
(* of a page's type dependencies once programs have been swapped under its *)
(* cache of types.                                                         *)
(***************************************************************************)
EXTENDS ResolverProgram

CONSTANT NoPage     \* the last request was not a transform

ASSUME NoPageAssumption == NoPage \notin Pages

VARIABLES disk,     \* the text of each file
          session,  \* the session's state
          asked     \* the page the last request transformed

vars == <<disk, session, asked>>

TypeOK ==
  /\ disk \in Sources
  /\ session \in Sessions
  /\ asked \in Pages \union {NoPage}

Init ==
  /\ disk \in Sources
  /\ session = Fresh(disk, {})
  /\ asked = NoPage

Edit(f) ==
  \E text \in TextsOf(f) \ {disk[f]} :
    /\ disk' = [disk EXCEPT ![f] = text]
    /\ asked' = NoPage
    /\ UNCHANGED session

SetSources(fs) ==
  /\ session' = Swap(session, Loaded([f \in fs |-> disk[f]], disk))
  /\ asked' = NoPage
  /\ UNCHANGED disk

ScanFiles(p) ==
  /\ session.program[p] # Absent
  /\ session' = Scanned(session, {p})
  /\ asked' = NoPage
  /\ UNCHANGED disk

Transform(p) ==
  /\ session.program[p] # Absent
  /\ session' = Scanned(session, {p})
  /\ asked' = p
  /\ UNCHANGED disk

\* "source file not in program": nothing is scanned.
Reject(p) ==
  /\ session.program[p] = Absent
  /\ asked' = NoPage
  /\ UNCHANGED <<disk, session>>

Generate ==
  /\ session' = Generated(session)
  /\ asked' = NoPage
  /\ UNCHANGED disk

\* The program and all that was interned go; the modules on disk stay.
Reset ==
  /\ session' = Fresh([f \in Files |-> Absent], session.tree)
  /\ asked' = NoPage
  /\ UNCHANGED disk

Next ==
  \/ \E f \in Files : Edit(f)
  \/ \E fs \in SUBSET Files : SetSources(fs)
  \/ \E p \in Pages : ScanFiles(p) \/ Transform(p) \/ Reject(p)
  \/ Generate
  \/ Reset

Spec == Init /\ [][Next]_vars

-----------------------------------------------------------------------------
\* A program has what its pages import, and what that imports.
ImportsAreLoaded ==
  \A p \in PagesOf(session.program) :
    \A d \in Mentioned(session.program[p]) : session.program[d] # Absent

\* The noted files are those of the loaded program with the shapes they have
\* in it, and what is noted is interned.
NotesAreCurrent ==
  \A entry \in session.declFiles :
    /\ session.program[entry[2]] # Absent
    /\ entry[1] = Node(session.program, entry[2])
    /\ entry[1] \in session.interned

\* declfiles.go:98-101, "under-invalidating ships a validator for a type that
\* no longer exists": a transform reports every file that declares a type the
\* page reaches.
DepsCover ==
  asked # NoPage => Mentioned(session.program[asked]) \subseteq Deps(session, asked)

\* Of the types a page names itself, the report never misses a file.
OwnDepsCover ==
  asked # NoPage => Named(session.program[asked]) \subseteq Deps(session, asked)

\* What is reported was seen in this program: each file declares, now, a type
\* that the page reaches.
DepsAreCurrent ==
  asked # NoPage =>
    \A d \in Deps(session, asked) : \E e \in Mentioned(session.program[asked]) :
      /\ session.program[d] # Absent
      /\ Node(session.program, d) = Node(session.program, e)
=============================================================================
