----------------------- MODULE ResolverProgramProofs -----------------------
(***************************************************************************)
(* Lemmas about the operators of ResolverProgram, for any files, texts and *)
(* references: that each of them yields a session, keeps the program it is *)
(* not meant to change, and keeps the program closed and the notes about   *)
(* its files current.  The proofs of the state machines cite them.         *)
(***************************************************************************)
EXTENDS ResolverProgram, TLAPS

\* Every declaration stands for itself.
FlatRefs == \A d \in Decls : Refs[d] = {}

\* A program has what its pages mention.
Closed(program) ==
  \A p \in PagesOf(program) : \A d \in Mentioned(program[p]) : program[d] # Absent

\* What is noted of a file, the file declares in this program.
Noted(s) ==
  \A entry \in s.declFiles :
    /\ s.program[entry[2]] # Absent
    /\ entry[1] = Node(s.program, entry[2])
    /\ entry[1] \in s.interned

-----------------------------------------------------------------------------
LEMMA SourcesArePrograms ==
  ASSUME NEW disk0 \in Sources
  PROVE  disk0 \in Programs
BY ProgramAssumption DEF Sources, Programs, Texts

LEMMA MentionedAreDecls ==
  ASSUME NEW text \in PageTexts
  PROVE  /\ Named(text) \subseteq Decls
         /\ Mentioned(text) \subseteq Decls
<1>1. \A site \in text : site[2] \in Decls
  BY ProgramAssumption
<1>2. Named(text) \subseteq Decls
  BY <1>1 DEF Named
<1>3. \A d \in Decls : Refs[d] \subseteq Decls
  BY ProgramAssumption
<1> QED BY <1>2, <1>3 DEF Mentioned

\* The text of a page of a program, and of a declaration it has.
LEMMA TextsOfProgram ==
  ASSUME NEW program \in Programs
  PROVE  /\ \A p \in PagesOf(program) : p \in Pages /\ program[p] \in PageTexts
         /\ \A d \in Decls : program[d] # Absent => program[d] \in Shapes
BY ProgramAssumption DEF Programs, PagesOf, TextsOf, Files

LEMMA NodeType ==
  ASSUME NEW program \in Programs, NEW d \in Decls, program[d] # Absent,
         \A e \in Refs[d] : program[e] # Absent
  PROVE  Node(program, d) \in Nodes
<1>1. program[d] \in Shapes
  BY TextsOfProgram
<1>2. \A e \in Refs[d] : e \in Decls /\ program[e] \in Shapes
  BY TextsOfProgram, ProgramAssumption
<1>3. {program[e] : e \in Refs[d]} \in SUBSET Shapes
  BY <1>2
<1> QED BY <1>1, <1>3 DEF Node, Nodes

\* What a page of a closed program mentions has a node.
LEMMA MentionedNodes ==
  ASSUME NEW program \in Programs, Closed(program), NEW p \in PagesOf(program),
         NEW d \in Mentioned(program[p])
  PROVE  d \in Decls /\ program[d] # Absent /\ Node(program, d) \in Nodes
<1>1. program[p] \in PageTexts /\ p \in Pages
  BY TextsOfProgram
<1>2. d \in Decls /\ program[d] # Absent
  BY <1>1, MentionedAreDecls DEF Closed
<1>3. \A e \in Refs[d] : program[e] # Absent
  <2>1. CASE d \in Named(program[p])
    <3>1. Refs[d] \subseteq Mentioned(program[p])
      BY <2>1 DEF Mentioned
    <3> QED BY <3>1 DEF Closed
  <2>2. CASE d \notin Named(program[p])
    <3>1. PICK c \in Named(program[p]) : d \in Refs[c]
      BY <2>2 DEF Mentioned
    <3>2. c \in Decls
      BY <1>1, <3>1, MentionedAreDecls
    <3>3. Refs[d] = {}
      BY <3>1, <3>2, ProgramAssumption
    <3> QED BY <3>3
  <2> QED BY <2>1, <2>2
<1> QED BY <1>2, <1>3, NodeType

-----------------------------------------------------------------------------
\* What can be pushed: texts of some files.
Pushes == {s \in UNION {[fs -> Texts] : fs \in SUBSET Files} :
             \A f \in DOMAIN s : s[f] \in TextsOf(f)}

LEMMA PushesAreTexts ==
  ASSUME NEW fs \in SUBSET Files, NEW pushed, pushed = [f \in fs |-> pushed[f]],
         \A f \in fs : pushed[f] \in TextsOf(f)
  PROVE  pushed \in Pushes
<1>1. \A f \in fs : pushed[f] \in Texts
  BY DEF TextsOf, Texts
<1>2. pushed \in [fs -> Texts]
  BY <1>1
<1> QED BY <1>2 DEF Pushes

\* A program is closed, whatever was pushed.
LEMMA LoadedIsSound ==
  ASSUME NEW disk0 \in Sources, NEW pushed \in Pushes
  PROVE  Loaded(pushed, disk0) \in Programs /\ Closed(Loaded(pushed, disk0))
<1> DEFINE imported == UNION {Mentioned(pushed[p]) : p \in DOMAIN pushed \cap Pages}
           program == Loaded(pushed, disk0)
<1>1. /\ DOMAIN pushed \subseteq Files
      /\ \A f \in DOMAIN pushed : /\ pushed[f] \in TextsOf(f) /\ pushed[f] \in Texts
                                  /\ pushed[f] # Absent
  BY ProgramAssumption DEF Pushes, Texts
<1>2. \A f \in Files : disk0[f] \in TextsOf(f) /\ disk0[f] \in Texts /\ disk0[f] # Absent
  BY ProgramAssumption DEF Sources, Texts
<1>3. program = [f \in Files |-> IF f \in DOMAIN pushed THEN pushed[f]
                                 ELSE IF f \in imported THEN disk0[f] ELSE Absent]
  BY DEF Loaded
<1>4. program \in Programs
  <2>1. \A f \in Files : program[f] \in TextsOf(f) \union {Absent}
    BY <1>1, <1>2, <1>3
  <2>2. program \in [Files -> Texts \union {Absent}]
    BY <1>1, <1>2, <1>3
  <2> HIDE DEF program
  <2> QED BY <2>1, <2>2 DEF Programs
<1>5. imported \subseteq Decls
  <2>1. \A p \in DOMAIN pushed \cap Pages : pushed[p] \in PageTexts
    BY <1>1 DEF TextsOf
  <2> QED BY <2>1, MentionedAreDecls
<1>6. ASSUME NEW p \in PagesOf(program), NEW d \in Mentioned(program[p])
      PROVE  program[d] # Absent
  <2>1. p \in Pages /\ p \in Files /\ program[p] # Absent
    BY DEF PagesOf, Files
  <2>2. p \notin imported
    BY <1>5, <2>1, ProgramAssumption
  <2>3. p \in DOMAIN pushed /\ program[p] = pushed[p]
    BY <1>3, <2>1, <2>2
  <2>4. d \in imported
    BY <1>6, <2>1, <2>3
  <2>5. d \in Files
    BY <1>5, <2>4 DEF Files
  <2> QED BY <1>1, <1>2, <1>3, <2>4, <2>5
<1> HIDE DEF program
<1>7. Closed(program)
  BY <1>6 DEF Closed
<1> QED BY <1>4, <1>7 DEF program

LEMMA LoadedIsClosed ==
  ASSUME NEW disk0 \in Sources, NEW fs \in SUBSET Files
  PROVE  /\ Loaded([f \in fs |-> disk0[f]], disk0) \in Programs
         /\ Closed(Loaded([f \in fs |-> disk0[f]], disk0))
<1> DEFINE pushed == [f \in fs |-> disk0[f]]
<1>1. pushed = [f \in fs |-> pushed[f]] /\ \A f \in fs : pushed[f] \in TextsOf(f)
  BY DEF Sources
<1> HIDE DEF pushed
<1>2. pushed \in Pushes
  BY <1>1, PushesAreTexts
<1>3. Loaded(pushed, disk0) \in Programs /\ Closed(Loaded(pushed, disk0))
  BY <1>2, LoadedIsSound
<1> QED BY <1>3 DEF pushed

-----------------------------------------------------------------------------
\* A scan keeps the program, notes only what the program declares, and notes
\* every file that its pages name.
LEMMA ScannedKeeps ==
  ASSUME NEW s \in Sessions, Closed(s.program), Noted(s),
         NEW ps \in SUBSET PagesOf(s.program)
  PROVE  /\ Scanned(s, ps) \in Sessions
         /\ Scanned(s, ps).program = s.program
         /\ Scanned(s, ps).tree = s.tree
         /\ Noted(Scanned(s, ps))
         /\ \A p \in ps : \A d \in Named(s.program[p]) :
              <<Node(s.program, d), d>> \in Scanned(s, ps).declFiles
<1> DEFINE program == s.program
           named == UNION {Named(program[p]) : p \in ps}
           new == {Node(program, d) : d \in named} \ s.interned
           projected == {CHOOSE d \in named : Node(program, d) = n : n \in new}
           members == UNION {Refs[d] : d \in projected}
           interned == s.interned \union new \union {Node(program, e) : e \in members}
           notes == s.declFiles \union {<<Node(program, d), d>> : d \in named \union members}
           t == Scanned(s, ps)
<1>1. t = [s EXCEPT !.interned = interned, !.declFiles = notes]
  BY DEF Scanned, Notes
<1>2. /\ t.program = program /\ t.tree = s.tree
      /\ t.interned = interned /\ t.declFiles = notes
  BY <1>1 DEF Sessions
<1>3. projected \subseteq named
  <2>1. ASSUME NEW n \in new
        PROVE  (CHOOSE d \in named : Node(program, d) = n) \in named
    OBVIOUS
  <2> QED BY <2>1
<1>4. \A d \in named \union members : \E p \in ps : d \in Mentioned(program[p])
  <2>1. \A d \in named : \E p \in ps : d \in Named(program[p])
    OBVIOUS
  <2>2. \A d \in members : \E c \in named : d \in Refs[c]
    BY <1>3
  <2> QED BY <2>1, <2>2 DEF Mentioned
<1>5. \A d \in named \union members :
        d \in Decls /\ program[d] # Absent /\ Node(program, d) \in Nodes
  <2>1. program \in Programs
    BY DEF Sessions
  <2> QED BY <1>4, <2>1, MentionedNodes
<1>6. interned \in SUBSET Nodes /\ notes \in SUBSET (Nodes \X Decls)
  BY <1>5 DEF Sessions
<1>7. t \in Sessions
  BY <1>1, <1>6 DEF Sessions
<1>8. ASSUME NEW entry \in notes
      PROVE  /\ program[entry[2]] # Absent
             /\ entry[1] = Node(program, entry[2])
             /\ entry[1] \in interned
  <2>1. CASE entry \in s.declFiles
    BY <2>1 DEF Noted
  <2>2. CASE entry \in {<<Node(program, d), d>> : d \in named \union members}
    <3>1. PICK d \in named \union members : entry = <<Node(program, d), d>>
      BY <2>2
    <3>2. Node(program, d) \in interned
      OBVIOUS
    <3> QED BY <1>5, <3>1, <3>2
  <2> QED BY <2>1, <2>2
<1>9. Noted(t)
  BY <1>2, <1>8 DEF Noted
<1>10. \A p \in ps : \A d \in Named(program[p]) : <<Node(program, d), d>> \in notes
  OBVIOUS
<1> QED BY <1>2, <1>7, <1>9, <1>10

LEMMA KeysType ==
  ASSUME NEW program \in Programs, Closed(program)
  PROVE  Demand(program) \subseteq Fns \X Nodes
<1>1. ASSUME NEW p \in PagesOf(program), NEW site \in program[p]
      PROVE  site[1] \in Fns /\ Node(program, site[2]) \in Nodes
  <2>1. program[p] \in PageTexts
    BY TextsOfProgram
  <2>2. site \in Fns \X Decls
    BY <2>1, ProgramAssumption
  <2>3. site[2] \in Mentioned(program[p])
    BY DEF Mentioned, Named
  <2> QED BY <2>2, <2>3, MentionedNodes
<1>2. \A p \in PagesOf(program) : Keys(program, p) \subseteq Fns \X Nodes
  BY <1>1 DEF Keys
<1> QED BY <1>2 DEF Demand

-----------------------------------------------------------------------------
\* A fresh session, whatever program it has, provided that is closed.
LEMMA FreshIsSound ==
  ASSUME NEW program \in Programs, Closed(program), NEW tree \in SUBSET (Fns \X Nodes)
  PROVE  /\ Fresh(program, tree) \in Sessions
         /\ Closed(Fresh(program, tree).program)
         /\ Noted(Fresh(program, tree))
BY DEF Fresh, Sessions, Noted

LEMMA SwapIsSound ==
  ASSUME NEW s \in Sessions, NEW program \in Programs, Closed(program)
  PROVE  /\ Swap(s, program) \in Sessions
         /\ Closed(Swap(s, program).program)
         /\ Noted(Swap(s, program))
BY DEF Swap, Sessions, Noted

LEMMA GeneratedIsSound ==
  ASSUME NEW s \in Sessions, Closed(s.program), Noted(s)
  PROVE  /\ Generated(s) \in Sessions
         /\ Generated(s).program = s.program
         /\ Noted(Generated(s))
<1> DEFINE t == Scanned(s, PagesOf(s.program))
<1>1. t \in Sessions /\ t.program = s.program /\ Noted(t)
  BY ScannedKeeps
<1>2. Generated(s) = [t EXCEPT !.tree = Demand(s.program)]
  BY DEF Generated
<1>3. Demand(s.program) \in SUBSET (Fns \X Nodes)
  BY KeysType DEF Sessions
<1> HIDE DEF t
<1>4. Generated(s) \in Sessions
  BY <1>1, <1>2, <1>3 DEF Sessions
<1>5. /\ Generated(s).program = t.program
      /\ Generated(s).interned = t.interned
      /\ Generated(s).declFiles = t.declFiles
  BY <1>1, <1>2 DEF Sessions
<1>6. Noted(Generated(s))
  BY <1>1, <1>5 DEF Noted
<1> QED BY <1>1, <1>4, <1>5, <1>6

\* The files on disk, whole, are a closed program; so is no file at all.
LEMMA WholeIsClosed ==
  /\ \A disk0 \in Sources : disk0 \in Programs /\ Closed(disk0)
  /\ [f \in Files |-> Absent] \in Programs /\ Closed([f \in Files |-> Absent])
<1>1. ASSUME NEW disk0 \in Sources
      PROVE  disk0 \in Programs /\ Closed(disk0)
  <2>1. disk0 \in Programs
    BY SourcesArePrograms
  <2>2. \A f \in Files : disk0[f] # Absent
    BY ProgramAssumption DEF Sources, Texts
  <2>3. \A p \in PagesOf(disk0) : Mentioned(disk0[p]) \subseteq Decls
    BY <2>1, TextsOfProgram, MentionedAreDecls
  <2> QED BY <2>1, <2>2, <2>3 DEF Closed, Files
<1>2. [f \in Files |-> Absent] \in Programs
  BY DEF Programs
<1>3. PagesOf([f \in Files |-> Absent]) = {}
  BY DEF PagesOf, Files
<1> QED BY <1>1, <1>2, <1>3 DEF Closed

-----------------------------------------------------------------------------
\* What is pushed whole is loaded as it is.
LEMMA LoadedWhole ==
  ASSUME NEW sources \in Sources, NEW disk0
  PROVE  Loaded(sources, disk0) = sources
BY DEF Loaded, Sources

LEMMA SourcesHaveAllPages ==
  ASSUME NEW sources \in Sources
  PROVE  PagesOf(sources) = Pages /\ Closed(sources) /\ sources \in Programs
<1>1. \A p \in Pages : sources[p] # Absent
  BY ProgramAssumption DEF Sources, Texts, Files
<1> QED BY <1>1, WholeIsClosed DEF PagesOf

\* What a page asks for is a matter of the texts it mentions.
LEMMA KeysOfTexts ==
  ASSUME NEW old, NEW new, NEW p, new[p] = old[p], \A d \in Mentioned(old[p]) : new[d] = old[d]
  PROVE  Keys(new, p) = Keys(old, p)
<1>1. ASSUME NEW d \in Named(old[p])
      PROVE  Node(new, d) = Node(old, d)
  <2>1. d \in Mentioned(old[p]) /\ Refs[d] \subseteq Mentioned(old[p])
    BY DEF Mentioned
  <2>2. {new[e] : e \in Refs[d]} = {old[e] : e \in Refs[d]}
    BY <2>1
  <2> QED BY <2>1, <2>2 DEF Node
<1>2. \A site \in old[p] : Node(new, site[2]) = Node(old, site[2])
  BY <1>1 DEF Named
<1> QED BY <1>2 DEF Keys

\* The file of a type the page names is a dependency, once it is noted.
LEMMA NamedInDeps ==
  ASSUME NEW s, NEW p,
         \A d \in Named(s.program[p]) : <<Node(s.program, d), d>> \in s.declFiles
  PROVE  Named(s.program[p]) \subseteq Deps(s, p)
<1> SUFFICES ASSUME NEW d \in Named(s.program[p])
             PROVE  d \in Deps(s, p)
  OBVIOUS
<1>1. <<Node(s.program, d), d>> \in s.declFiles
  OBVIOUS
<1>2. Node(s.program, d) \in {Node(s.program, e) : e \in Mentioned(s.program[p])}
  BY DEF Mentioned
<1> QED BY <1>1, <1>2 DEF Deps
=============================================================================
