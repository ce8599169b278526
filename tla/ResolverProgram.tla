--------------------------- MODULE ResolverProgram ---------------------------
(***************************************************************************)
(* What one resolver session (internal/compiler/resolver, one Session per  *)
(* serve child) computes: the program it builds from pushed sources, the   *)
(* types it interns when it scans, the files it says a page depends on,    *)
(* and the modules it generates.  Operators only: ResolverSession and      *)
(* DevPlugin give them their state.                                        *)
(*                                                                         *)
(* A page is a file with call sites: its text is the set of <<fn, decl>>   *)
(* of its calls, "the validator (fn) of the type that file decl declares". *)
(* A declaration file declares one type; its text is the type's own shape, *)
(* and Refs names the files declaring the types of its members.            *)
(*                                                                         *)
(* Abstracted: types are identified by their shape (the structural id; its *)
(* hash is taken to be injective), a generated module by the function and  *)
(* the type it is for.  Not here: pure functions, overrides, enrichment    *)
(* and diagnostics.                                                        *)
(***************************************************************************)
EXTENDS Naturals, FiniteSets

CONSTANTS Pages,      \* files with call sites
          Decls,      \* files that declare a type
          Fns,        \* what a call asks for: a validator, a serializer, ...
          Shapes,     \* the texts of a declaration file
          PageTexts,  \* the texts of a page
          Refs,       \* the declaration files a declaration file refers to
          Absent      \* the program does not have the file

ASSUME ProgramAssumption ==
  /\ Pages \cap Decls = {}
  /\ PageTexts \subseteq SUBSET (Fns \X Decls)
  /\ Refs \in [Decls -> SUBSET Decls]
  /\ \A d \in Decls : \A e \in Refs[d] : Refs[e] = {}
  /\ Absent \notin Shapes \union PageTexts

Files == Pages \union Decls
TextsOf(f) == IF f \in Pages THEN PageTexts ELSE Shapes
Texts == Shapes \union PageTexts
Sources == {t \in [Files -> Texts] : \A f \in Files : t[f] \in TextsOf(f)}

-----------------------------------------------------------------------------
\* The types a text names, and the shape of a type: its own and its members'.
Named(text) == {site[2] : site \in text}
Mentioned(text) == Named(text) \union UNION {Refs[d] : d \in Named(text)}

Node(program, d) == <<program[d], {program[e] : e \in Refs[d]}>>

\* What the calls of a page ask for.
Keys(program, p) == {<<site[1], Node(program, site[2])>> : site \in program[p]}

PagesOf(program) == {p \in Pages : program[p] # Absent}

\* The modules all the pages of a program ask for.
Demand(program) == UNION {Keys(program, p) : p \in PagesOf(program)}

-----------------------------------------------------------------------------
\* setSources: the program is what was pushed and the files it imports, which
\* are read from disk.
Loaded(sources, disk) ==
  LET imported == UNION {Mentioned(sources[p]) : p \in DOMAIN sources \cap Pages}
  IN  [f \in Files |-> IF f \in DOMAIN sources THEN sources[f]
                       ELSE IF f \in imported THEN disk[f] ELSE Absent]

\* A session: the program, the interned types, which file was seen declaring
\* which of them in this program, and the modules on disk.
Nodes == Shapes \X SUBSET Shapes
Programs == {t \in [Files -> Texts \union {Absent}] :
               \A f \in Files : t[f] \in TextsOf(f) \union {Absent}}
Sessions == [program   : Programs,
             interned  : SUBSET Nodes,
             declFiles : SUBSET (Nodes \X Decls),
             tree      : SUBSET (Fns \X Nodes)]

\* SetProgram: the interned types survive, what is tied to the old program's
\* files does not.
SwapKeepingFiles(s, program) == [s EXCEPT !.program = program]

Swap(s, program) == [s EXCEPT !.program = program, !.declFiles = {}]

\* A session that has a program and knows no type.
Fresh(program, tree) ==
  [program |-> program, interned |-> {}, declFiles |-> {}, tree |-> tree]

\* recordDeclFiles: the file of each declaration, noted for the type it declares.
Notes(program, ds) == {<<Node(program, d), d>> : d \in ds}

\* assignID of the types some pages name.  A type not interned before is
\* projected, which assigns its members' types in turn; an interned one only
\* has its own file noted.  Of several files declaring the same new shape, the
\* first call in the text is projected.
ScannedNotingNew(s, ps) ==
  LET named == UNION {Named(s.program[p]) : p \in ps}
      new == {d \in named : Node(s.program, d) \notin s.interned}
      members == UNION {Refs[d] : d \in new}
  IN  [s EXCEPT !.interned = @ \union {Node(s.program, d) : d \in new \union members},
                !.declFiles = @ \union Notes(s.program, new \union members)]

Scanned(s, ps) ==
  LET named == UNION {Named(s.program[p]) : p \in ps}
      new == {Node(s.program, d) : d \in named} \ s.interned
      projected == {CHOOSE d \in named : Node(s.program, d) = n : n \in new}
      members == UNION {Refs[d] : d \in projected}
  IN  [s EXCEPT
        !.interned = @ \union new \union {Node(s.program, e) : e \in members},
        !.declFiles = @ \union Notes(s.program, named \union members)]

\* DeclFilesForFiles: the files noted for the types a page reaches.
Deps(s, p) ==
  LET named == Named(s.program[p])
      reached == {Node(s.program, d) : d \in Mentioned(s.program[p])}
  IN  {entry[2] : entry \in {e \in s.declFiles : e[1] \in reached}}

\* Generate: scan what was not scanned, write the demanded modules, remove the
\* others.
GeneratedWithoutPruning(s) ==
  [Scanned(s, PagesOf(s.program)) EXCEPT !.tree = @ \union Demand(s.program)]

Generated(s) ==
  [Scanned(s, PagesOf(s.program)) EXCEPT !.tree = Demand(s.program)]
=============================================================================
