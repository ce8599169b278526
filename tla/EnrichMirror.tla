---------------------------- MODULE EnrichMirror ----------------------------
(***************************************************************************)
(* Mirror files over time.  A developer edits the types, fills mirrors in  *)
(* and prunes what was commented out; the command line and the daemon      *)
(* bring mirrors in line with the types.  A command works on the types it  *)
(* reaches from its root, file by file, so it can stop with some of its    *)
(* files written.                                                          *)
(*                                                                         *)
(* The text an author writes is [n, at, of]: which text, where it was      *)
(* written, and the id of the type it was written for.                     *)
(***************************************************************************)
EXTENDS EnrichMerge

CONSTANTS
    Start,       \* the first version of the types
    Edits,       \* pairs of versions: which can become which
    MaxSaves,    \* bound on edits of the types
    MaxTexts,    \* bound on fillings of a constant
    MaxCommands  \* bound on commands that write mirrors

VARIABLES
    decl,        \* the version of the types
    files,       \* the mirrors, by source file and family
    written,     \* ghost: texts written, and not pruned since
    saves, texts, commands

vars == <<decl, files, written, saves, texts, commands>>

Keys    == Sources \X (Families \cup {"both"})

NoFile  == [items |-> <<>>, crumb |-> {}, imports |-> {}]
Exists(file) == file.crumb # {}

-----------------------------------------------------------------------------
(***************************************************************************)
(* Walks over a literal.                                                   *)
(***************************************************************************)
Parts(val) ==
    CASE val.is = "obj" -> {<<p.key, p.val>> : p \in Range(val.props)}
      [] val.is = "arr" -> {<<SlotLabel(i), val.vals[i]>> : i \in DOMAIN val.vals}
      [] OTHER -> {}

RECURSIVE TextsIn(_)
TextsIn(val) ==
    IF val.is = "text" THEN IF val.by.n = 0 THEN {} ELSE {val.by}
    ELSE UNION {TextsIn(x[2]) : x \in Parts(val)}
         \cup (IF IsObj(val) THEN UNION {TextsIn(p.val) : p \in val.dead} ELSE {})

RECURSIVE DeadTexts(_)
DeadTexts(val) ==
    UNION {DeadTexts(x[2]) : x \in Parts(val)}
    \cup (IF IsObj(val) THEN UNION {TextsIn(p.val) : p \in val.dead} ELSE {})

RECURSIVE IsBroken(_)
IsBroken(val) == (IsObj(val) /\ val.end = "broken") \/ \E x \in Parts(val) : IsBroken(x[2])

RECURSIVE RefsIn(_)
RefsIn(val) == IF val.is = "ref" THEN {val.var} ELSE UNION {RefsIn(x[2]) : x \in Parts(val)}

\* The literal with every object in it, itself last, changed by an operator of
\* the literal alone: "repair" puts commas right, "prune" takes out what was
\* commented out.
Reshaped(obj, how) ==
    CASE how = "repair" -> [obj EXCEPT !.end = IF @ = "broken" THEN "comma" ELSE @]
      [] how = "prune"  -> [obj EXCEPT !.dead = {}]

RECURSIVE Walked(_, _)
Walked(val, how) ==
    CASE val.is = "obj" ->
            Reshaped([val EXCEPT !.props = [i \in DOMAIN @ |->
                                               P(@[i].key, Walked(@[i].val, how))]], how)
      [] val.is = "arr" -> Arr([i \in DOMAIN val.vals |-> Walked(val.vals[i], how)])
      [] OTHER -> val

RECURSIVE RenamedIn(_, _, _)
RenamedIn(val, old, new) ==
    CASE val.is = "ref" -> IF val.var = old THEN Ref(new) ELSE val
      [] val.is = "arr" -> Arr([i \in DOMAIN val.vals |-> RenamedIn(val.vals[i], old, new)])
      [] val.is = "obj" ->
            [val EXCEPT !.props = [i \in DOMAIN @ |-> P(@[i].key, RenamedIn(@[i].val, old, new))],
                        !.dead  = {P(p.key, RenamedIn(p.val, old, new)) : p \in @}]
      [] OTHER -> val

Parses(file) == \A i \in DOMAIN file.items : file.items[i].live => ~IsBroken(file.items[i].body)

-----------------------------------------------------------------------------
(***************************************************************************)
(* Files.                                                                  *)
(***************************************************************************)
NewItem(const, fam) ==
    [live |-> TRUE, fam |-> fam, var |-> const.var, type |-> const.type,
     id |-> const.id, ids |-> const.ids, body |-> const.body[fam], aged |-> FALSE]

CrossFileImports(spec, items) ==
    {v \in UNION {RefsIn(items[i].body) : i \in DOMAIN items} :
        v \in DOMAIN spec.home /\ spec.home[v] # spec.src}

Stands(file, fam, v) ==
    \E i \in DOMAIN file.items : file.items[i].fam = fam /\ file.items[i].var = v

\* Creating only: a constant is skipped if its name stands there, even in a comment.
Scaffold(spec, file) ==
    LET consts == SelectSeq(spec.consts, LAMBDA c : ~Stands(file, spec.fam, c.var))
        new    == [i \in DOMAIN consts |-> NewItem(consts[i], spec.fam)]
    IN IF Exists(file) THEN [file EXCEPT !.items = @ \o new]
       ELSE [items   |-> new,
             crumb   |-> {c.type : c \in Range(spec.consts)},
             imports |-> CrossFileImports(spec, new)]

SourceDeclaresType(d, src, type) ==
    \E n \in Names : FileOf[n] = src /\ Display[n] = type /\ Declares[d][n] # Gone

\* The comment a constant is put back from is the last one of its name.
IsCarcass(items, i) ==
    /\ ~items[i].live
    /\ \A l \in DOMAIN items : l > i /\ items[l].var = items[i].var => items[l].live

Restored(item, const) ==
    [item EXCEPT !.live = TRUE, !.id = const.id, !.ids = const.ids,
                 !.aged = @ \/ item.id # const.id]

Renamed(item, const) ==
    [MergeItem(item, const) EXCEPT !.var = const.var, !.type = const.type]

AfterRename(item, old, new) ==
    [item EXCEPT !.var = IF @ = old THEN new ELSE @, !.body = RenamedIn(@, old, new)]

SyncBreadcrumb(spec, file, renames, orphans) ==
    LET items   == file.items
        removed == orphans \cup {r[1] : r \in renames}
        types   == {items[i].type : i \in removed}
        names   == {items[i].type : i \in {l \in DOMAIN items : items[l].live}} \ types
        wanted  == {c.type : c \in {x \in Range(spec.consts) : x.file = spec.src}}
        mention == {items[i].type : i \in DOMAIN items \ removed}
        all     == names \cup wanted \cup (file.crumb \cap mention)
    IN IF all = {} THEN file.crumb ELSE all

ReconcileWith(spec, file, d, renames) ==
    LET items   == file.items
        consts  == spec.consts
        living(v) == \E i \in DOMAIN items : items[i].live /\ items[i].var = v
        fresh   == {j \in DOMAIN consts : ~living(consts[j].var) /\ ~\E r \in renames : r[2] = j}
        of(v)   == consts[SelectInSeq(consts, LAMBDA c : c.var = v)]
        wanted  == {c.var : c \in Range(consts)}
        orphans == {i \in DOMAIN items :
                       /\ items[i].live /\ items[i].var \notin wanted
                       /\ ~\E r \in renames : r[1] = i
                       /\ ~SourceDeclaresType(d, spec.src, items[i].type)}
        restored == {i \in DOMAIN items :
                        IsCarcass(items, i) /\ \E j \in fresh : consts[j].var = items[i].var}
        edited  == [i \in DOMAIN items |->
                      CASE \E r \in renames : r[1] = i ->
                              Renamed(items[i], consts[(CHOOSE r \in renames : r[1] = i)[2]])
                        [] items[i].live /\ items[i].var \in wanted ->
                              MergeItem(items[i], of(items[i].var))
                        [] i \in orphans  -> [items[i] EXCEPT !.live = FALSE]
                        [] i \in restored -> Restored(items[i], of(items[i].var))
                        [] OTHER -> items[i]]
        fixed   == FoldLeft(LAMBDA acc, r :
                               [i \in DOMAIN acc |->
                                   AfterRename(acc[i], items[r[1]].var, consts[r[2]].var)],
                            edited, SetToSeq(renames))
        added   == SelectSeq(consts, LAMBDA c :
                                /\ \E j \in fresh : consts[j] = c
                                /\ ~\E i \in restored : items[i].var = c.var)
        new     == [i \in DOMAIN added |-> NewItem(added[i], spec.fam)]
    IN [items   |-> fixed \o new,
        crumb   |-> SyncBreadcrumb(spec, file, renames, orphans),
        imports |-> file.imports \cup CrossFileImports(spec, new)]

Reconcile(spec, file, d) ==
    ReconcileWith(spec, file, d, ConstRenames(file.items, spec.consts))

\* One file of a plan: merged if it is there, created otherwise.
InLine(spec, file, d) == IF Exists(file) THEN Reconcile(spec, file, d) ELSE Scaffold(spec, file)

\* A mirror of both families, as they once were, becomes one of each.
SplitCombined(file, fam) ==
    LET keep(i) == file.items[i].fam = fam
                   /\ (file.items[i].live \/ IsCarcass(SelectSeq(file.items, LAMBDA x : x.fam = fam),
                         Len(SelectSeq(SubSeq(file.items, 1, i), LAMBDA x : x.fam = fam))))
        kept    == SetToSortSeq({i \in DOMAIN file.items : keep(i)}, <)
    IN IF kept = <<>> THEN NoFile
       ELSE [file EXCEPT !.items = [i \in DOMAIN kept |-> file.items[kept[i]]]]

IsLegacy(src) ==
    /\ files[<<src, "both">>].items # <<>>
    /\ \A fam \in Families : ~Exists(files[<<src, fam>>])

KeyOf(spec) == <<spec.src, spec.fam>>

-----------------------------------------------------------------------------
\* A combined mirror left by a version that wrote one.
Combined(src, closure) ==
    LET consts == SelectSeq(closure, LAMBDA c : c.file = src)
        of(fam) == [i \in DOMAIN consts |-> NewItem(consts[i], fam)]
    IN [items |-> of("friendly") \o of("mock"), crumb |-> {c.type : c \in Range(consts)},
        imports |-> {}]

Empty == [key \in Keys |-> NoFile]

\* The files once the first k of a plan are written, each by its own specification.
FirstWritten(fs, plan, k, mode) ==
    [key \in Keys |->
        LET mine == {i \in 1..k : KeyOf(plan[i]) = key}
            spec == plan[CHOOSE i \in mine : TRUE]
        IN IF mine = {} THEN fs[key]
           ELSE IF mode = "create" THEN Scaffold(spec, fs[key]) ELSE InLine(spec, fs[key], decl)]

\* No mirrors, combined ones, or those that an earlier command made.
Init ==
    /\ decl = Start
    /\ \E n \in {m \in Roots : Resolves(Declares[Start], m)} :
          files \in {Empty,
                    [Empty EXCEPT ![<<FileOf[n], "both">>] =
                        Combined(FileOf[n], EmitClosure(Declares[Start], n))],
                    FirstWritten(Empty, RootPlans[Start][n], Len(RootPlans[Start][n]), "create")}
    /\ written = {} /\ saves = 0 /\ texts = 0 /\ commands = 0

\* The developer saves other types.
Save ==
    /\ saves < MaxSaves
    /\ \E next \in Versions : <<decl, next>> \in Edits /\ decl' = next
    /\ saves' = saves + 1    /\ UNCHANGED <<files, written, texts, commands>>

\* The nearest part that has an id of its own, and its id.
Owners(item, path) == {k \in 1..Len(path) : SubSeq(path, 1, k) \in DOMAIN item.ids}

OwnerId(item, path) ==
    LET upTo == Owners(item, path)
    IN IF upTo = {} THEN item.id ELSE item.ids[SubSeq(path, 1, CHOOSE k \in upTo : \A l \in upTo : l <= k)]

RECURSIVE Filled(_, _, _, _)
Filled(val, path, item, n) ==
    CASE val = Blank -> Text([n |-> n, at |-> <<item.var>> \o path, of |-> OwnerId(item, path)])
      [] val.is = "obj" ->
            [val EXCEPT !.props = [i \in DOMAIN @ |->
                 P(@[i].key, Filled(@[i].val, Append(path, @[i].key), item, n))]]
      [] val.is = "arr" ->
            Arr([i \in DOMAIN val.vals |-> Filled(val.vals[i], Append(path, SlotLabel(i)), item, n)])
      [] OTHER -> val

\* Blank messages replaced by one that stands for all.
RECURSIVE Simplified(_)
Simplified(val) ==
    IF ~IsObj(val) THEN val
    ELSE [val EXCEPT !.props = [i \in DOMAIN @ |->
             IF @[i].key = "rt$errors" /\ IsObj(@[i].val) /\ TextsIn(@[i].val) = {}
             THEN P("rt$errors", Inline(<<P("rt$default", Blank)>>))
             ELSE P(@[i].key, Simplified(@[i].val))]]

\* The developer fills in the blanks of a mirror.
FilledItem(item, n, simply) ==
    IF ~item.live THEN item
    ELSE [item EXCEPT !.body = Filled(IF simply /\ item.fam = "friendly" THEN Simplified(@) ELSE @,
                                      <<>>, item, n)]

Author(key) ==
    /\ texts < MaxTexts
    /\ \E simply \in BOOLEAN :
          LET items == [i \in DOMAIN files[key].items |->
                           FilledItem(files[key].items[i], texts + 1, simply)]
          IN /\ items # files[key].items
             /\ files' = [files EXCEPT ![key].items = items]
             /\ written' = written \cup UNION {TextsIn(items[i].body) : i \in DOMAIN items}
    /\ texts' = texts + 1    /\ UNCHANGED <<decl, saves, commands>>

Tidied(file, how) ==
    [file EXCEPT !.items = [i \in DOMAIN @ |->
        IF @[i].live THEN [@[i] EXCEPT !.body = Walked(@, how)] ELSE @[i]]]

\* The developer puts right a file that does not parse.
Repair(key) ==
    /\ ~Parses(files[key])
    /\ files' = [files EXCEPT ![key] = Tidied(@, "repair")]
    /\ UNCHANGED <<decl, written, saves, texts, commands>>

\* What was commented out is deleted, except in a file that does not parse.
Swept(file) ==
    IF ~Parses(file) THEN file
    ELSE [file EXCEPT !.items = SelectSeq(Tidied(file, "prune").items, LAMBDA x : x.live)]

Commented(file) ==
    UNION {IF file.items[i].live THEN DeadTexts(file.items[i].body) ELSE TextsIn(file.items[i].body)
           : i \in DOMAIN file.items}

Prune ==
    LET swept == [key \in Keys |-> Swept(files[key])]
    IN /\ swept # files
       /\ files' = swept
       /\ written' = written \ UNION {Commented(files[key]) : key \in {k \in Keys : Parses(files[k])}}
       /\ UNCHANGED <<decl, saves, texts, commands>>

\* Every combined mirror of the plan's source files is split first.
Migrated(plan) ==
    LET srcs == {src \in {plan[i].src : i \in DOMAIN plan} : IsLegacy(src)}
    IN [key \in Keys |->
           CASE key[1] \notin srcs -> files[key]
             [] key[2] = "both"    -> NoFile
             [] OTHER              -> SplitCombined(files[<<key[1], "both">>], key[2])]

\* A command that changes nothing leaves no trace.
OneCommand ==
    /\ files' # files
    /\ commands' = commands + 1
    /\ UNCHANGED <<decl, written, saves, texts>>

\* The command line, with or without --update: the first k files are written.
\* It ends at a file that does not parse, or when it is stopped.
Update(n) ==
    LET plan  == RootPlans[decl][n]
        start == Migrated(plan)
    IN /\ commands < MaxCommands
       /\ \E k \in DOMAIN plan :
             /\ \A i \in 1..k : Parses(start[KeyOf(plan[i])])
             /\ files' = FirstWritten(start, plan, k, "update")
       /\ OneCommand

Create(n) ==
    LET plan == RootPlans[decl][n]
    IN /\ commands < MaxCommands
       /\ plan # <<>>
       /\ files' = FirstWritten(Migrated(plan), plan, Len(plan), "create")
       /\ OneCommand

\* The daemon computes all contents first; a file that does not parse keeps its own.
Sync(src) ==
    LET plan == SelectSeq(FilePlans[decl][src], LAMBDA s : Parses(files[KeyOf(s)]))
    IN /\ commands < MaxCommands
       /\ plan # <<>>
       /\ files' = FirstWritten(files, plan, Len(plan), "update")
       /\ OneCommand

Next ==
    \/ Save
    \/ \E key \in Keys : Author(key) \/ Repair(key)
    \/ Prune
    \/ \E n \in Roots : Update(n) \/ Create(n)
    \/ \E src \in Sources : Sync(src)

Spec == Init /\ [][Next]_vars

-----------------------------------------------------------------------------
(***************************************************************************)
(* Properties.                                                             *)
(***************************************************************************)
\* Whatever was written stands in a mirror, live or commented out, until the
\* author has it pruned: no merge, rename, restore or migration drops a text.
NothingIsLost ==
    written \subseteq
        UNION {UNION {TextsIn(files[key].items[i].body) : i \in DOMAIN files[key].items} : key \in Keys}

\* What the commands that can be given are to bring in line, by version.
Specs ==
    [d \in Versions |-> UNION {Range(RootPlans[d][n]) : n \in Roots}
                        \cup UNION {Range(FilePlans[d][src]) : src \in Sources}]

IsAged(file) == \E i \in DOMAIN file.items : file.items[i].live /\ file.items[i].aged

Settles(spec, file) ==
    LET after == InLine(spec, file, decl)
    IN Parses(after) /\ ~IsAged(after) => InLine(spec, after, decl) = after

\* A mirror that a command has brought in line is left as it is by the next
\* one, whatever the authors and the types went through before, unless it holds
\* a constant put back under another id: nothing is renamed back, added twice
\* or commented out late.
UpdateSettles ==
    \A spec \in Specs[decl] : Parses(files[KeyOf(spec)]) => Settles(spec, files[KeyOf(spec)])

\* What the checker finds wrong in a literal (validate.go): a field the type
\* does not have, a message for a constraint it does not have, a default next
\* to other messages, plural arms that no count chooses or none to fall back on.
MetaKeys(fam) ==
    IF fam = "friendly" THEN {"rt$label", "rt$errors", "rt$items"}
    ELSE {"rt$items", "rt$length", "rt$optional", "pool", "min", "max"}

ErrorsPass(errors, t) ==
    /\ HasKey(errors, "rt$default") => Len(errors.props) = 1
    /\ \A p \in Range(errors.props) :
          /\ p.key \in Constraints(t) \cup {"type", "rt$default"}
          /\ IsObj(p.val) => p.key \in CountBearing /\ HasKey(p.val, "other")

RECURSIVE Passes(_, _, _, _)
Passes(d, fam, t, obj) ==
    LET b == Body(d, t)
    IN IF ~IsObj(obj) THEN TRUE
       ELSE /\ fam = "friendly" /\ HasKey(obj, "rt$errors") => ErrorsPass(At(obj, "rt$errors"), b)
            /\ b.k = "array" /\ HasKey(obj, "rt$items") =>
                  Passes(d, fam, Head(b.parts).type, At(obj, "rt$items"))
            /\ b.k = "object" =>
                  \A p \in Range(obj.props) :
                     \/ p.key \in MetaKeys(fam)
                     \/ \E part \in Range(b.parts) :
                           part.label = p.key /\ Passes(d, fam, part.type, p.val)

\* A constant that was just brought in line passes the check: the merge leaves
\* no field or message behind that the type no longer has.
UpdatedConstsPass ==
    \A spec \in Specs[decl] :
       Parses(files[KeyOf(spec)]) =>
          LET after == InLine(spec, files[KeyOf(spec)], decl) IN
          \A i \in DOMAIN after.items, c \in Range(spec.consts) :
             after.items[i].live /\ ~after.items[i].aged /\ after.items[i].var = c.var =>
                Passes(Declares[decl], spec.fam, c.of, after.items[i].body)

\* The texts of a literal at a path, each with the id of the part it stands in;
\* no id for what stands in the constant itself.
RECURSIVE TextsUnder(_, _, _, _)
TextsUnder(val, path, ids, owner) ==
    IF val.is = "text" THEN IF val.by.n = 0 THEN {} ELSE {<<owner, val.by.of>>}
    ELSE UNION {LET here == Append(path, x[1]) IN
                TextsUnder(x[2], here, ids, IF here \in DOMAIN ids THEN {ids[here]} ELSE owner)
                : x \in Parts(val)}

\* A mock that was just brought in line holds no data made for a part that had
\* another type then: such a part is commented out and begun anew.
MocksMatchTypes ==
    \A spec \in Specs[decl] :
       spec.fam = "mock" /\ Parses(files[KeyOf(spec)]) =>
          LET after == InLine(spec, files[KeyOf(spec)], decl) IN
          \A i \in DOMAIN after.items :
             LET item == after.items[i] IN
             item.live /\ ~item.aged /\ (\E c \in Range(spec.consts) : c.var = item.var) =>
                \A x \in TextsUnder(item.body, <<>>, item.ids, {}) : x[1] \in {{}, {x[2]}}

\* A constant whose type its source still declares stands after any step: a
\* command for another root leaves it alone.
OthersStay ==
    [][\A key \in Keys : \A item \in Range(files[key].items) :
          item.live /\ SourceDeclaresType(decl, key[1], item.type)
          => \E fam \in {item.fam, "both"} : \E now \in Range(files'[<<key[1], fam>>].items) :
                now.live /\ now.fam = item.fam /\ now.var = item.var]_vars
=============================================================================
