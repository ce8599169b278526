----------------------------- MODULE TypeTable ------------------------------
(* The type table of a resolver session: cachegen/runtype/{serialize,        *)
(* intersection_collapse,union_safeorder}.go, fed by the scan of a program's *)
(* call sites and by its overrides (compiler/resolver/{scan,overrides}.go).  *)
(*                                                                           *)
(* A type is named by its text (TypeIds) and described by one node, which all*)
(* the types of that text share: the first of them to be met is projected,   *)
(* the others never are. So a text must tell apart all that nodes say.       *)
(* Members, parameters and slots, which have nodes of their own in the code  *)
(* but are named by their parent, are kept in place.                         *)
EXTENDS TypeIds

CONSTANTS Programs, Project, Checkers, MaxSwaps

(* The table survives its programs. byPtr and computers are per checker: the *)
(* pointers of two checkers are never the same.                              *)
VARIABLES program, built, overrides, computers, byPtr, nodes, circular, sites, reports, findings, swaps
vars == <<program, built, overrides, computers, byPtr, nodes, circular, sites, reports, findings, swaps>>

NoProgram == "none"

-----------------------------------------------------------------------------
(* What a node says of a type: a head that starts with its kind, its parts,  *)
(* and its merged format. A part is a type to be serialized, an anonymous    *)
(* union, a folded slot, or a description in place.                          *)
AnyOf(members) == [is |-> "any of", members |-> members]
FoldOf(arms) == [is |-> "fold of", arms |-> arms]
Described(head, parts, format) == [head |-> head, parts |-> parts, format |-> format]
Plain(head, parts) == Described(head, parts, {})
In(description) == [is |-> "in", at |-> description]

SerializedAs(members) == IF Len(members) = 1 THEN Type(members[1]) ELSE AnyOf(members)
SerializeChild(t, optional) == SerializedAs(IF optional THEN ResolveOptionalChild(t) ELSE <<t>>)

ProjectSlots(t, slots) ==
  Plain(<<"tuple">>, [i \in DOMAIN slots |->
    <<SlotLabel(i, slots[i].opt, slots[i].rest, slots[i].variadic, slots[i].label),
      SerializeChild(Part(t, slots[i].type), slots[i].opt)>>])
ProjectTuple(t, labels) == ProjectSlots(t, Relabelled(t, labels))

(* Here a parameter's mark is read off its declaration. A rest tuple spreads *)
(* where its slots have names, or where it has none.                         *)
ProjectParams(t, kept, slots) ==
  [i \in DOMAIN kept |-> <<<<"param", i, kept[i].name, kept[i].opt, kept[i].rest>>,
                           SerializeChild(Part(t, kept[i].type), kept[i].opt)>>]
  \o [i \in DOMAIN slots |-> <<<<"param", i, slots[i].label, FALSE, FALSE>>, Type(slots[i].type)>>]
ProjectSpread(t, list) == ProjectParams(t, list.kept, list.slots)
ProjectSignature(kind, t, sig) ==
  Plain(<<kind>>,
        ProjectSpread(t, Spread(t, sig.params, FALSE))
        \o <<<<<<"returns">>, Type(Part(t, sig.returns))>>>>)

ProjectChild(marks, child, optional) ==
  IF IsFunction(child) THEN <<<<"method">> \o marks, In(ProjectSignature("method", child, Shape(child).calls[1]))>>
  ELSE <<<<"property">> \o marks, SerializeChild(child, optional)>>
ProjectProperty(t, p, optional) ==
  ProjectChild(<<p.name, optional, p.ro, p.guarded>>, Part(t, p.type), optional)

ProjectMembers(t, props, index, calls) ==
  [i \in DOMAIN props |-> ProjectProperty(t, props[i], props[i].opt \/ props[i].guarded)]
  \o [i \in DOMAIN index |->
        <<<<"index">>, In(Plain(<<"index">>, <<<<<<"key">>, Type(Part(t, index[i].key))>>,
                                             <<<<"value">>, Type(Part(t, index[i].value))>>>>))>>]
  \o [i \in DOMAIN calls |-> <<<<"call">>, In(ProjectSignature("call", t, calls[i]))>>]
ProjectWhole(t, head) == Plain(head, ProjectMembers(t, Properties(t), Shape(t).index, Shape(t).calls))

(* A class has no calls. *)
ProjectObjectType(t) ==
  CASE Is(t, "tuple") -> ProjectTuple(t, <<>>)
    [] Is(t, "array") \/ Is(t, "promise") -> Plain(<<Shape(t).is>>, <<<<<<"of">>, Type(Part(t, Shape(t).child))>>>>)
    [] Is(t, "native") -> Plain(<<"class", Shape(t).name>>,
                                [i \in DOMAIN Shape(t).args |-> <<<<"arg", i>>, Type(Part(t, Shape(t).args[i]))>>])
    [] Is(t, "keyword") -> Plain(<<KindOf(t), Shape(t).kind>>, <<>>)
    [] Is(t, "sentinel") -> Plain(<<"objectLiteral">>, <<>>)
    [] IsFunction(t) -> ProjectSignature("function", t, Shape(t).calls[1])
    [] OTHER -> ProjectWhole(t, <<KindOf(t), Shape(t).class>>)

ProjectPrimitive(t) ==
  IF Is(t, "literal") THEN Plain(<<"literal", Shape(t).of, Shape(t).value>>, <<>>) ELSE Plain(<<KindOf(t)>>, <<>>)

(* The placeholders of a template have no nodes of their own. *)
TemplateSpan(t) == IF IsLiteral(t) THEN <<"literal", Shape(t).of, Shape(t).value>>
                   ELSE IF IsKeyword(t, {"string", "number", "bigint", "any", "unknown"}) THEN <<Shape(t).kind>>
                   ELSE <<"string">>

-----------------------------------------------------------------------------
(* Intersections, decided as the id decides them. *)
ProjectPick(pick) == IF pick.arms # <<>> THEN FoldOf(pick.arms) ELSE SerializeChild(pick.child[1], pick.opt)
ProjectMergedTuple(merged) ==
  IF merged = <<>> THEN Plain(<<"never">>, <<>>)
  ELSE Plain(<<"tuple">>, [i \in DOMAIN merged[1] |->
         <<SlotLabel(i, merged[1][i].opt, merged[1][i].rest, FALSE, ""), ProjectPick(merged[1][i])>>])

Merged(annotations) == IF annotations = <<>> THEN {} ELSE ToSet(MergeFormats(annotations))
Decorate(d, more, format) == [d EXCEPT !.parts = @ \o more, !.format = format]

(* The one object that folds, formats or labels decorate; more than one      *)
(* object is a merged tuple, or the object of all their members.             *)
ProjectRests(t, rests, labels, decorated, same) ==
  IF rests = <<>> THEN Plain(<<"unknown">>, <<>>)
  ELSE IF Len(rests) = 1 /\ LabelsCover(labels, rests) THEN ProjectTuple(rests[1], labels[1])
  ELSE IF Len(rests) = 1 /\ decorated THEN ProjectObjectType(rests[1])
  ELSE IF Len(rests) > 1 /\ AllTupleOrArray(rests) THEN ProjectMergedTuple(MergeTuples(rests, same))
  ELSE ProjectWhole(Part(t, Shape(t).merged), <<"objectLiteral", "">>)

DecoratedRests(t, rests, labels, folds, formats, same) ==
  Decorate(ProjectRests(t, rests, labels, labels # <<>> \/ formats # <<>> \/ folds # <<>>, same), folds, Merged(formats))

CollapseMembers(t, primary, brands, builtins, same) ==
  IF primary # <<>>
  THEN Decorate(ProjectPrimitive(primary[1]), [i \in DOMAIN brands |-> <<<<"brand">>, Type(brands[i])>>], Merged(Formats(t)))
  ELSE IF builtins # <<>> THEN Decorate(ProjectObjectType(builtins[1]), <<>>, ToSet(Formats(t)))
  ELSE DecoratedRests(t, Rests(t), LiftedLabels(t), SentinelFolds(t), Formats(t), same)

CollapseIntersection(t, same) ==
  IF IsImpossible(t) THEN Plain(<<"never">>, <<>>)
  ELSE CollapseMembers(t, Primaries(t), Brands(t), BrandedBuiltins(t), same)

Projection(t, same) ==
  CASE Is(t, "literal") \/ IsKeyword(t, {"string", "number", "boolean", "bigint", "symbol"}) -> ProjectPrimitive(t)
    [] Is(t, "keyword") /\ ~IsBase(t) -> Plain(<<KindOf(t)>> \o IF IsObjectLike(t) THEN <<Shape(t).kind>> ELSE <<>>, <<>>)
    [] Is(t, "enum") -> Plain(<<"enum", Shape(t).name, Shape(t).members>>, <<>>)
    [] Is(t, "template") -> Plain(<<"template", Shape(t).texts,
                                    [i \in DOMAIN Shape(t).types |-> TemplateSpan(Part(t, Shape(t).types[i]))]>>, <<>>)
    [] Is(t, "union") -> Plain(<<"union">>, [i \in DOMAIN Members(t) |-> <<<<"member">>, Type(Members(t)[i])>>])
    [] Is(t, "intersection") -> CollapseIntersection(t, same)
    [] OTHER -> ProjectObjectType(t)

-----------------------------------------------------------------------------
(* Unions: the order in which their members are tried, and the property that *)
(* tells the objects among them apart. Both read the members' nodes as they  *)
(* are by then: a member that is still being projected has no properties.    *)
Ref(id) == [is |-> "ref", id |-> id]
PropertiesAt(table, id) == SelectSeq(table[id].parts, LAMBDA part : part[1][1] = "property")
PropertyTypes(table, id) == {part[2].id : part \in ToSet(PropertiesAt(table, id))}

(* Groups of the members whose property types contain one another, seen from *)
(* the first of each; within a group the one with the most comes first.      *)
Contained(a, b) == a # b /\ (a \subseteq b \/ b \subseteq a)
Descending(group, types) ==
  SetToSortSeq(group, LAMBDA i, j :
    IF Cardinality(types[i]) = Cardinality(types[j]) THEN i < j ELSE Cardinality(types[i]) > Cardinality(types[j]))

RECURSIVE SortGroups(_, _)
GroupThenRest(left, group, types) == Descending(group, types) \o SortGroups(left \ group, types)
SortGroups(left, types) ==
  IF left = {} THEN <<>>
  ELSE GroupThenRest(left, {i \in left : i = Least(left) \/ Contained(types[i], types[Least(left)])}, types)

SortUnreachableTypes(table, objects) ==
  LET order == SortGroups(DOMAIN objects, [i \in DOMAIN objects |-> PropertyTypes(table, objects[i])])
  IN  [i \in DOMAIN order |-> objects[order[i]]]

HasKind(table, id, kinds) == table[id].head[1] \in kinds
SafeOrder(table, children) ==
  [simple |-> SelectSeq(children, LAMBDA id : ~HasKind(table, id, {"any", "unknown", "objectLiteral", "class"})),
   objects |-> SortUnreachableTypes(table, SelectSeq(children, LAMBDA id : HasKind(table, id, {"objectLiteral", "class"}))),
   any |-> SelectSeq(children, LAMBDA id : HasKind(table, id, {"any", "unknown"}))]

(* A name that all the objects have, with types that all differ; or else for *)
(* each object its first property of a type that no other has. Of several    *)
(* names the one with the shortest ids is taken, which are equally long here.*)
NameAt(part) == part[1][2]
PropertiesNamed(table, id, name) == SelectSeq(PropertiesAt(table, id), LAMBDA part : NameAt(part) = name)
IsShared(named) == \A i, j \in DOMAIN named : named[i] # <<>> /\ (i # j => named[i][1][2] # named[j][1][2])
SharedNames(table, objects) ==
  {name \in {NameAt(part) : part \in ToSet(PropertiesAt(table, objects[1]))} :
     IsShared([i \in DOMAIN objects |-> PropertiesNamed(table, objects[i], name)])}

FirstName(parts) == IF parts = <<>> THEN <<>> ELSE <<NameAt(parts[1])>>
UniqueName(table, objects, i) ==
  FirstName(SelectSeq(PropertiesAt(table, objects[i]), LAMBDA part :
              \A j \in DOMAIN objects \ {i} : part[2].id \notin PropertyTypes(table, objects[j])))

TellApart(table, objects, shared) ==
  [i \in DOMAIN objects |-> IF shared = {} THEN UniqueName(table, objects, i) ELSE <<CHOOSE name \in shared : TRUE>>]
MarkDiscriminators(table, objects) ==
  IF Len(objects) < 2 THEN [i \in DOMAIN objects |-> <<>>]
  ELSE TellApart(table, objects, SharedNames(table, objects))

FirstOf(ids) == IF ids = <<>> THEN <<>> ELSE <<ids[1]>>
Unordered == [safe |-> <<>>, told |-> <<>>]
InSafeOrder(table, order) ==
  [safe |-> order.simple \o order.objects \o FirstOf(order.any), told |-> MarkDiscriminators(table, order.objects)]
FinalizeUnion(table, head, parts) ==
  IF head # <<"union">> \/ Len(parts) <= 1 THEN Unordered
  ELSE InSafeOrder(table, SafeOrder(table, [i \in DOMAIN parts |-> parts[i][2].id]))

-----------------------------------------------------------------------------
(* Serializing, depth first. The record holds the walk and the pointers of   *)
(* one checker, the table, the ids whose projection is under way, those that *)
(* were reached from inside themselves, and the latch of a type too deep.    *)
Empty(head) == [head |-> head, parts |-> <<>>, format |-> {}, over |-> <<>>, circular |-> FALSE, order |-> Unordered]
NodeOf(d, parts, table, over, flag) ==
  [head |-> d.head, parts |-> parts, format |-> d.format, over |-> over, circular |-> flag,
   order |-> FinalizeUnion(table, d.head, parts)]

Serialized(c, id) == [c |-> c, id |-> id]
Reached(c, id) == IF id \in c.open THEN [c EXCEPT !.circular = @ \cup {id}] ELSE c
PutNode(c, id, node) == [c EXCEPT !.nodes = Set(@, id, node)]

(* The one entry that all the types too deep to be named share. *)
DepthExceeded == Tree(<<"empty", "depthExceeded">>, <<>>)
Unresolved(c, t, culprit) ==
  Serialized([c EXCEPT !.deep = <<culprit>>, !.byPtr = Set(@, t, DepthExceeded),
                       !.nodes = IF DepthExceeded \in DOMAIN @ THEN @
                                 ELSE Set(@, DepthExceeded, Empty(<<"unknown", "depthExceeded">>))], DepthExceeded)

(* The overrides of a type are looked up by the key of a computer that has   *)
(* walked nothing yet, as they were keyed.                                   *)
StampOverrides(over, t) ==
  IF DOMAIN over = {} THEN <<>> ELSE OverrideSuffix([over |-> over], BaseStructuralKey(NewComputer(over), t).text)

RECURSIVE Serialize(_, _), SerializeSyntheticUnion(_, _), SerializeFoldedSlot(_, _), Lay(_, _)

Placed(s) == [c |-> s.c, at |-> Ref(s.id)]
LaidIn(description, d) == [c |-> d.c, at |-> In([description EXCEPT !.parts = d.parts])]
LayPart(c, at) ==
  CASE at.is = "type" -> Placed(Serialize(c, at.type))
    [] at.is = "any of" -> Placed(SerializeSyntheticUnion(c, at.members))
    [] at.is = "fold of" -> Placed(SerializeFoldedSlot(c, at.arms))
    [] at.is = "in" -> LaidIn(at.at, Lay(c, at.at))

AddPart(label, parts, d) == [c |-> d.c, parts |-> Append(parts, <<label, d.at>>)]
Lay(c, description) ==
  FoldLeft(LAMBDA done, part : AddPart(part[1], done.parts, LayPart(done.c, part[2])), [c |-> c, parts |-> <<>>],
           description.parts)

Finish(d, description, id, t) ==
  Serialized([d.c EXCEPT !.open = @ \ {id},
                         !.nodes = Set(@, id, NodeOf(description, d.parts, @, StampOverrides(d.c.over, t), id \in d.c.circular))],
             id)

(* Two contenders for a slot are the same where they would share an entry.   *)
LayAndFinish(c, description, id, t) == Finish(Lay(c, description), description, id, t)
ProjectType(c, t, id) ==
  LayAndFinish(c, Projection(t, SameTexts(c.walk)), id, t)

(* The entry is there, as a placeholder, before its projection starts. *)
Introduce(c, t, id) ==
  ProjectType([PutNode(c, id, Empty(<<KindOf(t)>>)) EXCEPT !.open = @ \cup {id}], t, id)

Named(c, t, id) ==
  IF id \in DOMAIN c.nodes THEN Serialized(Reached(c, id), id) ELSE Introduce(c, t, id)
AssignID(c, t, d) ==
  IF d.walk.latched THEN Unresolved([c EXCEPT !.walk = d.walk], t, d.walk.culprit)
  ELSE Named([c EXCEPT !.walk = d.walk, !.byPtr = Set(@, t, d.text)], t, d.text)

Serialize(c, t) ==
  IF t \in DOMAIN c.byPtr THEN Serialized(Reached(c, c.byPtr[t]), c.byPtr[t])
  ELSE AssignID(c, t, Compute(ResetDepthExceeded(c.walk), t))

(* Entries that no pointer stands for: found by their text alone. *)
AnonymousLaid(x, description, id) ==
  Serialized(PutNode(x.c, id, NodeOf(description, x.parts, x.c.nodes, <<>>, FALSE)), id)
AnonymousAt(c, id, description) ==
  IF id \in DOMAIN c.nodes THEN Serialized(c, id)
  ELSE AnonymousLaid(Lay(PutNode(c, id, Empty(description.head)), description), description, id)
Anonymous(c, d, description) == AnonymousAt([c EXCEPT !.walk = d.walk], d.text, description)

SerializeSyntheticUnion(c, members) ==
  Anonymous(c, SyntheticUnionStructural(c.walk, members),
            Plain(<<"union">>, [i \in DOMAIN members |-> <<<<"member">>, Type(members[i])>>]))

FoldDescription(arms) ==
  IF Len(arms) = 1 THEN Decorate(ProjectPrimitive(arms[1].base), <<>>, ToSet(arms[1].annotation))
  ELSE Plain(<<"union">>, [i \in DOMAIN arms |-> <<<<"member">>, FoldOf(<<arms[i]>>)>>])

SerializeFoldedSlot(c, arms) ==
  IF Len(arms) = 1 /\ arms[1].annotation = <<>> THEN Serialize(c, arms[1].base)
  ELSE Anonymous(c, Composed(c.walk, SpelledFold(arms)), FoldDescription(arms))

-----------------------------------------------------------------------------
Nothing == [x \in {} |-> DepthExceeded]

Init == /\ program = NoProgram /\ built = FALSE
        /\ overrides = NoOverrides
        /\ computers = [k \in Checkers |-> NewComputer(NoOverrides)]
        /\ byPtr = [k \in Checkers |-> Nothing]
        /\ nodes = Nothing /\ circular = {}
        /\ sites = {} /\ reports = {} /\ findings = {} /\ swaps = 0

(* The overrides of the program, before the first id is given. All of its    *)
(* files are read, whichever files the scan is of. A program without any     *)
(* leaves those of the program before it in force.                           *)
Session(over, walks, reported) == [over |-> over, computers |-> walks, findings |-> reported]
FoldedSession(raws, folded) ==
  Session(folded.map, [k \in Checkers |-> NewComputer(folded.map)], OverrideDiagnostics(raws, folded.keys))
EnsureOverrides ==
  IF built \/ Project[program].raws = <<>> THEN Session(overrides, computers, findings)
  ELSE FoldedSession(Project[program].raws, FoldedOverrides(Project[program].raws, NoOverrides, 1))

(* One call site, its type read by the checker of its file: it gets an id, or*)
(* a report.                                                                 *)
Commit(k, t, session, s) ==
  /\ overrides' = session.over
  /\ findings' = session.findings
  /\ computers' = [session.computers EXCEPT ![k] = s.c.walk]
  /\ byPtr' = [byPtr EXCEPT ![k] = s.c.byPtr]
  /\ nodes' = s.c.nodes
  /\ circular' = s.c.circular
  /\ sites' = IF s.c.deep = <<>> THEN sites \cup {<<k, t, s.id>>} ELSE sites
  /\ reports' = IF s.c.deep = <<>> THEN reports ELSE reports \cup {<<k, t, s.c.deep[1]>>}

CommitSession(k, t, session) ==
  Commit(k, t, session,
    Serialize([walk |-> session.computers[k], over |-> session.over, byPtr |-> byPtr[k], nodes |-> nodes,
               open |-> {}, circular |-> circular, deep |-> <<>>], Instance(t)))

Site(k, t) ==
  /\ program # NoProgram
  /\ <<k, t>> \in Project[program].sites
  /\ built' = TRUE
  /\ CommitSession(k, t, EnsureOverrides)
  /\ UNCHANGED <<program, swaps>>

(* A program takes the place of another: its checkers are new, the table     *)
(* stays, and so do the overrides until they are collected again.            *)
SetProgram(p) ==
  /\ swaps < MaxSwaps
  /\ program' = p /\ built' = FALSE
  /\ computers' = [k \in Checkers |-> NewComputer(overrides)]
  /\ byPtr' = [k \in Checkers |-> Nothing]
  /\ sites' = {} /\ reports' = {} /\ findings' = {}
  /\ swaps' = swaps + 1
  /\ UNCHANGED <<overrides, nodes, circular>>

ResetCache ==
  /\ program # NoProgram
  /\ swaps < MaxSwaps
  /\ program' = NoProgram /\ built' = FALSE
  /\ overrides' = NoOverrides
  /\ computers' = [k \in Checkers |-> NewComputer(NoOverrides)]
  /\ byPtr' = [k \in Checkers |-> Nothing]
  /\ nodes' = Nothing /\ circular' = {}
  /\ sites' = {} /\ reports' = {} /\ findings' = {}
  /\ swaps' = swaps + 1

Next == \/ \E k \in Checkers, t \in DOMAIN Env : Site(k, t)
        \/ \E p \in Programs : SetProgram(p)
        \/ ResetCache

Spec == Init /\ [][Next]_vars

-----------------------------------------------------------------------------
(* What types are, said without ids: two descriptions are alike when no path *)
(* through their parts tells them apart. A node is such a description too.   *)
(* The result is the set of the pairs met on the way, or <<>>.               *)
RECURSIVE Compare(_, _, _)
AlikeTypes(t, u) == Compare(Type(t), Type(u), {}) # <<>>

DescriptionAt(at) ==
  CASE at.is = "ref" -> nodes[at.id]
    [] at.is = "in" -> at.at
    [] at.is = "type" -> Projection(at.type, [t, u \in Pointers |-> AlikeTypes(t, u)])
    [] at.is = "any of" -> Plain(<<"union">>, [i \in DOMAIN at.members |-> <<<<"member">>, Type(at.members[i])>>])
    [] at.is = "fold of" -> FoldDescription(at.arms)

(* For every part of the one, the parts of the other it may correspond to. *)
Options(p, q) ==
  LET like(part) == SelectSeq(q, LAMBDA other : other[1] = part[1])
  IN  [i \in DOMAIN p |-> [j \in DOMAIN like(p[i]) |-> <<p[i][2], like(p[i])[j][2]>>]]
Swapped(rows) == [i \in DOMAIN rows |-> [j \in DOMAIN rows[i] |-> <<rows[i][j][2], rows[i][j][1]>>]]

Find(options, seen) ==
  FoldLeft(LAMBDA found, o : IF found # <<>> THEN found ELSE Compare(o[1], o[2], seen), <<>>, options)

CompareDescriptions(d, e, seen) ==
  IF d.head # e.head \/ d.format # e.format THEN <<>>
  ELSE FoldLeft(LAMBDA found, options : IF found = <<>> THEN <<>> ELSE Find(options, found[1]), <<seen>>,
                Options(d.parts, e.parts) \o Swapped(Options(e.parts, d.parts)))

Compare(x, y, seen) ==
  IF <<x, y>> \in seen THEN <<seen>>
  ELSE CompareDescriptions(DescriptionAt(x), DescriptionAt(y), seen \cup {<<x, y>>})

(* The program's own overrides of t: the first of each function counts. *)
Overriding(t) ==
  LET raws == Project[program].raws
      mine == {i \in DOMAIN raws : AlikeTypes(Instance(raws[i].type), t)}
      hash(fn) == raws[Least({i \in mine : raws[i].fn = fn})].hash
  IN  IF mine = {} THEN <<>> ELSE <<[fn \in {raws[i].fn : i \in mine} |-> hash(fn)]>>

(* The table says of every site's type what that type is, through whatever   *)
(* other types its entries were made, in whatever order and by whichever     *)
(* checker, and with the overrides of this program.                          *)
IsDescribed(t, id) ==
  \E pairs \in ToSet(Compare(Type(t), Ref(id), {})) :
    \A pair \in pairs : (pair[1].is = "type" /\ pair[2].is = "ref") => nodes[pair[2].id].over = Overriding(pair[1].type)

(* Every cycle of the table goes through a node that says so: generated      *)
(* functions guard, and never inline, at those nodes only.                   *)
RECURSIVE RefsIn(_)
RefsIn(parts) == UNION {IF p[2].is = "ref" THEN {p[2].id} ELSE RefsIn(p[2].at.parts) : p \in ToSet(parts)}

RECURSIVE Cyclic(_)
Cyclic(ids) == LET left == {id \in ids : RefsIn(nodes[id].parts) \cap ids # {}}
               IN  IF left = ids THEN ids ELSE Cyclic(left)

CyclesAreFlagged == Cyclic({id \in DOMAIN nodes : ~nodes[id].circular}) = {}

SitesAreDescribed ==
  /\ \A site \in {s \in sites : s[3] # DepthExceeded} : IsDescribed(Instance(site[2]), site[3])
  /\ CyclesAreFlagged

(* Types that nothing tells apart share one id, however each of them is      *)
(* written, wherever its walk entered a cycle and whatever was walked before *)
(* it.                                                                       *)
SameTypeSameId ==
  \A a, b \in {s \in sites : s[3] # DepthExceeded} : a[3] # b[3] => ~AlikeTypes(Instance(a[2]), Instance(b[2]))

RECURSIVE NamesIn(_)
NamesIn(at) ==
  CASE at.is = "type" -> {at.type[1]}
    [] at.is = "any of" -> {t[1] : t \in ToSet(at.members)}
    [] at.is = "fold of" -> {arm.base[1] : arm \in ToSet(at.arms)}
    [] at.is = "in" -> UNION {NamesIn(p[2]) : p \in ToSet(at.at.parts)}

RECURSIVE ReachedFrom(_, _)
ReachedFrom(names, seen) ==
  IF names = {} THEN seen
  ELSE LET more == UNION {NamesIn(In(DescriptionAt(Type(Instance(n))))) : n \in names}
       IN  ReachedFrom(more \ (names \cup seen), names \cup seen)
IsEndless(name) == ReachedFrom({name}, {}) \cap Spirals # {}

OnlySpiralsAreReported ==
  /\ \A report \in reports : report[3] \in Spirals /\ IsEndless(report[2])
  /\ \A site \in {s \in sites : IsEndless(s[2])} :
       site[3] = DepthExceeded /\ \E report \in reports : SubSeq(report, 1, 2) = SubSeq(site, 1, 2)

HiddenOverridesAreReported ==
  LET raws == IF program = NoProgram \/ ~built THEN <<>> ELSE Project[program].raws
  IN  {f[2] : f \in {g \in findings : g[1] = "duplicate"}}
      = {i \in DOMAIN raws : \E j \in 1..i - 1 :
           raws[j].fn = raws[i].fn /\ AlikeTypes(Instance(raws[j].type), Instance(raws[i].type))}

(* A type that has an end gets its id, whatever types without one were walked*)
(* before it and gave up half-way; a type without one is reported by name    *)
(* before it gets any. An override that another one hides is reported, and no*)
(* other.                                                                    *)
ReportsAreExact == OnlySpiralsAreReported /\ HiddenOverridesAreReported
=============================================================================
