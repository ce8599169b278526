------------------------------ MODULE TypeIds -------------------------------
(* The structural id of a type: cachegen/runtype/typeid/{typeid,canonicalize,*)
(* overrides,intersection_collapse}.go.                                      *)
(*                                                                           *)
(* An id is a text, kept here as a tree: a head, a bag of labelled texts (a  *)
(* label holds a position wherever order counts, so that a bag stands both   *)
(* for a list and for a sorted run) and the override suffixes it ends in.    *)
(* Two texts are the same string exactly when they are the same tree; what   *)
(* the code spells alike has the same head.                                  *)
EXTENDS TypeShapes

CONSTANTS MaxWalkDepth, MaxWalkOps, SpiralFrames, MaxFoldIterations

Bag(parts) == [p \in ToSet(parts) |-> Cardinality({i \in DOMAIN parts : parts[i] = p})]
Listed(bag) == SetToSeq(UNION {{<<p, n>> : n \in 1..bag[p]} : p \in DOMAIN bag})
Tree(head, parts) == [head |-> head, parts |-> Bag(parts), over |-> <<>>]

DepthText == Tree(<<"depth">>, <<>>)
SlotText(i) == Tree(<<"inner slot", i>>, <<>>)
BackText(kind, frames) == Tree(<<"back", kind, frames>>, <<>>)

RECURSIVE Mentions(_, _)
Mentions(text, inner) == text = inner \/ \E p \in DOMAIN text.parts : Mentions(p[2], inner)

-----------------------------------------------------------------------------
(* What a type spells: a head, and parts that are either types of their own, *)
(* walked with the guard against cycles, or spelled in place.                *)
Type(t) == [is |-> "type", type |-> t]
Made(spelling) == [is |-> "made", spelling |-> spelling]
Spelling(head, parts) == [head |-> head, parts |-> parts]
KeywordSpelling(kind) == Spelling(<<"keyword", kind>>, <<>>)

UnionOf(members) == Spelling(<<"union">>, [i \in DOMAIN members |-> <<<<"member">>, members[i]>>])
TypesOf(ts) == [i \in DOMAIN ts |-> Type(ts[i])]

ChildOf(members) == IF Len(members) = 1 THEN Type(members[1]) ELSE Made(UnionOf(TypesOf(members)))
ChildID(t, optional) == ChildOf(IF optional THEN ResolveOptionalChild(t) ELSE <<t>>)

SlotLabel(i, opt, rest, variadic, label) == <<"slot", i, opt, rest, variadic, label>>

SpelledSlots(t, slots) ==
  Spelling(<<"tuple">>, [i \in DOMAIN slots |->
    <<SlotLabel(i, slots[i].opt, slots[i].rest, slots[i].variadic, slots[i].label),
      ChildID(Part(t, slots[i].type), slots[i].opt)>>])
SpelledTuple(t, labels) == SpelledSlots(t, Relabelled(t, labels))

(* A parameter symbol never carries the mark that this side asks for, so an  *)
(* optional parameter is spelled as a required one that may be undefined. A  *)
(* trailing rest tuple is spread into its slots, with or without labels.     *)
SpelledList(t, kept, slots) ==
  [i \in DOMAIN kept |-> <<<<"param", i, kept[i].name, kept[i].rest>>, Type(Part(t, kept[i].type))>>]
  \o [i \in DOMAIN slots |-> <<<<"param", Len(kept) + i, slots[i].label, FALSE>>, Type(slots[i].type)>>]
SpelledSpread(t, list) == SpelledList(t, list.kept, list.slots)
SpelledParams(t, params) == SpelledSpread(t, Spread(t, params, TRUE))

SpelledSignature(t, sig) ==
  Spelling(<<"signature">>, SpelledParams(t, sig.params) \o <<<<<<"returns">>, Type(Part(t, sig.returns))>>>>)

(* The properties that are no sentinels: what the merged type of an          *)
(* intersection has of its sentinels is not one of its members.              *)
SentinelNames == {"__rtFormatName", "__rtFormatParams", "__rtFormatBrand", "__rtContains", "__rtPatternProps",
                  "__rtPropNames", "__rtLabels"}
Properties(t) == SelectSeq(Shape(t).props, LAMBDA p : p.name \notin SentinelNames)

(* A guarded member is optional; a property whose type is a bare callable is *)
(* a method, whose first signature is spelled in place.                      *)
SpelledChild(p, child, optional) ==
  IF IsFunction(child)
  THEN <<<<"method", p.name, optional, p.ro, p.guarded>>, Made(SpelledSignature(child, Shape(child).calls[1]))>>
  ELSE <<<<"property", p.name, optional, p.ro, p.guarded>>, ChildID(child, optional)>>
SpelledMember(t, p) == SpelledChild(p, Part(t, p.type), p.opt \/ p.guarded)

SpelledMembers(t, props, index) ==
  [i \in DOMAIN props |-> SpelledMember(t, props[i])]
  \o [i \in DOMAIN index |->
        <<<<"index">>, Made(Spelling(<<"index">>, <<<<<<"key">>, Type(Part(t, index[i].key))>>,
                                                  <<<<"value">>, Type(Part(t, index[i].value))>>>>))>>]

SpelledCalls(t, calls) == [i \in DOMAIN calls |-> <<<<"call">>, Made(SpelledSignature(t, calls[i]))>>]

(* A class is named, and has no calls; an object is what its members and its *)
(* calls are.                                                                *)
SpelledWhole(t, head, calls) ==
  Spelling(head, SpelledMembers(t, Properties(t), Shape(t).index) \o SpelledCalls(t, calls))
SpelledObject(t) ==
  IF IsFunction(t) THEN SpelledSignature(t, Shape(t).calls[1])
  ELSE IF Shape(t).class = "" THEN SpelledWhole(t, <<"object">>, Shape(t).calls)
  ELSE SpelledWhole(t, <<"class", Shape(t).class>>, <<>>)

SpelledNative(t, args) ==
  Spelling(<<"native", Shape(t).name>>, [i \in DOMAIN args |-> <<<<"arg", i>>, Type(Part(t, args[i]))>>])

-----------------------------------------------------------------------------
(* Intersections. <<"as">> is the text of its one part as it is; <<"with">>  *)
(* appends to it the folds of sentinels and the key of the formats.          *)
As(at) == Spelling(<<"as">>, <<<<<<"base">>, at>>>>)
With(at, folds, key) ==
  IF folds = <<>> /\ key = {} THEN As(at) ELSE Spelling(<<"with", key>>, <<<<<<"base">>, at>>>> \o folds)

(* The merged annotation, or all of those that do not merge. *)
\* Mutant: an id says nothing of formats.
KeyOfNone(annotations, merged) == {}
KeyOf(annotations, merged) == IF merged = <<>> THEN ToSet(annotations) ELSE ToSet(merged)
FormatKey(annotations) ==
  IF annotations = <<>> THEN {} ELSE KeyOf(annotations, MergeFormats(annotations))

ContainsFold(t) ==
  <<<<"contains", Shape(t).min, Shape(t).max>>, Type(Part(t, Shape(t).child))>>
PatternFolds(t, specs) ==
  [i \in DOMAIN specs |-> <<<<"pattern", specs[i].source>>, Type(Part(t, specs[i].value))>>]
NamesFold(t) == <<<<"names">>, Type(Part(t, Shape(t).child))>>
FoldsOf(contains, patterns, names) ==
  [i \in DOMAIN contains |-> ContainsFold(contains[i])]
  \o FlattenSeq([i \in DOMAIN patterns |-> PatternFolds(patterns[i], Shape(patterns[i]).specs)])
  \o [i \in DOMAIN names |-> NamesFold(names[i])]
SentinelFolds(t) == FoldsOf(Sentinels(t, "contains"), Sentinels(t, "patterns"), Sentinels(t, "names"))

SpelledArm(arm) == With(Type(arm.base), <<>>, ToSet(arm.annotation))
SpelledFold(arms) ==
  IF Len(arms) = 1 THEN SpelledArm(arms[1]) ELSE UnionOf([i \in DOMAIN arms |-> Made(SpelledArm(arms[i]))])

(* As the tuple that could have been written for it, which has no labels. *)
SpelledPick(pick) ==
  IF pick.arms # <<>> THEN Made(SpelledFold(pick.arms)) ELSE ChildID(pick.child[1], pick.opt)
SpelledMerge(merged) ==
  IF merged = <<>> THEN KeywordSpelling("never")
  ELSE Spelling(<<"tuple">>, [i \in DOMAIN merged[1] |->
         <<SlotLabel(i, merged[1][i].opt, merged[1][i].rest, FALSE, ""), SpelledPick(merged[1][i])>>])

(* What decorations a lone object, or none, is spelled with. *)
SpelledLone(rests, labels) ==
  IF rests = <<>> THEN Made(KeywordSpelling("unknown"))
  ELSE IF LabelsCover(labels, rests) THEN Made(SpelledTuple(rests[1], labels[1]))
  ELSE Type(rests[1])

(* A merge that comes to nothing is never, whatever decorates it. *)
DecoratedMerge(spelling, folds, key) ==
  IF spelling.head = <<"tuple">> THEN With(Made(spelling), folds, key) ELSE spelling

SpelledRests(t, rests, labels, folds, key, same) ==
  IF rests = <<>> \/ (Len(rests) = 1 /\ (key # {} \/ folds # <<>> \/ labels # <<>>))
  THEN With(SpelledLone(rests, labels), folds, key)
  ELSE IF Len(rests) >= 2 /\ AllTupleOrArray(rests)
  THEN DecoratedMerge(SpelledMerge(MergeTuples(rests, same)), folds, key)
  ELSE With(Made(SpelledWhole(Part(t, Shape(t).merged), <<"object">>, Shape(Part(t, Shape(t).merged)).calls)), folds, key)

SpelledMeet(t, base, marks, builtins, same) ==
  IF base # <<>>
  THEN With(Type(base[1]), [i \in DOMAIN marks |-> <<<<"brand">>, Type(marks[i])>>], FormatKey(Formats(t)))
  ELSE IF builtins # <<>> THEN With(Type(builtins[1]), <<>>, ToSet(Formats(t)))
  ELSE SpelledRests(t, Rests(t), LiftedLabels(t), SentinelFolds(t), FormatKey(Formats(t)), same)

SpelledIntersection(t, same) ==
  IF IsImpossible(t) THEN KeywordSpelling("never")
  ELSE SpelledMeet(t, Primaries(t), Brands(t), BrandedBuiltins(t), same)

(* A literal is spelled by its value alone, of whatever type it is. *)
Spelled(t, same) ==
  CASE Is(t, "keyword") -> KeywordSpelling(Shape(t).kind)
    [] Is(t, "literal") -> Spelling(<<"literal", Shape(t).value>>, <<>>)
    [] Is(t, "enum") -> Spelling(<<"enum", Shape(t).name, Shape(t).members>>, <<>>)
    [] Is(t, "template") -> Spelling(<<"template", Shape(t).texts>>,
                              [i \in DOMAIN Shape(t).types |-> <<<<"span", i>>, Type(Part(t, Shape(t).types[i]))>>])
    [] Is(t, "union") -> UnionOf(TypesOf(Members(t)))
    [] Is(t, "intersection") -> SpelledIntersection(t, same)
    [] Is(t, "tuple") -> SpelledTuple(t, <<>>)
    [] Is(t, "array") \/ Is(t, "promise") -> Spelling(<<Shape(t).is>>, <<<<<<"of">>, Type(Part(t, Shape(t).child))>>>>)
    [] Is(t, "native") -> SpelledNative(t, Shape(t).args)
    [] Is(t, "sentinel") -> Spelling(<<"object">>, <<>>)
    [] OTHER -> SpelledObject(t)

-----------------------------------------------------------------------------
(* The walk. Its record is the Computer: the overrides folded so far, the    *)
(* texts cached by pointer, the aliases of closed clusters, the stack, the   *)
(* pointers inside an open cycle, the slots of the cluster whose templates   *)
(* are being extracted, and the latch of a walk that is too deep.            *)
NewComputer(over) ==
  [over |-> over, cache |-> [t \in {} |-> DepthText], alias |-> [t \in {} |-> DepthText], stack |-> <<>>,
   pending |-> <<>>, slots |-> [t \in {} |-> 0], latched |-> FALSE, culprit |-> "", ops |-> 0]

\* Mutant: the latch outlives the type that set it.
ResetOpsOnly(w) == [w EXCEPT !.ops = 0]
ResetDepthExceeded(w) == [w EXCEPT !.latched = FALSE, !.culprit = "", !.ops = 0]

Set(f, key, value) == [k \in DOMAIN f \cup {key} |-> IF k = key THEN value ELSE f[k]]
Result(w, text) == [walk |-> w, text |-> text]

StackIndex(w, t) == SelectLastInSeq(w.stack, LAMBDA frame : frame.type = t)

Pushed(w, t) ==
  [w EXCEPT !.stack = Append(@, [type |-> t, low |-> Len(@) + 1, target |-> FALSE, mark |-> Len(w.pending)])]

(* A frame is closed when no back reference under it points above it; else   *)
(* the frame below inherits how far up they point.                           *)
Closes(w) == Last(w.stack).low >= Len(w.stack)
Inherited(rest, low) ==
  IF rest = <<>> THEN rest ELSE [rest EXCEPT ![Len(rest)].low = IF low < @ THEN low ELSE @]
Popped(w) ==
  [w EXCEPT !.stack = IF Closes(w) THEN Front(@) ELSE Inherited(Front(@), Last(@).low)]

(* The name most frames of a capped stack share, if they are enough: a       *)
(* generic that instantiates itself.                                         *)
FramesOf(stack, name) == Cardinality({i \in DOMAIN stack : stack[i].type[1] = name})
MostFrequent(stack) ==
  CHOOSE n \in {frame.type[1] : frame \in ToSet(stack)} :
    \A frame \in ToSet(stack) : FramesOf(stack, frame.type[1]) <= FramesOf(stack, n)
SpiralNamed(stack, name) == IF FramesOf(stack, name) >= SpiralFrames THEN name ELSE ""
ClassifySpiral(w) == IF w.stack = <<>> THEN "" ELSE SpiralNamed(w.stack, MostFrequent(w.stack))

Latch(w) == [w EXCEPT !.latched = TRUE, !.culprit = ClassifySpiral(w)]

(* A back reference counts the frames from its target, and marks it. *)
Targeted(stack, index, top) ==
  [stack EXCEPT ![index].target = TRUE, ![top].low = IF index < @ THEN index ELSE @]
CycleRef(w, t, index) ==
  Result([w EXCEPT !.stack = Targeted(@, index, Len(@))], BackText(KindOf(t), Len(w.stack) - index + 1))

OverrideSuffix(w, base) == IF base \in DOMAIN w.over THEN <<w.over[base]>> ELSE <<>>
WithOverride(w, base) == [base EXCEPT !.over = @ \o OverrideSuffix(w, base)]
CommitCache(w, t, text) == IF w.latched THEN w ELSE [w EXCEPT !.cache = Set(@, t, text)]

-----------------------------------------------------------------------------
(* The cluster of a cycle. Its members' templates have slots for one another;*)
(* members with equal templates, up to the blocks of their slots, are one    *)
(* block of the quotient; and a block's id unrolls the quotient from it.     *)
RECURSIVE Resolved(_, _)
ResolvedParts(items, slots) == Bag([i \in DOMAIN items |-> <<items[i][1][1], Resolved(items[i][1][2], slots)>>])
Resolved(text, slots) ==
  IF text.head[1] = "inner slot" THEN slots[text.head[2]]
  ELSE [text EXCEPT !.parts = ResolvedParts(Listed(@), slots)]

Least(S) == CHOOSE i \in S : \A j \in S : i <= j

(* A block is named by the least of its members. *)
Partition(labels) == [i \in DOMAIN labels |-> Least({j \in DOMAIN labels : labels[j] = labels[i]})]
BlocksOf(templates, blocks) ==
  Partition([i \in DOMAIN templates |-> Resolved(templates[i], [j \in DOMAIN templates |-> SlotText(blocks[j])])])

RECURSIVE Refined(_, _)
RefinedFrom(templates, blocks, next) == IF next = blocks THEN blocks ELSE Refined(templates, next)
Refined(templates, blocks) == RefinedFrom(templates, blocks, BlocksOf(templates, blocks))

(* The unrolling of a block under the blocks above it, with the families     *)
(* that override each block.                                                 *)
RECURSIVE Emitted(_, _, _, _)
Inner(cluster, block, stack, at, families) ==
  IF at > 0 THEN BackText(cluster.kinds[block], Len(stack) - at + 1) ELSE Emitted(cluster, block, stack, families)
Unrolled(cluster, stack, families) ==
  Resolved(cluster.templates[Last(stack)],
           [s \in DOMAIN cluster.templates |->
              Inner(cluster, cluster.blocks[s], stack, SelectLastInSeq(stack, LAMBDA b : b = cluster.blocks[s]), families)])
Emitted(cluster, block, above, families) ==
  IF Len(above) >= MaxWalkDepth THEN DepthText
  ELSE [Unrolled(cluster, Append(above, block), families) EXCEPT !.over = @ \o families[block]]

\* Mutant: a parent spells the members of a cycle anew.
AddNoAlias(alias, spelling, entry) == alias
AddAlias(alias, spelling, entry) == IF spelling \in DOMAIN alias THEN alias ELSE Set(alias, spelling, entry)

Distinct(seq) == FoldLeft(LAMBDA kept, x : IF x \in ToSet(kept) THEN kept ELSE Append(kept, x), <<>>, seq)

(* What a closed frame comes to: its id, and its id without the overrides of *)
(* its own, by which the overrides are kept.                                 *)
Closed(w, final, pure) == [walk |-> w, final |-> final, pure |-> pure]

(* The ids of the blocks of a cluster, each member's cached, and what a      *)
(* parent outside the cycle will spell for a block kept as an alias of it.   *)
EmittedBlocks(cluster, families) ==
  [b \in ToSet(cluster.blocks) |-> Emitted(cluster, b, <<>>, families)]
SpelledBlock(cluster, final, b) ==
  Resolved(cluster.templates[b], [s \in DOMAIN cluster.templates |-> final[cluster.blocks[s]]])
CachedMembers(cache, members, cluster, final) ==
  FoldLeft(LAMBDA done, i : Set(done, members[i], final[cluster.blocks[i]]), cache, [i \in DOMAIN members |-> i])
AliasedBlocks(alias, cluster, final, pure) ==
  FoldLeft(LAMBDA done, b : AddAlias(done, SpelledBlock(cluster, final, b), [final |-> final[b], pure |-> pure[b]]),
           alias, SetToSeq(DOMAIN final))

CommitBlocks(w, members, cluster, raw, pure, final) ==
  IF \E b \in DOMAIN final : Mentions(final[b], DepthText) THEN Closed([w EXCEPT !.latched = TRUE], raw, raw)
  ELSE Closed([w EXCEPT !.cache = CachedMembers(@, members, cluster, final),
                        !.alias = AliasedBlocks(@, cluster, final, pure)],
              final[cluster.blocks[1]], pure[cluster.blocks[1]])
CommitPure(w, members, cluster, raw, pure) ==
  CommitBlocks(w, members, cluster, raw, pure,
               EmittedBlocks(cluster, [b \in DOMAIN pure |-> OverrideSuffix(w, pure[b])]))
CommitCluster(w, members, cluster, raw) ==
  CommitPure(w, members, cluster, raw, EmittedBlocks(cluster, [b \in ToSet(cluster.blocks) |-> <<>>]))

RECURSIVE Compute(_, _), Composed(_, _)

ComposedPart(w, at) == IF at.is = "type" THEN Compute(w, at.type) ELSE Composed(w, at.spelling)
WithPart(parts, label, at) == [walk |-> at.walk, parts |-> Append(parts, <<label, at.text>>)]
Composition(head, done) == Result(done.walk, IF head = <<"as">> THEN done.parts[1][2] ELSE Tree(head, done.parts))
Composed(w, spelling) ==
  Composition(spelling.head,
    FoldLeft(LAMBDA done, part : WithPart(done.parts, part[1], ComposedPart(done.walk, part[2])),
             [walk |-> w, parts |-> <<>>], spelling.parts))

SameText(w, a, b) == Cardinality({Compute(w, t).text : t \in {a, b}}) = 1
SameTexts(w) == [a, b \in Pointers |-> SameText(w, a, b)]
Dispatch(w, t) == Composed(w, Spelled(t, SameTexts(w)))

(* The templates of a cluster's members, each walked with the others as slots*)
(* in place of their ids.                                                    *)
WithTemplate(templates, d) == [walk |-> Popped(d.walk), templates |-> Append(templates, d.text)]
Templates(w, members) ==
  FoldLeft(LAMBDA done, m : IF done.walk.latched THEN done
                            ELSE WithTemplate(done.templates, Dispatch(Pushed(done.walk, m), m)),
           [walk |-> w, templates |-> <<>>], members)
ResolveRun(w, members, templates, raw) ==
  IF w.latched THEN Closed(w, raw, raw)
  ELSE CommitCluster(w, members,
         [templates |-> templates, kinds |-> [i \in DOMAIN members |-> KindOf(members[i])],
          blocks |-> Refined(templates, [i \in DOMAIN members |-> 1])], raw)
ResolveTemplates(slots, members, done, raw) ==
  ResolveRun([done.walk EXCEPT !.slots = slots], members, done.templates, raw)
CanonicalizeMembers(w, members, mark, raw) ==
  ResolveTemplates(w.slots, members,
    Templates([w EXCEPT !.pending = SubSeq(@, 1, mark),
                        !.slots = [m \in ToSet(members) |-> SelectInSeq(members, LAMBDA x : x = m)]], members), raw)
CanonicalizeCluster(w, root, mark, raw) ==
  CanonicalizeMembers(w, Distinct(<<root>> \o SubSeq(w.pending, mark + 1, Len(w.pending))), mark, raw)

(* The frame of t is popped, w is the walk without it, and text t's raw text.*)
(* Inside an open cycle the text is good for nothing but its place.          *)
Finished(w, t, closes, frame, text) ==
  IF ~closes THEN Closed([w EXCEPT !.pending = Append(@, t)], text, text)
  ELSE IF frame.target /\ ~w.latched THEN CanonicalizeCluster(w, t, frame.mark, text)
  ELSE IF text \in DOMAIN w.alias THEN Closed(w, w.alias[text].final, w.alias[text].pure)
  ELSE Closed(w, WithOverride(w, text), text)

FinishedWalk(d, t) == Finished(Popped(d.walk), t, Closes(d.walk), Last(d.walk.stack), d.text)
Finalized(end, t, closes) == Result(IF closes THEN CommitCache(end.walk, t, end.final) ELSE end.walk, end.final)
FinalizedWalk(d, t) == Finalized(FinishedWalk(d, t), t, Closes(d.walk))
Expanded(w, t) == FinalizedWalk(Dispatch(Pushed(w, t), t), t)

Visited(w, t, index) ==
  IF index > 0 THEN CycleRef(w, t, index)
  ELSE IF t \in DOMAIN w.cache THEN Result(w, w.cache[t])
  ELSE IF Len(w.stack) >= MaxWalkDepth \/ w.ops + 1 >= MaxWalkOps
       THEN Result(Latch([w EXCEPT !.ops = @ + 1]), DepthText)
  ELSE Expanded([w EXCEPT !.ops = @ + 1], t)
Compute(w, t) ==
  IF w.latched THEN Result(w, DepthText)
  ELSE IF t \in DOMAIN w.slots THEN Result(w, SlotText(w.slots[t]))
  ELSE Visited(w, t, StackIndex(w, t))

(* The key an override of t is kept by: never cached, and asked of a computer*)
(* that has nothing on its stack.                                            *)
Key(end) == Result(end.walk, end.pure)
BaseStructuralKey(w, t) == Key(FinishedWalk(Dispatch(Pushed(w, t), t), t))

SyntheticUnionStructural(w, members) == Composed(w, UnionOf(TypesOf(members)))

-----------------------------------------------------------------------------
(* The override map of a program: base key -> function family -> hash. An    *)
(* override inside another shifts the outer one's key, so the keys are       *)
(* computed again under the map they gave until they give the same map.      *)
NoOverrides == [text \in {} |-> [fn \in {} |-> ""]]

WithKey(keys, key) == [walk |-> key.walk, keys |-> Append(keys, key.text)]
BaseKeys(raws, over) ==
  FoldLeft(LAMBDA done, raw : WithKey(done.keys, BaseStructuralKey(done.walk, Instance(raw.type))),
           [walk |-> NewComputer(over), keys |-> <<>>], raws).keys

(* The first override, in the order of the source, of a type and a family. *)
OverrideMap(raws, keys) ==
  [key \in ToSet(keys) |->
     LET mine == {i \in DOMAIN raws : keys[i] = key}
     IN  [fn \in {raws[i].fn : i \in mine} |-> raws[Least({i \in mine : raws[i].fn = fn})].hash]]

RECURSIVE FoldedOverrides(_, _, _)
FoldedRound(raws, over, round, keys, next) ==
  IF next = over \/ round >= MaxFoldIterations THEN [map |-> next, keys |-> keys]
  ELSE FoldedOverrides(raws, next, round + 1)
FoldedKeys(raws, over, round, keys) == FoldedRound(raws, over, round, keys, OverrideMap(raws, keys))
FoldedOverrides(raws, over, round) == FoldedKeys(raws, over, round, BaseKeys(raws, over))

IsFirst(raws, keys, i) == \A j \in 1..i - 1 : <<keys[j], raws[j].fn>> # <<keys[i], raws[i].fn>>

(* Where a family of a type is overridden twice, and where validate is, on   *)
(* which other families rely.                                                *)
OverrideDiagnostics(raws, keys) ==
  {<<"duplicate", i>> : i \in {k \in DOMAIN raws : ~IsFirst(raws, keys, k)}}
  \cup {<<"validate", i>> : i \in {k \in DOMAIN raws : IsFirst(raws, keys, k) /\ raws[k].fn = "val"}}
=============================================================================
