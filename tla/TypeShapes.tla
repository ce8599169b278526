----------------------------- MODULE TypeShapes -----------------------------
(* What both sides of the type table read of a type before they name it or   *)
(* describe it: its kind, its optional child, the sentinels of an            *)
(* intersection, and the tuple that an intersection of tuples stands for.    *)
(* Sources: cachegen/runtype/typeid/{typeid,intersection_collapse,formats,   *)
(* tuplemerge}.go.                                                           *)
(*                                                                           *)
(* A type is a pointer <<name, level>> into Env, the shapes the checker      *)
(* answers with. A spiral is a type whose parts are fresh at every query: its*)
(* instance of level n refers to the instances of level n + 1, so its        *)
(* pointers never repeat.                                                    *)
EXTENDS Integers, FiniteSets, SequencesExt

CONSTANTS Env, Spirals, MaxExactInteger

Instance(name) == <<name, 0>>
Pointers == (DOMAIN Env) \X Nat
Shape(t) == Env[t[1]]
Part(t, name) == <<name, IF {t[1], name} \subseteq Spirals THEN t[2] + 1 ELSE 0>>
Parts(t, names) == [i \in DOMAIN names |-> Part(t, names[i])]

Is(t, what) == Shape(t).is = what
IsKeyword(t, kinds) == Is(t, "keyword") /\ Shape(t).kind \in kinds
IsLiteral(t) == Is(t, "literal") /\ Shape(t).of # "symbol"
IsSentinel(t, of) == Is(t, "sentinel") /\ Shape(t).of = of

(* Bare callables: a property of such a type is a method. *)
IsFunction(t) == Is(t, "object") /\ Shape(t).class = "" /\ Shape(t).calls # <<>> /\ Shape(t).props = <<>>

KindOf(t) ==
  CASE Is(t, "keyword") -> IF Shape(t).kind = "date" THEN "class" ELSE Shape(t).kind
    [] Is(t, "native") -> "class"
    [] Is(t, "sentinel") -> "objectLiteral"
    [] IsFunction(t) -> "function"
    [] Is(t, "object") -> IF Shape(t).class = "" THEN "objectLiteral" ELSE "class"
    [] OTHER -> Shape(t).is

-----------------------------------------------------------------------------
(* The child of an optional member, without the undefined that its mark      *)
(* already says: one pointer, or the members of a union no pointer stands    *)
(* for, which is so only where null must stay.                               *)
IsBooleanLiteral(t) == Is(t, "literal") /\ Shape(t).of = "boolean"

CollapseBooleanPair(members) ==
  IF Cardinality({i \in DOMAIN members : IsBooleanLiteral(members[i])}) # 2 THEN members
  ELSE Append(SelectSeq(members, LAMBDA t : ~IsBooleanLiteral(t)), Instance("boolean"))

Members(t) == Parts(t, Shape(t).of)
Without(members, kinds) == SelectSeq(members, LAMBDA p : ~IsKeyword(p, kinds))

StrippedUnion(t, kept) ==
  IF Len(kept) \in {0, Len(Shape(t).of)} THEN <<t>>
  ELSE IF Len(kept) = 1 THEN kept
  ELSE IF Without(kept, {"null"}) = kept THEN <<Part(t, Shape(t).bare)>>
  ELSE CollapseBooleanPair(kept)

ResolveOptionalChild(t) ==
  IF Is(t, "union") THEN StrippedUnion(t, Without(Members(t), {"undefined"})) ELSE <<t>>

-----------------------------------------------------------------------------
(* Format annotations: a family and its parameters. *)
BoundAliases == [minimum |-> "min", maximum |-> "max", exclusiveMinimum |-> "gt", exclusiveMaximum |-> "lt"]

CanonicalizeBoundAliases(params) ==
  LET kept == DOMAIN params \ DOMAIN BoundAliases
      renamed == {BoundAliases[a] : a \in DOMAIN params \cap DOMAIN BoundAliases}
  IN  [key \in kept \cup renamed |->
         IF key \in kept THEN params[key]
         ELSE params[CHOOSE a \in DOMAIN params : a \in DOMAIN BoundAliases /\ BoundAliases[a] = key]]

(* <<>> where the type is not a format brand. *)
FormatAnnotation(t) ==
  IF IsSentinel(t, "format")
  THEN <<[name |-> Shape(t).family, params |-> CanonicalizeBoundAliases(Shape(t).params)]>>
  ELSE <<>>

Gcd(a, b) == CHOOSE g \in 1..a : a % g = 0 /\ b % g = 0 /\ \A h \in g + 1..a : a % h # 0 \/ b % h # 0

Lowers == {"min", "gt", "minLength", "minItems", "minProperties", "minContains"}
Uppers == {"max", "lt", "maxLength", "maxItems", "maxProperties", "maxContains"}

(* The value that both demand of one parameter; <<>> where none can be named. *)
MergeParam(key, a, b) ==
  CASE a = b -> <<a>>
    [] key \in Lowers -> <<IF a > b THEN a ELSE b>>
    [] key \in Uppers -> <<IF a < b THEN a ELSE b>>
    [] key = "multipleOf" /\ a > 0 /\ b > 0 /\ (a \div Gcd(a, b)) * b <= MaxExactInteger
         -> <<(a \div Gcd(a, b)) * b>>
    [] OTHER -> <<>>

MergeParams(p, q) ==
  [key \in DOMAIN p \cup DOMAIN q |->
     IF key \notin DOMAIN q THEN <<p[key]>>
     ELSE IF key \notin DOMAIN p THEN <<q[key]>>
     ELSE MergeParam(key, p[key], q[key])]
Settled(name, params) ==
  IF \E key \in DOMAIN params : params[key] = <<>> THEN <<>>
  ELSE <<[name |-> name, params |-> [key \in DOMAIN params |-> params[key][1]]]>>
MergePair(merged, annotation) ==
  IF merged.name # annotation.name THEN <<>> ELSE Settled(merged.name, MergeParams(merged.params, annotation.params))

(* The one annotation of a stack; <<>> where two of them do not merge. *)
MergeFormats(annotations) ==
  FoldLeft(LAMBDA merged, a : IF merged = <<>> THEN <<>> ELSE MergePair(merged[1], a),
           <<Head(annotations)>>, Tail(annotations))

-----------------------------------------------------------------------------
(* A tuple's slots, with the labels a sentinel lifts in place of its own. *)
Slots(t) == Shape(t).slots
Relabelled(t, labels) ==
  [i \in DOMAIN Slots(t) |-> IF i \in DOMAIN labels THEN [Slots(t)[i] EXCEPT !.label = labels[i]] ELSE Slots(t)[i]]

(* The tuple and the labels of a parameter [A, B] & {labels}. *)
TupleAndLabels(known, tuples, labels) ==
  IF /\ Len(tuples) = 1 /\ Len(labels) = 1 /\ Len(known) = 2
     /\ Len(Shape(labels[1]).labels) = Len(Slots(tuples[1]))
  THEN <<tuples[1], Shape(labels[1]).labels>>
  ELSE <<>>
LabeledAmong(known) ==
  TupleAndLabels(known, SelectSeq(known, LAMBDA p : Is(p, "tuple")), SelectSeq(known, LAMBDA p : IsSentinel(p, "labels")))
SplitLabeledTuple(t) ==
  IF Is(t, "intersection") THEN LabeledAmong(Without(Members(t), {"any", "unknown"})) ELSE <<>>

(* The slots that a trailing rest parameter can spread into: those of a tuple*)
(* of a fixed length, in a sequence of one. <<>> says it stays as it is.     *)
ClosedSlots(t, slots) ==
  IF \E i \in DOMAIN slots : slots[i].rest \/ slots[i].variadic THEN <<>>
  ELSE <<[i \in DOMAIN slots |-> [label |-> slots[i].label, type |-> Part(t, slots[i].type)]]>>
CarriedSlots(carrier) ==
  IF carrier = <<>> THEN <<>> ELSE ClosedSlots(carrier[1], Relabelled(carrier[1], carrier[2]))
FixedTupleSlots(t) == CarriedSlots(IF Is(t, "tuple") THEN <<t, <<>>>> ELSE SplitLabeledTuple(t))

(* A parameter list with its trailing rest tuple, where there is one that    *)
(* spreads, taken apart: the parameters kept and the slots in place of it.   *)
(* Whether slots without labels spread is for the caller to say.             *)
SpreadInto(params, fixed, unlabelled) ==
  IF fixed = <<>> \/ ~(unlabelled \/ fixed[1] = <<>> \/ fixed[1][1].label # "")
  THEN [kept |-> params, slots |-> <<>>]
  ELSE [kept |-> Front(params), slots |-> fixed[1]]
Spread(t, params, unlabelled) ==
  SpreadInto(params, IF params # <<>> /\ Last(params).rest THEN FixedTupleSlots(Part(t, Last(params).type)) ELSE <<>>, unlabelled)

-----------------------------------------------------------------------------
(* An intersection, sorted into what it comes to. *)
IsBase(t) == IsKeyword(t, {"string", "number", "boolean", "bigint", "symbol"})
BaseKind(t) == IF Is(t, "literal") THEN Shape(t).of ELSE Shape(t).kind
IsObjectLike(t) == Is(t, "object") \/ Is(t, "array") \/ Is(t, "tuple") \/ Is(t, "native") \/ Is(t, "promise")
                   \/ Is(t, "sentinel") \/ IsKeyword(t, {"object", "regexp", "date"})
IsBuiltinClass(t) == IsKeyword(t, {"regexp", "date"}) \/ (Is(t, "native") /\ Shape(t).name \in {"Map", "Set"})

Objects(t) == SelectSeq(Members(t), IsObjectLike)
Sentinels(t, of) == SelectSeq(Objects(t), LAMBDA p : IsSentinel(p, of))
Rests(t) == SelectSeq(Objects(t), LAMBDA p : ~Is(p, "sentinel"))
Brands(t) == SelectSeq(Objects(t), LAMBDA p : ~IsSentinel(p, "format") /\ ~IsSentinel(p, "brand"))
Annotations(ts) == FlattenSeq([i \in DOMAIN ts |-> FormatAnnotation(ts[i])])
Formats(t) == Annotations(Objects(t))

IsImpossible(t) ==
  \/ Without(Members(t), {"never"}) # Members(t)
  \/ Cardinality({p \in ToSet(Members(t)) : IsLiteral(p)}) > 1
  \/ Cardinality({BaseKind(p) : p \in {q \in ToSet(Members(t)) : IsLiteral(q) \/ IsBase(q)}}) > 1

(* The literal of an intersection, or else its primitive. *)
LiteralsFirst(literals, bases) == IF literals # <<>> THEN literals ELSE bases
Primaries(t) == LiteralsFirst(SelectSeq(Members(t), IsLiteral), SelectSeq(Members(t), IsBase))

(* Builtin & {format}: exactly one of each. *)
Branded(classes, formats) == IF Len(classes) = 1 /\ Len(formats) = 1 THEN classes ELSE <<>>
BrandedBuiltins(t) == Branded(SelectSeq(Objects(t), IsBuiltinClass), Formats(t))

FirstLabels(carriers) == IF carriers # <<>> THEN <<Shape(carriers[1]).labels>> ELSE <<>>
LiftedLabels(t) == FirstLabels(Sentinels(t, "labels"))

(* The labels apply to a tuple that they cover and to nothing else. *)
LabelsCover(labels, rests) ==
  /\ labels # <<>> /\ Len(rests) = 1 /\ Is(rests[1], "tuple")
  /\ Len(labels[1]) = Len(Slots(rests[1]))

-----------------------------------------------------------------------------
(* Tuple & tuple. A slot of one member has the type as it is written, and    *)
(* the type without its undefined: stripped is <<>> where the latter is a    *)
(* union that no pointer stands for, whose members are then given.           *)
AllTupleOrArray(members) == /\ \A i \in DOMAIN members : Is(members[i], "tuple") \/ Is(members[i], "array")
                            /\ \E i \in DOMAIN members : Is(members[i], "tuple")

PlainSlot(t) == [raw |-> t, stripped |-> <<t>>, members |-> <<t>>]
SlotFrom(raw, child) == [raw |-> raw, stripped |-> IF Len(child) = 1 THEN child ELSE <<>>, members |-> child]
SlotOf(raw, opt) == SlotFrom(raw, IF opt THEN ResolveOptionalChild(raw) ELSE <<raw>>)

(* The fixed slots, the type of the rest and how many slots are required;    *)
(* <<>> for a tuple with a variadic, or with a slot after its rest.          *)
ShapeOf(t, fixed, tail) ==
  IF \/ \E i \in DOMAIN Slots(t) : Slots(t)[i].variadic
     \/ Len(tail) > 1
     \/ tail # <<>> /\ ~Last(Slots(t)).rest
     \/ \E i, j \in DOMAIN fixed : i < j /\ fixed[i].opt /\ ~fixed[j].opt
  THEN <<>>
  ELSE <<[slots |-> [i \in DOMAIN fixed |-> SlotOf(Part(t, fixed[i].type), fixed[i].opt)],
          rest |-> [i \in DOMAIN tail |-> Part(t, tail[i].type)],
          required |-> Cardinality({i \in DOMAIN fixed : ~fixed[i].opt})]>>
TupleShape(t) ==
  IF Is(t, "array") THEN <<[slots |-> <<>>, rest |-> <<Part(t, Shape(t).child)>>, required |-> 0]>>
  ELSE ShapeOf(t, SelectSeq(Slots(t), LAMBDA s : ~s.rest), SelectSeq(Slots(t), LAMBDA s : s.rest))

-----------------------------------------------------------------------------
(* Slots that different members constrain are folded arm by arm. *)
RECURSIVE Arms(_)
Arms(t) == IF Is(t, "union") THEN FlattenSeq([i \in DOMAIN Members(t) |-> Arms(Members(t)[i])]) ELSE <<t>>

ArmMembersOf(slot) ==
  FlattenSeq([i \in DOMAIN slot.members |-> Arms(slot.members[i])])

(* Where one contender says boolean, a pair of its literals says so too. *)
BooleanForPair(arms, pair) ==
  IF Cardinality(pair) # 2 THEN arms
  ELSE SelectSeq([i \in DOMAIN arms |-> IF i \in pair /\ \A j \in pair : i <= j THEN Instance("boolean") ELSE arms[i]],
                 LAMBDA p : ~IsBooleanLiteral(p))
NormalizeBoolean(contenders) ==
  IF \E i \in DOMAIN contenders : Without(contenders[i], {"boolean"}) # contenders[i]
  THEN [i \in DOMAIN contenders |->
          BooleanForPair(contenders[i], {j \in DOMAIN contenders[i] : IsBooleanLiteral(contenders[i][j])})]
  ELSE contenders

IsFoldable(t) == IsLiteral(t) \/ IsBase(t)

(* The primitive of an arm and its formats; <<>> where it is anything else. *)
BaseAndFormats(members, bases) ==
  IF \/ \E i \in DOMAIN members : ~(IsFoldable(members[i]) \/ (Is(members[i], "sentinel") /\ Shape(members[i]).of \in {"format", "brand"}))
     \/ Cardinality(ToSet(bases)) # 1
  THEN <<>>
  ELSE <<[base |-> bases[1], formats |-> Annotations(members)]>>
SlotPartsOf(members) == BaseAndFormats(members, SelectSeq(members, IsFoldable))
SlotParts(t) == SlotPartsOf(IF Is(t, "intersection") THEN Without(Members(t), {"any", "unknown"}) ELSE <<t>>)

Fold(base, annotation) == [base |-> base, annotation |-> annotation]

(* The arm that two arms come to, with whether it narrows; <<>> for never. *)
FoldFormats(base, formats) ==
  IF formats = <<>> THEN <<[arm |-> Fold(base, <<>>), folds |-> FALSE]>>
  ELSE LET merged == MergeFormats(formats)
       IN  IF merged = <<>> THEN <<>> ELSE <<[arm |-> Fold(base, merged), folds |-> TRUE]>>
FoldParts(annotation, l, r, same) ==
  IF l = <<>> \/ r = <<>> \/ ~same[l[1].base, r[1].base] THEN <<>>
  ELSE FoldFormats(l[1].base, annotation \o l[1].formats \o r[1].formats)
FoldArmPair(left, right, same) ==
  IF left.annotation = <<>> /\ same[left.base, right] THEN <<[arm |-> left, folds |-> FALSE]>>
  ELSE FoldParts(left.annotation, SlotParts(left.base), SlotParts(right), same)

HasFold(arms, arm, same) ==
  \E i \in DOMAIN arms : same[arms[i].base, arm.base] /\ arms[i].annotation = arm.annotation

AddFold(arms, arm, same) == IF HasFold(arms, arm, same) THEN arms ELSE Append(arms, arm)

(* All the pairs of the arms so far with the arms of one more contender. *)
FoldPairs(arms, contender, same) ==
  FlattenSeq([i \in DOMAIN arms |-> FlattenSeq([j \in DOMAIN contender |-> FoldArmPair(arms[i], contender[j], same)])])
FoldsWith(folds, pairs, same) ==
  [arms |-> FoldLeft(LAMBDA arms, p : AddFold(arms, p.arm, same), <<>>, pairs),
   folds |-> folds \/ \E i \in DOMAIN pairs : pairs[i].folds]
FoldContender(folded, contender, same) ==
  FoldsWith(folded.folds, FoldPairs(folded.arms, contender, same), same)

(* The arms of a slot; <<>> where no arm is left, or where none narrowed. *)
ArmsIfFolded(folded) == IF folded.folds THEN folded.arms ELSE <<>>
FoldAll(contenders, same) ==
  FoldLeft(LAMBDA folded, c : FoldContender(folded, c, same),
           [arms |-> [i \in DOMAIN contenders[1] |-> Fold(contenders[1][i], <<>>)], folds |-> FALSE],
           Tail(contenders))
FoldSlotTypes(contenders, same) == ArmsIfFolded(FoldAll(NormalizeBoolean(contenders), same))

-----------------------------------------------------------------------------
Pick(child, opt, rest) == [child |-> child, arms |-> <<>>, opt |-> opt, rest |-> rest]
Folded(arms, opt, rest) == [child |-> <<>>, arms |-> arms, opt |-> opt, rest |-> rest]

IsUnknownOrAny(slot) == slot.stripped # <<>> /\ IsKeyword(slot.stripped[1], {"any", "unknown"})
IsNever(slot) == slot.stripped # <<>> /\ IsKeyword(slot.stripped[1], {"never"})
Contend(a, b, same) == \/ a.stripped = <<>> \/ b.stripped = <<>> \/ ~same[a.stripped[1], b.stripped[1]]

(* One slot of the merge, from what every member says of it; <<>> where it   *)
(* can hold nothing. An unknown gives way to any other, a never empties an   *)
(* optional slot, and contenders fold.                                       *)
FoldedSlot(arms, opt, rest) == IF arms = <<>> THEN <<>> ELSE <<Folded(arms, opt, rest)>>
WonBy(winner, opt, rest) ==
  IF opt THEN <<Pick(<<winner.raw>>, TRUE, rest)>>
  ELSE IF winner.stripped = <<>> THEN <<>>
  ELSE <<Pick(winner.stripped, FALSE, rest)>>
Emptied(nevers, opt) == IF opt THEN <<Pick(Last(nevers).stripped, TRUE, FALSE)>> ELSE <<>>

SettleSlot(first, contenders, nevers, opt, rest, same) ==
  IF ~rest /\ nevers # <<>> THEN Emptied(nevers, opt)
  ELSE IF \E i \in 2..Len(contenders) : Contend(contenders[1], contenders[i], same)
       THEN FoldedSlot(FoldSlotTypes([i \in DOMAIN contenders |-> ArmMembersOf(contenders[i])], same), opt, rest)
  ELSE WonBy(Head(Append(contenders, first)), opt, rest)
MergeSlot(given, opt, rest, same) ==
  SettleSlot(given[1], SelectSeq(given, LAMBDA s : ~IsUnknownOrAny(s) /\ (rest \/ ~IsNever(s))),
             SelectSeq(given, IsNever), opt, rest, same)

(* The slots of the intersection of some tuples and arrays; <<>> for never.  *)
(* The merge has as many slots as its most closed member allows, and they are*)
(* required as far as any member requires them.                              *)
AllOrNone(picks) == IF \E i \in DOMAIN picks : picks[i] = <<>> THEN <<>> ELSE <<[i \in DOMAIN picks |-> picks[i][1]]>>
Said(shapes, i) ==
  [m \in DOMAIN shapes |-> IF i \in DOMAIN shapes[m].slots THEN shapes[m].slots[i] ELSE PlainSlot(shapes[m].rest[1])]

(* The slot after the fixed ones is the rest of an open merge. *)
MergeUpTo(shapes, fixed, required, open, same) ==
  IF required > fixed THEN <<>>
  ELSE AllOrNone([i \in 1..(IF open THEN fixed + 1 ELSE fixed) |->
                    MergeSlot(Said(shapes, i), required < i /\ i <= fixed, i > fixed, same)])
MostOf(S) == CHOOSE n \in S : \A o \in S : o <= n
MergeShapes(shapes, closed, same) ==
  MergeUpTo(shapes,
            IF closed = {} THEN MostOf({Len(s.slots) : s \in ToSet(shapes)}) ELSE CHOOSE n \in closed : \A c \in closed : n <= c,
            MostOf({s.required : s \in ToSet(shapes)}), closed = {}, same)
MergeRead(read, same) ==
  IF <<>> \in ToSet(read) THEN <<>>
  ELSE MergeShapes(FlattenSeq(read), {Len(s[1].slots) : s \in {r \in ToSet(read) : r[1].rest = <<>>}}, same)
MergeTuples(members, same) == MergeRead([i \in DOMAIN members |-> TupleShape(members[i])], same)
=============================================================================
