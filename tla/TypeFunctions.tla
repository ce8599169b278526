---------------------------- MODULE TypeFunctions ----------------------------
(***************************************************************************)
(* A value and the functions generated for its type.  It is encoded by one *)
(* strategy, decoded by one that reads what that strategy writes, cloned   *)
(* or stripped of undeclared keys, and sent on: each hop may take another  *)
(* codec.  The families were emitted separately, each with its own short   *)
(* cuts; the properties are about what they must agree on.                 *)
(***************************************************************************)
EXTENDS BinarySize

CONSTANTS
    Cases,          \* <<type, value>>: a type and a value of it, that is sent
    Odd,            \* values of no type, that are only validated
    MaxHops

Types == {c[1] : c \in Cases}
Values == {c[2] : c \in Cases} \union Odd

VARIABLES type, sent, held, wire, hops
vars == <<type, sent, held, wire, hops>>

NoWire == [by |-> "none", text |-> Undefined]

\* Any value is validated against any type; only a value of the type has hops
\* to make.
Init ==
    /\ \/ \E c \in Cases : type = c[1] /\ sent = c[2] /\ hops = 0
       \/ type \in Types /\ sent \in Values /\ hops = MaxHops + 1
    /\ held = sent
    /\ wire = NoWire

InHand == wire = NoWire /\ hops < MaxHops

EncodeJson(strategy) ==
    /\ InHand
    /\ wire' = [by |-> strategy, text |-> JsonEncode(strategy, type, held)]
    /\ hops' = hops + 1
    /\ UNCHANGED <<type, sent, held>>

EncodeBinary ==
    /\ InHand
    /\ wire' = [by |-> "binary", text |-> BinaryEncode(type, held)]
    /\ hops' = hops + 1
    /\ UNCHANGED <<type, sent, held>>

\* The compact wire is read by the compact decoder and by no other.
Reads(decoder, strategy) ==
    IF strategy = "compact" THEN decoder = "compact" ELSE decoder \in DecoderStrategies \ {"compact"}

DecodeJson(decoder) ==
    /\ wire.by \in EncoderStrategies
    /\ Reads(decoder, wire.by)
    /\ held' = JsonDecode(decoder, type, wire.text)
    /\ wire' = NoWire
    /\ UNCHANGED <<type, sent, hops>>

DecodeBinary ==
    /\ wire.by = "binary"
    /\ held' = BinaryDecode(type, wire.text)
    /\ wire' = NoWire
    /\ UNCHANGED <<type, sent, hops>>

CloneHeld ==
    /\ InHand
    /\ Cloneable(type) = TRUE
    /\ held' = IF CloneNoop(type) THEN held ELSE Clone(type, held)
    /\ hops' = hops + 1
    /\ UNCHANGED <<type, sent, wire>>

StripHeld ==
    /\ InHand
    /\ held' = IF UnknownLive(type, FALSE) THEN ToUndefined(type, held, FALSE) ELSE held
    /\ hops' = hops + 1
    /\ UNCHANGED <<type, sent, wire>>

Next ==
    \/ \E strategy \in EncoderStrategies : EncodeJson(strategy)
    \/ EncodeBinary
    \/ \E decoder \in DecoderStrategies : DecodeJson(decoder)
    \/ DecodeBinary
    \/ CloneHeld
    \/ StripHeld

Spec == Init /\ [][Next]_vars

-----------------------------------------------------------------------------
\* b carries the declared data of a.
RECURSIVE Same(_, _, _)
SameSlot(s, a, b) == (s.optional /\ a = Undefined /\ b = Undefined) \/ Same(s.type, a, b)
Same(t0, a, b) ==
    LET t == Resolve(t0)
        Alike(part) == /\ Len(a.items) = Len(b.items)
                       /\ \A i \in DOMAIN a.items : Same(part, a.items[i], b.items[i])
        longest == IF Len(a.items) > Len(b.items) THEN a.items ELSE b.items
    IN  CASE t.kind = "object" ->
               /\ b.js = "object"
               /\ \A i \in DOMAIN DataFields(t) :
                    SameSlot(DataFields(t)[i], Prop(a, DataFields(t)[i].name), Prop(b, DataFields(t)[i].name))
               /\ IndexKeys(t, a) = IndexKeys(t, b)
               /\ \A k \in IndexKeys(t, a) : Same(t.index[1], a.props[k], b.props[k])
          [] t.kind \in {"array", "set"} ->
               b.js = t.kind /\ Alike(IF t.kind = "set" THEN t.inner[1] ELSE t.child)
          [] t.kind = "tuple" ->
               b.js = "array" /\ \A i \in DOMAIN longest : SameSlot(SlotType(t, i), ItemAt(a, i), ItemAt(b, i))
          [] t.kind = "map" ->
               /\ b.js = "map" /\ Len(a.items) = Len(b.items)
               /\ \A i \in DOMAIN a.items, side \in {1, 2} :
                    Same(t.inner[side], a.items[i].items[side], b.items[i].items[side])
          [] t.kind = "union" ->
               \A i \in DOMAIN DataMembers(t) :
                   LET m == DataMembers(t)[i]
                   IN  MemberValid(m, a) => MemberValid(m, b) /\ Same(m, a, b)
          [] OTHER -> a = b

\* What a value went through is told by the value it is now: whatever the
\* codecs it was sent through, whichever hop, the value in hand is valid and
\* carries the data that was sent.  A function that throws on a valid value,
\* an encoder and a decoder that disagree on a wire and a short cut that skips
\* a conversion all end here.
Delivered == wire = NoWire /\ hops <= MaxHops => Validate(type, held) /\ Same(type, sent, held)

\* Functions that are emitted separately answer alike: validate and
\* validationErrors, and of a valid value hasUnknownKeys and unknownKeyErrors.
TwinsAgree ==
    /\ Checkable(type) => (Validate(type, held) <=> Errors(type, held, <<>>) = {})
    /\ Validate(type, held) => (HasUnknown(type, held) <=> UnknownErrors(type, held, <<>>) # {})

\* A function that is dropped as a no-op, from a composite or from the function
\* that would call it, would have left every valid value, and every wire, as it
\* was.
NoopsChangeNothing ==
    /\ Validate(type, held) /\ Serializable(type) =>
         /\ ~PrepareLive(type) => Text(Prepare(type, held)) = Text(held)
         /\ StringifyNoop(type) /\ Text(held) # Undefined => Direct(type, held) = Text(held)
         /\ SafeNoop(type) => Text(Safe(type, held, FALSE)) = Text(held)
         /\ HasUnknownNoop(type) => ~HasUnknown(type, held)
         /\ ~UnknownLive(type, FALSE) => ToUndefined(type, held, FALSE) = held
         /\ CloneNoop(type) => Clone(type, held) = held
    /\ wire.by \in EncoderStrategies =>
         /\ ~RestoreLive(type, wire.by = "compact") => Restore(type, wire.text, wire.by = "compact") = wire.text
         /\ ~UnknownLive(type, TRUE) => ToUndefined(type, wire.text, TRUE) = wire.text

RECURSIVE Acyclic(_, _)
Acyclic(t, seen) == t \notin seen /\ \A p \in Parts(Resolve(t)) : Acyclic(p, seen \union {t})

(* What merged objects take and unionBytes leaves out: a byte for each field   *)
(* with several candidates, which names the one that follows, and the fields   *)
(* of the other members, for a value may have those of all.                    *)
SizeOf(t) == Estimate(t, [inflight |-> {}, depth |-> 0])
LargestOf(types, F(_)) == Largest({0} \union {F(types[i]) : i \in DOMAIN types})
AllOf(types, F(_)) == Total([i \in DOMAIN types |-> F(types[i])])

RECURSIVE Unbudgeted(_)
UnbudgetedField(candidates) ==
    LargestOf(candidates, Unbudgeted) + (IF Len(candidates) > 1 THEN 1 ELSE 0)
UnbudgetedMerge(os) ==
    LET Of(name) == LargestOf(Candidates(os, name), SizeOf) + UnbudgetedField(Candidates(os, name))
    IN  AllOf(MergedNames(os), Of) - LargestOf(os, SizeOf)
Unbudgeted(t0) ==
    LET t == Resolve(t0)
        OfSlot(s) == (IF s.rest THEN Items ELSE 1) * Unbudgeted(s.type)
        OfField(f) == Unbudgeted(f.type)
    IN  CASE t.kind = "union" ->
               Largest({LargestOf(DataMembers(t), Unbudgeted), UnbudgetedMerge(Objects(t))})
          [] t.kind = "object" -> AllOf(DataFields(t), OfField) + Items * AllOf(t.index, Unbudgeted)
          [] t.kind = "tuple" -> AllOf(t.slots, OfSlot)
          [] t.kind = "array" -> Items * Unbudgeted(t.child)
          [] t.kind \in {"map", "set"} -> Items * AllOf(t.inner, Unbudgeted)
          [] OTHER -> 0

(* A value within the assumed sizes is written into the first buffer, for a    *)
(* type that does not reach itself, but for what merged objects take more: the *)
(* slack of unionBytes, meant "to OVER-estimate soundly"                       *)
(* (binary_size_estimate.go:516-522), counts neither.                          *)
EstimateCovers ==
    wire.by = "binary" /\ Acyclic(type, {})
        => HighWater(wire.text.tokens) <= EstimateBinarySize(type) + Unbudgeted(type)


RECURSIVE EntersIn(_, _)
EntersIn(t, seen) ==
    /\ Resolve(t).kind \notin {"map", "set"}
    /\ \A p \in Parts(Resolve(t)) : p \in seen \/ EntersIn(p, seen \union {t})

\* Every encoder but mutate writes the declared shape and nothing else: what it
\* carried has no unknown key.  The strip decoder leaves nothing to clear, but
\* in a Map or a Set, which the wire form does not enter.  A clone has no
\* unknown key, and cloning it again changes nothing; a declared function is
\* copied by reference and hasUnknownKeys does not know its key.
ShapeIsExact ==
    [][/\ wire.by \in {"clone", "direct", "compact", "binary"} /\ wire' = NoWire => ~HasUnknown(type, held')
       /\ DecodeJson("strip") /\ EntersIn(type, {}) => ToUndefined(type, held', FALSE) = held'
       /\ CloneHeld => /\ Clone(type, held') = held'
                       /\ Holds(held', "function") \/ ~HasUnknown(type, held')]_vars
=============================================================================
