----------------------------- MODULE BinarySize ------------------------------
(***************************************************************************)
(* The size a binary encoder's first buffer is given: an estimate from the *)
(* type alone, beside what the writer then reserves for a value.           *)
(* Percent stands for the bias between the least and the most a type can   *)
(* take.  The estimator's memo is left out: it only spares a second walk   *)
(* of a type that is not part of a cycle.                                  *)
(***************************************************************************)
EXTENDS BinaryCodec

CONSTANTS Percent, Items, StringBytes, MaxBytes

\* Declared ahead of the definitions they are made of.
RECURSIVE Estimate(_, _)

DepthCap == 8           \* sizeEstimateDepthCap

\* varintByteLen
Varint(n) ==
    CASE n < 128 -> 1
      [] n \in 128 .. 16383 -> 2
      [] OTHER -> 3

Ceil8(n) == (n + 7) \div 8
Total(sizes) == FoldLeft(LAMBDA acc, n : acc + n, 0, sizes)
Largest(set) == CHOOSE n \in set : \A k \in set : k <= n

\* weighOptional, interpolate from 0
Weighed(bytes) == (Percent * bytes + 50) \div 100
StringSize == LET content == Weighed(StringBytes) IN Largest({8, Varint(content) + content})
Fallback == Varint(StringBytes) + StringBytes
Collection(element) == Varint(Items) + Items * element

\* Every format is left out: a bigint of five digits, at the floor of 21.
BigSize == Largest({21, 5 + 3 * 5})
RegExpSize == Largest({8, Fallback + 3})

\* serEnum: a tag of four, then a word or a string.
EnumSize(t) == LET Of(x) == IF x.js = "string" THEN 4 + 5 + 3 * Len(x.of) ELSE 8 IN Largest({8} \union {Of(x) : x \in t.values})

\* indexSigBytes: a count, and keys key0 .. key<Items - 1> at three bytes a unit.
KeySize == Largest({StringSize, 5 + 3 * (3 + Len(ToString(Items - 1)))})

\* walk: the types being estimated and how deep the walk is.
IndexSize(t, walk) == IF HasIndex(t) THEN 4 + Items * (KeySize + Estimate(t.index[1], walk)) ELSE 0

\* A slip: no bitmap.
FramedBare(parts) ==
    Total([i \in DOMAIN parts |-> IF parts[i].optional THEN Weighed(parts[i].bytes) ELSE parts[i].bytes])

\* objectBytes and tupleBytes: the parts in full, the optional ones weighed, and
\* a bitmap of these.
Framed(parts) ==
    Total([i \in DOMAIN parts |-> IF parts[i].optional THEN Weighed(parts[i].bytes) ELSE parts[i].bytes])
    + Ceil8(Len(SelectSeq(parts, LAMBDA p : p.optional)))

ObjectSize(t, walk) ==
    LET Part(f) == [optional |-> f.optional, bytes |-> Estimate(f.type, walk)]
    IN  Framed([i \in DOMAIN t.fields |-> Part(t.fields[i])]) + IndexSize(t, walk)
TupleSize(t, walk) ==
    LET Bytes1(s) == IF s.rest THEN Collection(Estimate(s.type, walk)) ELSE Estimate(s.type, walk)
    IN  Framed([i \in DOMAIN t.slots |-> [optional |-> t.slots[i].optional, bytes |-> Bytes1(t.slots[i])]])

\* classBytes, with mapElement and setElement
MapElement(t, walk) == Estimate(t.inner[1], walk) + Estimate(t.inner[2], walk)
SetElement(t, walk) == Estimate(t.inner[1], walk)
ClassSize(t, walk) == Collection(IF t.kind = "map" THEN MapElement(t, walk) ELSE SetElement(t, walk))

\* unionBytes: the largest member, and some slack for the merged objects.
UnionSize(t, walk) ==
    LET objects == SelectSeq(t.members, LAMBDA u : Resolve(u).kind = "object")
        fields == Total([i \in DOMAIN objects |-> Len(Resolve(objects[i]).fields)])
        slack == IF objects = <<>> THEN 0 ELSE 1 + Ceil8(fields) + (IF Len(objects) > 1 THEN 1 ELSE 0)
    IN  1 + Largest({Estimate(t.members[i], walk) : i \in DOMAIN t.members}) + slack

EstimateRaw(t, walk) ==
    CASE t.kind \in {"boolean", "null", "undefined", "void"} -> 1
      [] t.kind \in {"number", "date"} -> 8
      [] t.kind = "bigint" -> BigSize
      [] t.kind = "regexp" -> RegExpSize
      [] t.kind = "enum" -> EnumSize(t)
      [] t.kind = "string" -> StringSize
      [] t.kind \in {"any", "unknown"} -> Fallback
      [] t.kind = "array" -> Collection(Estimate(t.child, walk))
      [] t.kind \in {"map", "set"} -> ClassSize(t, walk)
      [] t.kind = "tuple" -> TupleSize(t, walk)
      [] t.kind = "object" -> ObjectSize(t, walk)
      [] t.kind = "union" -> UnionSize(t, walk)
      [] OTHER -> 0

Estimate(t, walk) ==
    LET raw == EstimateRaw(Resolve(t), [inflight |-> walk.inflight \union {t}, depth |-> walk.depth + 1])
    IN  IF t \in walk.inflight \/ walk.depth > DepthCap THEN StringBytes
        ELSE IF raw > MaxBytes THEN MaxBytes ELSE raw

EstimateBinarySize(t) == Largest({1, Estimate(t, [inflight |-> {}, depth |-> 0])})

-----------------------------------------------------------------------------
(* What a write advances by, and what it reserves first.  Strings are of    *)
(* one character: a prefix and a byte, and room for three.                  *)

Advance(tok) ==
    CASE tok.tag \in {"string", "json"} -> 2
      [] tok.tag = "double" -> 8
      [] tok.tag = "enum" -> IF tok.of.js = "string" THEN 6 ELSE 8
      [] tok.tag = "count" -> 4
      [] OTHER -> 1
Reserve(tok) == CASE tok.tag \in {"string", "json"} -> 8
                  [] tok.tag = "enum" -> 12
                  [] OTHER -> Advance(tok)

\* The most the buffer must hold while the tokens are written.
HighWater(tokens) ==
    FoldLeft(LAMBDA acc, tok : [at |-> acc.at + Advance(tok),
                                high |-> Largest({acc.high, acc.at + Reserve(tok)})],
             [at |-> 0, high |-> 0], tokens).high
=============================================================================
