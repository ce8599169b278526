--------------------------- MODULE BuildCacheProofs ---------------------------
(***************************************************************************)
(* Proofs about BuildCache, for any types, any states of the project and   *)
(* any builds, faults and kills: whatever a build takes from the cache is  *)
(* about its own project; a type whose validation the project overrides is *)
(* nowhere validated by a generated text; and a finished build has bound   *)
(* every call it serves and told every call site what there is to say of   *)
(* its types, if the depth of the search leaves none untold.               *)
(*                                                                         *)
(* The first two rest on three parts: what the closure of a set of types   *)
(* is; that an id and a hash tell of a type, with the overrides of all it  *)
(* is built from; and the invariant IInv, that every file says of its text *)
(* what the build that wrote it knew, and that every build asks only for   *)
(* functions of its families.                                              *)
(*                                                                         *)
(* The others rest on a second invariant, Wholeness: a file is what a walk *)
(* of some project made, the findings with it; what an entry calls is      *)
(* there or asked for; and what was found is told.  The types on which the *)
(* functions in a graph were walked then contain the roots and all that a  *)
(* walk meets from them, however they were divided and whoever walked them *)
(* (AllIsTold), and no entry is cascaded away (NothingIsStubbed).  A type  *)
(* that no call site is told of breaks the chain: its text is kept without *)
(* its findings, so nothing is Owed where there may be one.                *)
(***************************************************************************)
EXTENDS BuildCache, FiniteSetTheorems, TLAPS

-----------------------------------------------------------------------------
\* Every nonempty set of natural numbers has a least element.
LEMMA LeastNumber ==
  ASSUME NEW S, S \subseteq Nat, S # {}
  PROVE  \E x \in S : \A y \in S : ~(y < x)
<1> DEFINE R == OpToRel(<, Nat)
<1>1. IsWellFoundedOn(R, Nat)
  BY ONLY NatLessThanWellFounded, Zenon
<1>2. \E x \in S : \A y \in S : ~(<<y, x>> \in R)
  <2> HIDE DEF R
  <2> QED BY <1>1, WFMin
<1>3. \A x, y \in Nat : y < x => <<y, x>> \in R
  BY SMT DEF OpToRel
<1> QED BY <1>2, <1>3

\* Induction up to a bound, for what can be said with a set.
LEMMA Climb ==
  ASSUME NEW S, NEW N \in Nat, 0 \in S, \A n \in 0..N : n \in S /\ n < N => n+1 \in S
  PROVE  0..N \subseteq S
<1> SUFFICES ASSUME (0..N) \ S # {} PROVE FALSE
  OBVIOUS
<1>1. PICK x \in (0..N) \ S : \A y \in (0..N) \ S : ~(y < x)
  <2>1. (0..N) \ S \subseteq Nat
    OBVIOUS
  <2> QED BY <2>1, LeastNumber
<1>2. x # 0 /\ x-1 \in 0..N /\ x-1 < x /\ x-1 < N
  BY <1>1
<1>3. x-1 \in S
  BY <1>1, <1>2
<1> QED BY <1>1, <1>2, <1>3

\* One round of a closure, and the rounds up to the n-th.
Grow(next, X) == UNION {{t} \cup next[t] : t \in X}

Rounds(next, from, N, g) ==
  g = [n \in 0..N |-> IF n = 0 THEN from ELSE Grow(next, g[n-1])]

\* Nothing grows from nothing.
LEMMA GrowEmpty ==
  ASSUME NEW next
  PROVE  Grow(next, {}) = {}
<1> SUFFICES ASSUME NEW x \in Grow(next, {}) PROVE FALSE
  OBVIOUS
<1> QED BY DEF Grow

\* The recursive definition of the rounds has a solution.
LEMMA RoundsExist ==
  ASSUME NEW next, NEW from, NEW N \in Nat
  PROVE  \E g : Rounds(next, from, N, g)
<1> DEFINE Good == {k \in 0..N : \E g : Rounds(next, from, k, g)}
<1>1. 0 \in Good
  <2>1. Rounds(next, from, 0, [n \in 0..0 |-> from])
    BY DEF Rounds
  <2> QED BY <2>1
<1>2. ASSUME NEW k \in 0..N, k \in Good, k < N
      PROVE  k+1 \in Good
  <2>1. PICK g : Rounds(next, from, k, g)
    BY <1>2
  <2> DEFINE h == [n \in 0..(k+1) |-> IF n <= k THEN g[n] ELSE Grow(next, g[k])]
  <2>2. \A n \in 0..k : g[n] = IF n = 0 THEN from ELSE Grow(next, g[n-1])
    BY <2>1 DEF Rounds
  <2>3. \A n \in 0..(k+1) : h[n] = IF n = 0 THEN from ELSE Grow(next, h[n-1])
    <3> TAKE n \in 0..(k+1)
    <3>1. CASE n <= k
      <4>1. n = 0 \/ (n # 0 /\ n-1 \in 0..(k+1) /\ n-1 <= k)
        BY <3>1
      <4>2. n \in 0..k
        BY <3>1
      <4> QED BY <3>1, <2>2, <4>1, <4>2
    <3>2. CASE n = k+1
      <4>1. n # 0 /\ n-1 = k /\ k \in 0..(k+1) /\ ~(n <= k) /\ k <= k
        BY <3>2
      <4> QED BY <4>1
    <3> QED BY <3>1, <3>2
  <2>4. h = [n \in 0..(k+1) |-> IF n = 0 THEN from ELSE Grow(next, h[n-1])]
    BY <2>3
  <2>5. Rounds(next, from, k+1, h)
    BY <2>4 DEF Rounds
  <2> QED BY <2>5, <1>2
<1>3. N \in Good
  <2> HIDE DEF Good
  <2> QED BY <1>1, <1>2, Climb
<1> QED BY <1>3

\* The closure is the last of its rounds.
LEMMA ClosureIsLast ==
  ASSUME NEW next, NEW from, Cardinality(DOMAIN next) \in Nat
  PROVE  \E g : /\ Rounds(next, from, Cardinality(DOMAIN next), g)
                /\ Closure(next, from) = g[Cardinality(DOMAIN next)]
<1> DEFINE N == Cardinality(DOMAIN next)
           g == CHOOSE g : Rounds(next, from, N, g)
<1>1. Closure(next, from) = g[N]
  BY DEF Closure, Rounds, Grow
<1>2. Rounds(next, from, N, g)
  BY RoundsExist
<1> QED BY <1>1, <1>2

\* Rounds never shrink and stay within the nodes.
LEMMA RoundsGrow ==
  ASSUME NEW T, NEW next \in [T -> SUBSET T], NEW from \in SUBSET T, NEW N \in Nat,
         NEW g, Rounds(next, from, N, g)
  PROVE  /\ g[0] = from
         /\ \A n \in 0..N : n < N => g[n+1] = Grow(next, g[n])
         /\ \A n \in 0..N : g[n] \subseteq T /\ g[n] \subseteq Grow(next, g[n])
<1>1. g[0] = from
  BY DEF Rounds
<1>2. \A n \in 0..N : n < N => g[n+1] = Grow(next, g[n])
  <2> TAKE n \in 0..N
  <2> HAVE n < N
  <2>1. n+1 \in 0..N /\ n+1 # 0 /\ (n+1)-1 = n
    OBVIOUS
  <2> QED BY <2>1 DEF Rounds
<1> DEFINE Within == {n \in 0..N : g[n] \subseteq T}
<1>3. \A n \in 0..N : n \in Within /\ n < N => n+1 \in Within
  BY <1>2 DEF Grow
<1>4. 0..N \subseteq Within
  <2>1. 0 \in Within
    BY <1>1
  <2> HIDE DEF Within
  <2> QED BY <2>1, <1>3, Climb
<1>5. \A n \in 0..N : g[n] \subseteq Grow(next, g[n])
  BY DEF Grow
<1> QED BY <1>1, <1>2, <1>4, <1>5

\* Rounds do not leave a set that is closed.
LEMMA RoundsStayWithin ==
  ASSUME NEW T, NEW next \in [T -> SUBSET T], NEW from \in SUBSET T, NEW N \in Nat,
         NEW g, Rounds(next, from, N, g), NEW S, from \subseteq S, \A t \in S \cap T : next[t] \subseteq S
  PROVE  g[N] \subseteq S
<1>0. /\ g[0] = from
      /\ \A n \in 0..N : n < N => g[n+1] = Grow(next, g[n])
      /\ \A n \in 0..N : g[n] \subseteq T /\ g[n] \subseteq Grow(next, g[n])
  BY RoundsGrow, Zenon
<1> DEFINE In == {n \in 0..N : g[n] \subseteq S}
<1>1. 0 \in In
  BY <1>0
<1>2. ASSUME NEW n \in 0..N, n \in In, n < N
      PROVE  n+1 \in In
  <2>1. g[n] \subseteq S /\ g[n] \subseteq T /\ g[n+1] = Grow(next, g[n])
    BY <1>2, <1>0
  <2>2. g[n+1] \subseteq S
    BY <2>1 DEF Grow
  <2> QED BY <2>2, <1>2
<1>3. N \in In
  <2> HIDE DEF In
  <2> QED BY <1>1, <1>2, Climb
<1> QED BY <1>3

\* As many rounds as there are nodes are enough.
LEMMA RoundsSettle ==
  ASSUME NEW T, IsFiniteSet(T), NEW next \in [T -> SUBSET T], NEW from \in SUBSET T,
         NEW N \in Nat, Cardinality(T) <= N, NEW g, Rounds(next, from, N, g)
  PROVE  Grow(next, g[N]) = g[N]
<1>2. \A X \in SUBSET T : IsFiniteSet(X) /\ Cardinality(X) \in Nat /\ Cardinality(X) <= N
  BY FS_Subset, FS_CardinalityType
<1>1. /\ g[0] = from
      /\ \A n \in 0..N : n < N => g[n+1] = Grow(next, g[n])
      /\ \A n \in 0..N : g[n] \subseteq T /\ g[n] \subseteq Grow(next, g[n])
  BY RoundsGrow, Zenon
<1>3. \A n \in 0..N : g[n] \in SUBSET T /\ g[n] \subseteq Grow(next, g[n])
  BY <1>1
<1>4. \A n \in 0..N : n < N => g[n+1] = Grow(next, g[n])
  BY <1>1
<1> DEFINE Still(n) == Grow(next, g[n]) = g[n]
           Enough == {n \in 0..N : Still(n) \/ Cardinality(g[n]) > n}
<1>5. 0 \in Enough
  <2>1. CASE g[0] = {}
    BY <2>1, GrowEmpty
  <2>2. CASE g[0] # {}
    <3>1. g[0] \in SUBSET T
      BY <1>3
    <3>2. Cardinality(g[0]) # 0
      BY <3>1, <1>2, <2>2, FS_EmptySet
    <3> QED BY <3>1, <3>2, <1>2
  <2> QED BY <2>1, <2>2
<1>6. ASSUME NEW n \in 0..N, n \in Enough, n < N
      PROVE  n+1 \in Enough
  <2>0. n \in Nat /\ n+1 \in 0..N /\ g[n+1] = Grow(next, g[n])
    BY <1>4, <1>6
  <2>1. CASE Still(n)
    BY <2>1, <2>0
  <2>2. CASE ~Still(n)
    <3>1. Cardinality(g[n]) > n /\ g[n] # g[n+1] /\ g[n] \subseteq g[n+1]
      BY <2>2, <2>0, <1>3, <1>6
    <3>2. g[n] \in SUBSET T /\ g[n+1] \in SUBSET T
      BY <2>0, <1>3
    <3>3. Cardinality(g[n]) <= Cardinality(g[n+1]) /\ Cardinality(g[n]) # Cardinality(g[n+1])
      BY <3>1, <3>2, <1>2, FS_Subset
    <3>4. Cardinality(g[n+1]) > n+1
      BY <3>1, <3>2, <3>3, <2>0, <1>2
    <3> QED BY <3>4, <2>0
  <2> QED BY <2>1, <2>2
<1>7. N \in Enough
  <2> HIDE DEF Enough
  <2> QED BY <1>5, <1>6, Climb
<1>8. ~(Cardinality(g[N]) > N)
  BY <1>2, <1>3
<1> QED BY <1>7, <1>8

\* What the closure operator computes: the least set that has the nodes it
\* starts from and their successors.
LEMMA ClosureIsClosed ==
  ASSUME NEW T, IsFiniteSet(T), NEW next \in [T -> SUBSET T], NEW from \in SUBSET T
  PROVE  /\ from \subseteq Closure(next, from)
         /\ Closure(next, from) \subseteq T
         /\ \A t \in Closure(next, from) : next[t] \subseteq Closure(next, from)
<1>1. PICK N \in Nat : DOMAIN next = T /\ N = Cardinality(T)
  BY FS_CardinalityType
<1>2. PICK g : Rounds(next, from, N, g) /\ Closure(next, from) = g[N]
  BY <1>1, ClosureIsLast
<1>3. Grow(next, g[N]) = g[N]
  BY <1>1, <1>2, RoundsSettle
<1>0. /\ g[0] = from
      /\ \A n \in 0..N : n < N => g[n+1] = Grow(next, g[n])
      /\ \A n \in 0..N : g[n] \subseteq T /\ g[n] \subseteq Grow(next, g[n])
  BY <1>2, RoundsGrow, Zenon
<1>4. g[N] \subseteq T
  BY <1>0, <1>1
<1>5. from \subseteq g[N]
  <2> DEFINE Above == {n \in 0..N : from \subseteq g[n]}
  <2>1. 0 \in Above
    BY <1>0, <1>1
  <2>2. \A n \in 0..N : n \in Above /\ n < N => n+1 \in Above
    <3>1. \A n \in 0..N : n < N => n+1 \in 0..N /\ g[n] \subseteq g[n+1]
      BY <1>0, <1>1
    <3> QED BY <3>1
  <2>3. N \in Above
    <3> HIDE DEF Above
    <3> QED BY <1>1, <2>1, <2>2, Climb
  <2> QED BY <2>3
<1> QED BY <1>2, <1>3, <1>4, <1>5 DEF Grow

\* A closure is in every closed set that contains the start.
LEMMA ClosureIsLeast ==
  ASSUME NEW T, IsFiniteSet(T), NEW next \in [T -> SUBSET T], NEW from \in SUBSET T,
         NEW S, from \subseteq S, \A t \in S \cap T : next[t] \subseteq S
  PROVE  Closure(next, from) \subseteq S
<1>1. PICK N \in Nat : DOMAIN next = T /\ N = Cardinality(T)
  BY FS_CardinalityType
<1>2. PICK g : Rounds(next, from, N, g) /\ Closure(next, from) = g[N]
  BY <1>1, ClosureIsLast
<1>3. g[N] \subseteq S
  <2>1. Rounds(next, from, N, g)
    BY <1>2
  <2> QED BY <2>1, RoundsStayWithin
<1> QED BY <1>2, <1>3

-----------------------------------------------------------------------------
\* What a type is built from is closed under what types are built from.
LEMMA ReachIsClosed ==
  ASSUME NEW t \in Types
  PROVE  /\ t \in Reach(t)
         /\ Reach(t) \subseteq Types
         /\ \A u \in Reach(t) : Kids[u] \subseteq Reach(t)
<1>1. IsFiniteSet(Types) /\ Kids \in [Types -> SUBSET Types]
  BY GraphAssumption
<1>2. Reach(t) = Closure(Kids, {t})
  BY DEF Reach, Reaches
<1>3. {t} \in SUBSET Types
  OBVIOUS
<1>4. /\ {t} \subseteq Closure(Kids, {t})
      /\ Closure(Kids, {t}) \subseteq Types
      /\ \A u \in Closure(Kids, {t}) : Kids[u] \subseteq Closure(Kids, {t})
  BY <1>1, <1>3, ClosureIsClosed
<1> QED BY <1>2, <1>4

\* What a type is built from is in every closed set of types that has the type.
LEMMA ReachNests ==
  ASSUME NEW t \in Types, NEW S \in SUBSET Types, t \in S, \A u \in S : Kids[u] \subseteq S
  PROVE  Reach(t) \subseteq S
<1>1. IsFiniteSet(Types) /\ Kids \in [Types -> SUBSET Types]
  BY GraphAssumption
<1>2. Reach(t) = Closure(Kids, {t})
  BY DEF Reach, Reaches
<1>3. {t} \in SUBSET Types /\ {t} \subseteq S /\ \A u \in S \cap Types : Kids[u] \subseteq S
  OBVIOUS
<1> QED BY <1>1, <1>2, <1>3, ClosureIsLeast

\* So is what a program interns.
LEMMA InternedIsClosed ==
  ASSUME NEW p \in Programs
  PROVE  /\ Interned(p) \subseteq Types
         /\ \A t \in Interned(p) : Kids[t] \subseteq Interned(p) /\ Reach(t) \subseteq Interned(p)
         /\ \A s \in Sites(p) : s.type \in Interned(p)
<1>1. \A s \in Sites(p) : s.type \in Types
  BY ProjectAssumption
<1>2. Interned(p) \subseteq Types
  BY <1>1, ReachIsClosed DEF Interned
<1>3. \A t \in Interned(p) : Kids[t] \subseteq Interned(p)
  BY <1>1, ReachIsClosed DEF Interned
<1>4. \A t \in Interned(p) : Reach(t) \subseteq Interned(p)
  BY <1>2, <1>3, ReachNests
<1>5. \A s \in Sites(p) : s.type \in Interned(p)
  BY <1>1, ReachIsClosed DEF Interned
<1> QED BY <1>2, <1>3, <1>4, <1>5

\* A text expands nothing that its project has overridden but its own type.
LEMMA RegionIsInlined ==
  ASSUME NEW p \in Programs, NEW f \in Walkers, NEW t \in Types
  PROVE  \A u \in Region(p, f, t) : u \in Reach(t) /\ (u = t \/ ~Overridden(p, f, u))
<1> DEFINE next == Inlined(p, f)
           S == {u \in Reach(t) : u = t \/ ~Overridden(p, f, u)}
<1>1. IsFiniteSet(Types) /\ Kids \in [Types -> SUBSET Types]
  BY GraphAssumption
<1>2. next \in [Types -> SUBSET Types] /\ \A u \in Types : next[u] \subseteq Kids[u]
  BY <1>1 DEF Inlined, Kept
<1>3. \A u \in Types : \A c \in next[u] : ~Overridden(p, f, c)
  BY DEF Inlined, External
<1>4. Region(p, f, t) = Closure(next, {t})
  BY DEF Region, Regions
<1>5. {t} \in SUBSET Types /\ {t} \subseteq S /\ \A u \in S \cap Types : next[u] \subseteq S
  BY <1>2, <1>3, ReachIsClosed
<1>6. Closure(next, {t}) \subseteq S
  <2> HIDE DEF next, S
  <2> QED BY <1>1, <1>2, <1>5, ClosureIsLeast
<1> QED BY <1>4, <1>6

\* Every type a text calls is one that the program interns.
LEMMA CallsAreInterned ==
  ASSUME NEW p \in Programs, NEW f \in Walkers, NEW t \in Interned(p)
  PROVE  Called(p, f, t) \cup Narrowed(p, f, t) \subseteq Interned(p)
<1>1. t \in Types /\ Reach(t) \subseteq Interned(p)
  BY InternedIsClosed
<1>2. \A u \in Region(p, f, t) : u \in Interned(p)
  BY <1>1, RegionIsInlined
<1>3. \A u \in Region(p, f, t) : Kept(f, u) \subseteq Interned(p)
  BY <1>2, InternedIsClosed DEF Kept
<1> QED BY <1>3 DEF Called, Narrowed

\* A structural id tells the type, and the overrides of all it is built from.
LEMMA SidTells ==
  ASSUME NEW p, NEW q, NEW t, NEW u, Sid(p, t) = Sid(q, u)
  PROVE  /\ t = u
         /\ \A f, c : c \in Reach(t) => (Overridden(p, f, c) <=> Overridden(q, f, c))
<1>1. t = u /\ {o \in Overrides(p) : o.type \in Reach(t)} = {o \in Overrides(q) : o.type \in Reach(t)}
  BY DEF Sid
<1>2. \A c \in Reach(t) : \A op : Bodies(p, c, op) = Bodies(q, c, op)
  BY <1>1 DEF Bodies
<1> QED BY <1>1, <1>2 DEF Overridden

\* Two types of a program do not share a hash: the one interned later knows
\* of the other.
LEMMA HashTells ==
  ASSUME NEW p \in Programs, NEW t \in Interned(p), NEW u \in Interned(p),
         HashOf(p, t) = HashOf(p, u)
  PROVE  t = u
<1>1. Interned(p) \subseteq Types /\ IsFiniteSet(Types)
  BY InternedIsClosed, GraphAssumption
<1>2. /\ Short(Sid(p, t)) = Short(Sid(p, u))
      /\ Cardinality(Taken(p, t)) = Cardinality(Taken(p, u))
  BY <1>1 DEF HashOf, Hashes
<1>3. /\ Rank(p) \in [Types -> Nat]
      /\ \A x, y \in Types : Rank(p)[x] = Rank(p)[y] => x = y
  BY ProjectAssumption
<1>4. ASSUME NEW x \in Interned(p), NEW y \in Interned(p), Rank(p)[x] < Rank(p)[y],
             Short(Sid(p, x)) = Short(Sid(p, y)), Cardinality(Taken(p, x)) = Cardinality(Taken(p, y))
      PROVE  FALSE
  <2>1. Taken(p, x) \subseteq Taken(p, y) /\ x \in Taken(p, y) /\ x \notin Taken(p, x)
    BY <1>1, <1>3, <1>4 DEF Taken
  <2>2. IsFiniteSet(Taken(p, y))
    <3>1. Taken(p, y) \in SUBSET Types
      BY <1>1 DEF Taken
    <3> QED BY <1>1, <3>1, FS_Subset
  <2> QED BY <2>1, <2>2, <1>4, FS_Subset
<1>5. t \in Types /\ u \in Types /\ Rank(p)[t] \in Nat /\ Rank(p)[u] \in Nat
  BY <1>1, <1>3
<1>6. Rank(p)[t] < Rank(p)[u] \/ Rank(p)[u] < Rank(p)[t] \/ Rank(p)[t] = Rank(p)[u]
  BY <1>5
<1> QED BY <1>2, <1>3, <1>4, <1>5, <1>6

\* The type of a key is the one its hash was given to.
LEMMA TypeIsFound ==
  ASSUME NEW p \in Programs, NEW key, Known(p, key)
  PROVE  /\ TypeAt(p, key) \in Interned(p) /\ HashOf(p, TypeAt(p, key)) = key.id
         /\ \A t \in Interned(p) : HashOf(p, t) = key.id => TypeAt(p, key) = t
<1>1. TypeAt(p, key) \in OfHash(p, key.id)
  BY DEF Known, TypeAt
<1> QED BY <1>1, HashTells DEF OfHash

-----------------------------------------------------------------------------
\* A text that a build may serve under a key.
Sound(p, key, text) ==
  /\ text.of = Sid(p, TypeAt(p, key))
  /\ text.built = Options(p)
  /\ \A c \in text.calls : HasHash(p, c.of, c.id)
  /\ \A u \in text.holds : Overridden(p, key.fam, u) => u = TypeAt(p, key) /\ key.armed

IsSound(p, graph) ==
  \A e \in graph : e.text.kind \notin {"missing", "pure"} => Sound(p, e.key, e.text)

Fields == {"phase", "prog", "todo", "graph", "found", "engine", "asked", "rounds", "size"}

\* What a build asks for: functions of its families, then its own encoders.
AsksItsOwn(w) ==
  /\ w.phase \in {"collect", "link"} => \A k \in w.todo : k.fam \in Walkers
  /\ w.phase = "compose" => \A k \in w.todo : k.fam = "je" /\ Known(w.prog, k)

WorkIsSound(w) ==
  /\ DOMAIN w = Fields
  /\ w.phase \in Phases \cup {"done"}
  /\ w.prog \in Programs
  /\ w.engine \in {"up", "dead"}
  /\ w.asked \subseteq Patterned
  /\ w.rounds \in 0..MaxRounds
  /\ AsksItsOwn(w)
  /\ IsSound(w.prog, w.graph)

\* What some build knew of the types its text expands.
ExpandsItsOwn(fam, text) ==
  \/ text.holds = {}
  \/ \E q \in Programs, t \in Types :
       /\ text.of = Sid(q, t)
       /\ \A u \in text.holds : u \in Reach(t) /\ (u = t \/ ~Overridden(q, fam, u))

\* A file says of its text what the build that wrote it knew.
RecordIsSound(r) ==
  /\ DOMAIN r = {"file", "text", "codes", "readable"}
  /\ r.readable \in BOOLEAN
  /\ r.text.built = r.file.root
  /\ r.file.fam = "je" => \A c \in r.text.calls : c.of = r.text.of /\ c.id = r.file.id
  /\ ExpandsItsOwn(r.file.fam, r.text)

DiskIsSound ==
  \A r \in disk : RecordIsSound(r) /\ \A q \in disk : q.file = r.file => q = r

BuildsAreSound ==
  /\ DOMAIN build = Builders
  /\ \A b \in Builders : build[b] = Idle \/ WorkIsSound(build[b])

CountsAreBounded == started \in 0..MaxBuilds /\ faults \in 0..MaxFaults

IInv == DiskIsSound /\ BuildsAreSound /\ CountsAreBounded

-----------------------------------------------------------------------------
\* What a walk generates is about the type it started from.
LEMMA WalkIsSound ==
  ASSUME NEW p \in Programs, NEW k, k.fam \in Walkers, Known(p, k),
         ~(~k.armed /\ Overridden(p, k.fam, TypeAt(p, k))),
         NEW text, text = Text(p, k.fam, TypeAt(p, k), k.armed)
  PROVE  Sound(p, k, text) /\ text.built = Options(p) /\ ExpandsItsOwn(k.fam, text)
<1> DEFINE t == TypeAt(p, k)
<1>1. t \in Interned(p) /\ t \in Types
  BY TypeIsFound, InternedIsClosed
<1>2. text.of = Sid(p, t) /\ text.built = Options(p)
  BY DEF Text
<1>3. text.holds = {} \/ text.holds = Region(p, k.fam, t)
  BY DEF Text
<1>4. \A u \in Region(p, k.fam, t) : u \in Reach(t) /\ (u = t \/ ~Overridden(p, k.fam, u))
  BY <1>1, RegionIsInlined
<1>5. \A c \in text.calls : \E f, u : u \in Interned(p) /\ c = CallTo(p, f, u)
  <2>1. Called(p, k.fam, t) \cup Narrowed(p, k.fam, t) \subseteq Interned(p)
    BY <1>1, CallsAreInterned
  <2>2. text.calls \subseteq {CallTo(p, k.fam, c) : c \in Called(p, k.fam, t)}
                             \cup {CallTo(p, "val", c) : c \in Narrowed(p, k.fam, t)}
    BY DEF Text
  <2> QED BY <2>1, <2>2
<1>6. \A c \in text.calls : HasHash(p, c.of, c.id)
  BY <1>5 DEF CallTo, HasHash
<1>7. \A u \in text.holds : Overridden(p, k.fam, u) => u = t /\ k.armed
  BY <1>3, <1>4
<1> HIDE DEF t
<1>8. ExpandsItsOwn(k.fam, text)
  BY <1>1, <1>2, <1>3, <1>4 DEF ExpandsItsOwn
<1> QED BY <1>2, <1>6, <1>7, <1>8 DEF Sound, t

\* A usable file of the function stands for the walk.
LEMMA UsableIsSound ==
  ASSUME NEW p \in Programs, NEW k, Known(p, k), ~k.armed,
         ~Overridden(p, k.fam, TypeAt(p, k)),
         NEW r, RecordIsSound(r), r.file = File(p, k), Usable(p, TypeAt(p, k), r)
  PROVE  Sound(p, k, r.text)
<1> DEFINE t == TypeAt(p, k)
<1>1. r.file.fam = k.fam /\ r.file.root = Options(p)
  BY DEF File
<1>2. /\ r.text.of = Sid(p, t)
      /\ \A c \in r.text.calls : HasHash(p, c.of, c.id)
  BY DEF Usable
<1>3. r.text.built = Options(p)
  BY <1>1 DEF RecordIsSound
<1>4. ASSUME NEW u \in r.text.holds, Overridden(p, k.fam, u)
      PROVE  FALSE
  <2>1. PICK q \in Programs, v \in Types :
          /\ r.text.of = Sid(q, v)
          /\ \A x \in r.text.holds : x \in Reach(v) /\ (x = v \/ ~Overridden(q, k.fam, x))
    BY <1>1, <1>4 DEF RecordIsSound, ExpandsItsOwn
  <2>2. /\ t = v
        /\ \A f, c : c \in Reach(t) => (Overridden(p, f, c) <=> Overridden(q, f, c))
    <3>1. Sid(p, t) = Sid(q, v)
      BY <1>2, <2>1
    <3> HIDE DEF t
    <3> QED BY <3>1, SidTells
  <2> QED BY <1>4, <2>1, <2>2
<1> QED BY <1>2, <1>3, <1>4 DEF Sound

\* The project's own function refers to nothing that could move.
LEMMA RedirectIsSound ==
  ASSUME NEW p, NEW op, NEW k, NEW text, text = Redirect(p, op, TypeAt(p, k))
  PROVE  Sound(p, k, text)
BY DEF Sound, Redirect

\* An encoder refers to its own type's primitive and to nothing else.
LEMMA EncoderIsSound ==
  ASSUME NEW p \in Programs, NEW k, k.fam = "je", Known(p, k), NEW live,
         NEW text, text = Encoder(p, TypeAt(p, k), k.armed, live)
  PROVE  /\ Sound(p, k, text)
         /\ text.built = Options(p) /\ text.holds = {}
         /\ \A c \in text.calls : c.of = text.of /\ c.id = k.id
<1> DEFINE t == TypeAt(p, k)
<1>1. t \in Interned(p) /\ HashOf(p, t) = k.id
  BY TypeIsFound
<1>2. text.of = Sid(p, t) /\ text.built = Options(p) /\ text.holds = {}
  BY DEF Encoder
<1>3. \A c \in text.calls : c = CallTo(p, "pjs", t)
  BY DEF Encoder, EncoderCalls
<1>4. \A c \in text.calls : c.of = Sid(p, t) /\ c.id = HashOf(p, t)
  BY <1>3 DEF CallTo
<1>5. \A c \in text.calls : HasHash(p, c.of, c.id)
  BY <1>1, <1>4 DEF HasHash
<1> QED BY <1>1, <1>2, <1>4, <1>5 DEF Sound

\* An encoder taken from the cache is about this project.
LEMMA UsableEncoderIsSound ==
  ASSUME NEW p \in Programs, NEW k, k.fam = "je", Known(p, k),
         NEW r, RecordIsSound(r), r.file = File(p, k), UsableEncoder(p, TypeAt(p, k), r)
  PROVE  Sound(p, k, r.text)
<1> DEFINE t == TypeAt(p, k)
<1>1. r.file.fam = "je" /\ r.file.root = Options(p) /\ r.file.id = k.id
  BY DEF File
<1>2. r.text.of = Sid(p, t) /\ r.text.built = Options(p)
  BY <1>1 DEF UsableEncoder, RecordIsSound
<1>3. t \in Interned(p) /\ HashOf(p, t) = k.id
  BY TypeIsFound
<1>4. \A c \in r.text.calls : c.of = Sid(p, t) /\ c.id = HashOf(p, t)
  BY <1>1, <1>2, <1>3 DEF RecordIsSound
<1>5. \A c \in r.text.calls : HasHash(p, c.of, c.id)
  BY <1>3, <1>4 DEF HasHash
<1>6. \A u : ~Overridden(p, "je", u)
  <2>1. \A o \in Overrides(p) : o.op # "none"
    BY ProjectAssumption
  <2> QED BY <2>1 DEF Overridden, OverrideOp, Bodies
<1> QED BY <1>2, <1>5, <1>6 DEF Sound

-----------------------------------------------------------------------------
\* A job of a walk adds a sound text, and asks for functions of its family.
LEMMA AdvanceIsSound ==
  ASSUME NEW w, WorkIsSound(w), w.phase \in {"collect", "link"},
         NEW k \in w.todo, NEW text, Sound(w.prog, k, text), NEW codes
  PROVE  WorkIsSound(Advance(w, k, Entry(k, text), codes))
<1> DEFINE v == Advance(w, k, Entry(k, text), codes)
           e == Entry(k, text)
<1>1. DOMAIN w = Fields /\ \A x \in w.todo : x.fam \in Walkers
  BY DEF WorkIsSound, AsksItsOwn
<1>2. /\ DOMAIN v = Fields
      /\ v.phase = w.phase /\ v.prog = w.prog /\ v.engine = w.engine
      /\ v.asked = w.asked /\ v.rounds = w.rounds
      /\ v.graph = w.graph \cup {e}
      /\ v.todo \subseteq w.todo \cup e.hard
  BY <1>1 DEF Advance, Fields
<1>3. e.key = k /\ e.text = text /\ \A x \in e.hard : x.fam \in Walkers
  <2>1. k.fam \in Walkers
    BY <1>1
  <2> QED BY <2>1 DEF Entry, KeyOf
<1>4. IsSound(v.prog, v.graph)
  BY <1>2, <1>3 DEF IsSound, WorkIsSound
<1>5. AsksItsOwn(v)
  BY <1>1, <1>2, <1>3 DEF AsksItsOwn
<1> HIDE DEF v, e
<1>6. WorkIsSound(v)
  BY <1>2, <1>4, <1>5 DEF WorkIsSound
<1> QED BY <1>6 DEF v, e

\* So does a walk that asked the engine.
LEMMA EngineKeepsSound ==
  ASSUME NEW w, WorkIsSound(w), NEW engine \in {"up", "dead"}, NEW asked \in SUBSET Patterned
  PROVE  WorkIsSound([w EXCEPT !.engine = engine, !.asked = asked])
<1> DEFINE v == [w EXCEPT !.engine = engine, !.asked = asked]
<1>1. DOMAIN w = Fields
  BY DEF WorkIsSound
<1>2. /\ DOMAIN v = Fields
      /\ v.phase = w.phase /\ v.prog = w.prog /\ v.engine = engine
      /\ v.asked = asked /\ v.rounds = w.rounds /\ v.graph = w.graph /\ v.todo = w.todo
  BY <1>1 DEF Fields
<1> HIDE DEF v
<1>3. WorkIsSound(v)
  BY <1>2 DEF WorkIsSound, AsksItsOwn, IsSound
<1> QED BY <1>3 DEF v

\* A job that composes an encoder.
LEMMA AddIsSound ==
  ASSUME NEW w, WorkIsSound(w), NEW k \in w.todo, NEW text, Sound(w.prog, k, text)
  PROVE  WorkIsSound(Add(w, k, Entry(k, text)))
<1> DEFINE v == Add(w, k, Entry(k, text))
           e == Entry(k, text)
<1>1. DOMAIN w = Fields
  BY DEF WorkIsSound
<1>2. /\ DOMAIN v = Fields
      /\ v.phase = w.phase /\ v.prog = w.prog /\ v.engine = w.engine
      /\ v.asked = w.asked /\ v.rounds = w.rounds
      /\ v.graph = w.graph \cup {e}
      /\ v.todo \subseteq w.todo
  BY <1>1 DEF Add, Fields
<1>3. e.key = k /\ e.text = text
  BY DEF Entry
<1> HIDE DEF v, e
<1>4. IsSound(v.prog, v.graph)
  BY <1>2, <1>3 DEF IsSound, WorkIsSound
<1>5. AsksItsOwn(v)
  BY <1>2 DEF AsksItsOwn, WorkIsSound
<1>6. WorkIsSound(v)
  BY <1>2, <1>4, <1>5 DEF WorkIsSound
<1> QED BY <1>6 DEF v, e

\* A new build has nothing but the bodies of its overrides.
LEMMA OpenedIsSound ==
  ASSUME NEW p \in Programs
  PROVE  WorkIsSound(Opened(p))
<1> DEFINE v == Opened(p)
<1>1. /\ DOMAIN v = Fields
      /\ v.phase = "collect" /\ v.prog = p /\ v.engine \in {"up", "dead"}
      /\ v.asked = {} /\ v.rounds = 0
      /\ v.graph = {PureEntry(o.body) : o \in Overrides(p)}
      /\ v.todo = UNION {RootsOf(p, f) : f \in Walkers}
  BY DEF Opened, Fields
<1>2. \A k \in v.todo : k.fam \in Walkers
  BY <1>1 DEF RootsOf, Key, Walkers
<1>3. \A e \in v.graph : e.text.kind = "pure"
  BY <1>1 DEF PureEntry
<1>4. 0 \in 0..MaxRounds
  BY BoundsAssumption
<1> HIDE DEF v
<1>5. WorkIsSound(v)
  BY <1>1, <1>2, <1>3, <1>4 DEF WorkIsSound, AsksItsOwn, IsSound, Phases
<1> QED BY <1>5 DEF v

\* What is served is what was collected, and stubs and built-in functions.
LEMMA FinishedIsSound ==
  ASSUME NEW p, NEW graph, IsSound(p, graph), NEW demanded,
         NEW kept, kept = Cascade(graph), NEW served, served = ServeBuiltins(kept),
         NEW whole, whole = AddMissingStubs(served, demanded)
  PROVE  IsSound(p, Reachable(whole, demanded))
<1>1. kept \subseteq graph
  BY DEF Cascade
<1>2. \A e \in served : e \in kept \/ e.text.kind = "pure"
  BY DEF ServeBuiltins, PureEntry
<1>3. \A e \in whole : e \in served \/ e.text.kind = "missing"
  BY DEF AddMissingStubs, Missing
<1>4. Reachable(whole, demanded) \subseteq whole
  BY DEF Reachable
<1> QED BY <1>1, <1>2, <1>3, <1>4 DEF IsSound

\* The encoders of a program are of types that it interns.
LEMMA EncodersAreKnown ==
  ASSUME NEW p \in Programs
  PROVE  \A k \in EncodersOf(p) : k.fam = "je" /\ Known(p, k)
<1>1. \A s \in Sites(p) : s.type \in Interned(p)
  BY InternedIsClosed
<1> QED BY <1>1 DEF EncodersOf, Key, Known, OfHash

\* A phase that follows another with work of its own.
LEMMA PhaseIsSound ==
  ASSUME NEW w, WorkIsSound(w), NEW phase \in Phases, NEW todo,
         phase \in {"collect", "link"} => \A k \in todo : k.fam \in Walkers,
         phase = "compose" => \A k \in todo : k.fam = "je" /\ Known(w.prog, k)
  PROVE  WorkIsSound([w EXCEPT !.phase = phase, !.todo = todo])
<1> DEFINE v == [w EXCEPT !.phase = phase, !.todo = todo]
<1>1. DOMAIN w = Fields
  BY DEF WorkIsSound
<1>2. /\ DOMAIN v = Fields
      /\ v.phase = phase /\ v.prog = w.prog /\ v.engine = w.engine
      /\ v.asked = w.asked /\ v.rounds = w.rounds /\ v.graph = w.graph /\ v.todo = todo
  BY <1>1 DEF Fields
<1> HIDE DEF v
<1>3. AsksItsOwn(v)
  BY <1>2 DEF AsksItsOwn
<1>4. WorkIsSound(v)
  BY <1>2, <1>3 DEF WorkIsSound, IsSound
<1> QED BY <1>4 DEF v

-----------------------------------------------------------------------------
\* A step of one builder leaves the others alone.
LEMMA OneBuilds ==
  ASSUME BuildsAreSound, NEW b \in Builders, NEW v, v = Idle \/ WorkIsSound(v),
         build' = [build EXCEPT ![b] = v]
  PROVE  BuildsAreSound'
<1>1. DOMAIN build' = Builders /\ build'[b] = v /\ \A c \in Builders \ {b} : build'[c] = build[c]
  BY DEF BuildsAreSound
<1>2. \A c \in Builders : build'[c] = Idle \/ WorkIsSound(build'[c])
  BY <1>1 DEF BuildsAreSound
<1> QED BY <1>1, <1>2 DEF BuildsAreSound, WorkIsSound, AsksItsOwn, IsSound

\* A file is replaced whole, or not at all.
LEMMA WriteIsSound ==
  ASSUME DiskIsSound, CountsAreBounded, UNCHANGED started,
         NEW r, RecordIsSound(r), Write(r) \/ UNCHANGED <<disk, faults>>
  PROVE  DiskIsSound' /\ CountsAreBounded'
<1>1. CASE UNCHANGED <<disk, faults>>
  BY <1>1 DEF DiskIsSound, CountsAreBounded
<1>2. CASE disk' = (disk \ FilesAt(r.file)) \cup {r} /\ UNCHANGED faults
  BY <1>2 DEF DiskIsSound, CountsAreBounded, FilesAt
<1>3. CASE UNCHANGED disk /\ Faulty
  <2>1. faults' \in 0..MaxFaults
    BY <1>3, BoundsAssumption DEF Faulty, CountsAreBounded
  <2> QED BY <1>3, <2>1 DEF DiskIsSound, CountsAreBounded
<1> QED BY <1>1, <1>2, <1>3 DEF Write

\* The jobs of a builder are of its work list.
LEMMA JobsAreListed ==
  ASSUME BuildsAreSound, NEW b \in Builders, NEW phases \in SUBSET Phases, NEW k \in Jobs(b, phases)
  PROVE  /\ WorkIsSound(build[b]) /\ build[b].phase \in phases
         /\ k \in build[b].todo /\ build[b].prog \in Programs
<1>1. k \in build[b].todo /\ build[b].phase \in phases
  BY DEF Jobs, First
<1>2. build[b] # Idle
  BY <1>1 DEF Idle, Phases
<1> QED BY <1>1, <1>2 DEF BuildsAreSound, WorkIsSound

\* The files a builder reads and writes say what some build knew.
LEMMA StepIsSound ==
  ASSUME IInv, NEW b \in Builders, Work(b)
  PROVE  IInv'
<1> DEFINE w == build[b]
<1> USE DEF IInv
<1>0. {"collect", "link"} \in SUBSET Phases /\ {"compose"} \in SUBSET Phases
  BY DEF Phases
<1>1. ASSUME Ignore(b)
      PROVE  IInv'
  <2>1. PICK k \in Requests(b) : build' = [build EXCEPT ![b] = [w EXCEPT !.todo = w.todo \ {k}]]
    BY <1>1 DEF Ignore
  <2>2. WorkIsSound(w) /\ w.phase \in {"collect", "link"}
    BY <1>0, JobsAreListed DEF Requests
  <2>3. WorkIsSound([w EXCEPT !.todo = w.todo \ {k}])
    <3> DEFINE v == [w EXCEPT !.todo = w.todo \ {k}]
    <3>1. /\ DOMAIN w = Fields /\ DOMAIN v = Fields
          /\ v.phase = w.phase /\ v.prog = w.prog /\ v.engine = w.engine
          /\ v.asked = w.asked /\ v.rounds = w.rounds /\ v.graph = w.graph /\ v.todo \subseteq w.todo
      BY <2>2 DEF WorkIsSound, Fields
    <3> HIDE DEF v, w
    <3>2. WorkIsSound(v)
      BY <2>2, <3>1 DEF WorkIsSound, AsksItsOwn, IsSound
    <3> QED BY <3>2 DEF v
  <2> QED BY <1>1, <2>1, <2>3, OneBuilds DEF Ignore, DiskIsSound, CountsAreBounded
<1>2. ASSUME UseOverride(b)
      PROVE  IInv'
  <2>1. PICK k \in Requests(b) :
          build' = [build EXCEPT ![b] = Advance(w, k, RedirectEntry(w, k, OverrideOp(k.fam)), {})]
    BY <1>2 DEF UseOverride
  <2>2. WorkIsSound(w) /\ w.phase \in {"collect", "link"} /\ k \in w.todo
    BY <1>0, JobsAreListed DEF Requests
  <2>3. PICK text : text = Redirect(w.prog, OverrideOp(k.fam), TypeAt(w.prog, k))
    OBVIOUS
  <2>4. RedirectEntry(w, k, OverrideOp(k.fam)) = Entry(k, text)
    BY <2>3 DEF RedirectEntry
  <2>5. Sound(w.prog, k, text)
    BY <2>3, RedirectIsSound
  <2>6. WorkIsSound(Advance(w, k, Entry(k, text), {}))
    BY <2>2, <2>5, AdvanceIsSound
  <2> QED BY <1>2, <2>1, <2>4, <2>6, OneBuilds DEF UseOverride, DiskIsSound, CountsAreBounded
<1>3. ASSUME Reuse(b)
      PROVE  IInv'
  <2>1. PICK k \in Requests(b) :
          /\ ~Ignorable(w, k) /\ ~Replaced(w, k)
          /\ \E r \in Hits(w, k) : build' = [build EXCEPT ![b] = Advance(w, k, Entry(k, r.text), r.codes)]
    BY <1>3 DEF Reuse
  <2>2. /\ WorkIsSound(w) /\ w.phase \in {"collect", "link"} /\ k \in w.todo
        /\ w.prog \in Programs
    BY <1>0, JobsAreListed DEF Requests
  <2>3. PICK r \in Hits(w, k) : build' = [build EXCEPT ![b] = Advance(w, k, Entry(k, r.text), r.codes)]
    BY <2>1
  <2>4. /\ r \in disk /\ r.file = File(w.prog, k) /\ ~k.armed
        /\ Usable(w.prog, TypeAt(w.prog, k), r)
    BY <2>3 DEF Hits, FilesAt
  <2>5. Known(w.prog, k) /\ ~Overridden(w.prog, k.fam, TypeAt(w.prog, k))
    BY <2>1, <2>4 DEF Ignorable, Replaced
  <2>6. Sound(w.prog, k, r.text)
    BY <2>2, <2>4, <2>5, UsableIsSound DEF DiskIsSound
  <2>7. WorkIsSound(Advance(w, k, Entry(k, r.text), r.codes))
    BY <2>2, <2>6, AdvanceIsSound
  <2> QED BY <1>3, <2>3, <2>7, OneBuilds DEF Reuse, DiskIsSound, CountsAreBounded
<1>4. ASSUME Compile(b)
      PROVE  IInv'
  <2>1. PICK k \in Requests(b) :
          /\ ~Ignorable(w, k) /\ ~Replaced(w, k)
          /\ \E text \in {Text(w.prog, k.fam, TypeAt(w.prog, k), k.armed)} :
             \E v \in Verdicts(w, Tested(w.prog, k.fam, TypeAt(w.prog, k))) : \E codes :
                /\ build' = [build EXCEPT ![b] =
                      [Advance(w, k, Entry(k, text), codes)
                          EXCEPT !.engine = v.engine, !.asked = v.asked]]
                /\ Persist(w, k, text, codes)
    BY <1>4 DEF Compile
  <2>2. /\ WorkIsSound(w) /\ w.phase \in {"collect", "link"} /\ k \in w.todo
        /\ w.prog \in Programs
    BY <1>0, JobsAreListed DEF Requests
  <2>3. PICK text, v, codes :
          /\ text = Text(w.prog, k.fam, TypeAt(w.prog, k), k.armed)
          /\ v \in Verdicts(w, Tested(w.prog, k.fam, TypeAt(w.prog, k)))
          /\ build' = [build EXCEPT ![b] =
                [Advance(w, k, Entry(k, text), codes)
                    EXCEPT !.engine = v.engine, !.asked = v.asked]]
          /\ Persist(w, k, text, codes)
    BY <2>1
  <2>4. k.fam \in Walkers /\ Known(w.prog, k)
    BY <2>1, <2>2 DEF WorkIsSound, AsksItsOwn, Ignorable
  <2>5. ~(~k.armed /\ Overridden(w.prog, k.fam, TypeAt(w.prog, k)))
    BY <2>1 DEF Replaced
  <2>6. Sound(w.prog, k, text) /\ text.built = Options(w.prog) /\ ExpandsItsOwn(k.fam, text)
    BY <2>2, <2>3, <2>4, <2>5, WalkIsSound
  <2>7. v.engine \in {"up", "dead"} /\ v.asked \in SUBSET Patterned
    <3>1. w.engine \in {"up", "dead"} /\ w.asked \subseteq Patterned
      BY <2>2 DEF WorkIsSound
    <3>2. Tested(w.prog, k.fam, TypeAt(w.prog, k)) \subseteq Patterned
      BY DEF Tested
    <3> QED BY <2>3, <3>1, <3>2 DEF Verdicts
  <2>8. WorkIsSound([Advance(w, k, Entry(k, text), codes)
                        EXCEPT !.engine = v.engine, !.asked = v.asked])
    <3>1. WorkIsSound(Advance(w, k, Entry(k, text), codes))
      BY <2>2, <2>6, AdvanceIsSound
    <3> QED BY <3>1, <2>7, EngineKeepsSound
  <2>9. BuildsAreSound'
    BY <2>3, <2>8, OneBuilds
  <2>10. PICK r : r = Record(w, k, text, codes)
    OBVIOUS
  <2>11. RecordIsSound(r)
    <3>1. k.fam # "je"
      BY <2>4 DEF Walkers
    <3> QED BY <2>6, <2>10, <3>1 DEF Record, File, RecordIsSound
  <2>12. Write(r) \/ UNCHANGED <<disk, faults>>
    BY <2>3, <2>10 DEF Persist
  <2>13. UNCHANGED started
    BY <1>4 DEF Compile
  <2> QED BY <2>9, <2>11, <2>12, <2>13, WriteIsSound
<1>5. ASSUME Compose(b)
      PROVE  IInv'
  <2>1. build' = [build EXCEPT ![b] = [w EXCEPT !.phase = "compose", !.todo = EncodersOf(w.prog)]]
    BY <1>5 DEF Compose
  <2>2. WorkIsSound(w) /\ w.prog \in Programs
    BY <1>5 DEF Compose, BuildsAreSound, Idle, WorkIsSound
  <2>3. WorkIsSound([w EXCEPT !.phase = "compose", !.todo = EncodersOf(w.prog)])
    BY <1>0, <2>2, EncodersAreKnown, PhaseIsSound
  <2> QED BY <1>5, <2>1, <2>3, OneBuilds DEF Compose, DiskIsSound, CountsAreBounded
<1>6. ASSUME OverrideEncoder(b)
      PROVE  IInv'
  <2>1. PICK k \in Encoders(b) : build' = [build EXCEPT ![b] = Add(w, k, RedirectEntry(w, k, "je"))]
    BY <1>6 DEF OverrideEncoder
  <2>2. WorkIsSound(w) /\ k \in w.todo
    BY <1>0, JobsAreListed DEF Encoders
  <2>3. PICK text : text = Redirect(w.prog, "je", TypeAt(w.prog, k))
    OBVIOUS
  <2>4. RedirectEntry(w, k, "je") = Entry(k, text)
    BY <2>3 DEF RedirectEntry
  <2>5. WorkIsSound(Add(w, k, Entry(k, text)))
    BY <2>2, <2>3, RedirectIsSound, AddIsSound
  <2> QED BY <1>6, <2>1, <2>4, <2>5, OneBuilds DEF OverrideEncoder, DiskIsSound, CountsAreBounded
<1>7. ASSUME ReuseEncoder(b)
      PROVE  IInv'
  <2>1. PICK k \in Encoders(b) :
          \E r \in EncoderHits(w, k) : build' = [build EXCEPT ![b] = Add(w, k, Entry(k, r.text))]
    BY <1>7 DEF ReuseEncoder
  <2>2. /\ WorkIsSound(w) /\ w.phase = "compose" /\ k \in w.todo
        /\ w.prog \in Programs
    BY <1>0, JobsAreListed DEF Encoders
  <2>3. PICK r \in EncoderHits(w, k) : build' = [build EXCEPT ![b] = Add(w, k, Entry(k, r.text))]
    BY <2>1
  <2>4. r \in disk /\ r.file = File(w.prog, k) /\ UsableEncoder(w.prog, TypeAt(w.prog, k), r)
    BY <2>3 DEF EncoderHits, FilesAt
  <2>5. k.fam = "je" /\ Known(w.prog, k)
    BY <2>2 DEF WorkIsSound, AsksItsOwn
  <2>6. Sound(w.prog, k, r.text)
    BY <2>2, <2>4, <2>5, UsableEncoderIsSound DEF DiskIsSound
  <2>7. WorkIsSound(Add(w, k, Entry(k, r.text)))
    BY <2>2, <2>6, AddIsSound
  <2> QED BY <1>7, <2>3, <2>7, OneBuilds DEF ReuseEncoder, DiskIsSound, CountsAreBounded
<1>8. ASSUME BuildEncoder(b)
      PROVE  IInv'
  <2>1. PICK k \in Encoders(b) :
          \E text \in {Encoder(w.prog, TypeAt(w.prog, k), k.armed, PrimitiveIsLive(w, k))} :
             /\ build' = [build EXCEPT ![b] = Add(w, k, Entry(k, text))]
             /\ IF Cacheable(w, k) THEN Write(Record(w, k, text, {})) ELSE UNCHANGED <<disk, faults>>
    BY <1>8 DEF BuildEncoder
  <2>2. /\ WorkIsSound(w) /\ w.phase = "compose" /\ k \in w.todo
        /\ w.prog \in Programs
    BY <1>0, JobsAreListed DEF Encoders
  <2>3. PICK text, live, r :
          /\ live = PrimitiveIsLive(w, k)
          /\ text = Encoder(w.prog, TypeAt(w.prog, k), k.armed, live)
          /\ build' = [build EXCEPT ![b] = Add(w, k, Entry(k, text))]
          /\ r = Record(w, k, text, {})
          /\ Write(r) \/ UNCHANGED <<disk, faults>>
    BY <2>1
  <2>4. k.fam = "je" /\ Known(w.prog, k)
    BY <2>2 DEF WorkIsSound, AsksItsOwn
  <2>5. /\ Sound(w.prog, k, text)
        /\ text.built = Options(w.prog) /\ text.holds = {}
        /\ \A c \in text.calls : c.of = text.of /\ c.id = k.id
    <3>1. PICK p \in Programs : p = w.prog
      BY <2>2
    <3>2. k.fam = "je" /\ Known(p, k) /\ text = Encoder(p, TypeAt(p, k), k.armed, live)
      BY <2>3, <2>4, <3>1
    <3>3. /\ Sound(p, k, text)
          /\ text.built = Options(p) /\ text.holds = {}
          /\ \A c \in text.calls : c.of = text.of /\ c.id = k.id
      BY <3>2, EncoderIsSound
    <3> QED BY <3>1, <3>3
  <2>6. BuildsAreSound'
    BY <2>2, <2>3, <2>5, AddIsSound, OneBuilds
  <2>7. RecordIsSound(r)
    BY <2>3, <2>5 DEF Record, File, RecordIsSound, ExpandsItsOwn
  <2>8. UNCHANGED started
    BY <1>8 DEF BuildEncoder
  <2> QED BY <2>3, <2>6, <2>7, <2>8, WriteIsSound
<1>9. ASSUME Link(b)
      PROVE  IInv'
  <2>1. build' = [build EXCEPT ![b] = [w EXCEPT !.phase = "link"]] /\ w.todo = {}
    BY <1>9 DEF Link
  <2>2. WorkIsSound(w)
    BY <1>9 DEF Link, BuildsAreSound, Idle
  <2>3. WorkIsSound([w EXCEPT !.phase = "link"])
    <3> DEFINE v == [w EXCEPT !.phase = "link"]
    <3>1. /\ DOMAIN w = Fields /\ DOMAIN v = Fields
          /\ v.phase = "link" /\ v.prog = w.prog /\ v.engine = w.engine
          /\ v.asked = w.asked /\ v.rounds = w.rounds /\ v.graph = w.graph /\ v.todo = {}
      BY <2>1, <2>2 DEF WorkIsSound, Fields
    <3> HIDE DEF v, w
    <3>2. WorkIsSound(v)
      BY <2>2, <3>1 DEF WorkIsSound, AsksItsOwn, IsSound, Phases
    <3> QED BY <3>2 DEF v
  <2> QED BY <1>9, <2>1, <2>3, OneBuilds DEF Link, DiskIsSound, CountsAreBounded
<1>10. ASSUME Follow(b)
       PROVE  IInv'
  <2>1. PICK rounds, size, todo :
          /\ build' = [build EXCEPT ![b] = [w EXCEPT !.todo = todo, !.rounds = rounds, !.size = size]]
          /\ todo = Wanted(w.graph)
          /\ rounds = IF w.rounds < MaxRounds THEN w.rounds + 1 ELSE w.rounds
    BY <1>10 DEF Follow
  <2>2. WorkIsSound(w) /\ w.phase = "link"
    BY <1>10 DEF Follow, BuildsAreSound, Idle
  <2>3. WorkIsSound([w EXCEPT !.todo = todo, !.rounds = rounds, !.size = size])
    <3> DEFINE v == [w EXCEPT !.todo = todo, !.rounds = rounds, !.size = size]
    <3>1. /\ DOMAIN w = Fields /\ DOMAIN v = Fields
          /\ v.phase = w.phase /\ v.prog = w.prog /\ v.engine = w.engine
          /\ v.asked = w.asked /\ v.rounds = rounds /\ v.graph = w.graph /\ v.todo = todo
      BY <2>2 DEF WorkIsSound, Fields
    <3>2. \A k \in todo : k.fam \in Walkers
      BY <2>1 DEF Wanted
    <3>3. w.rounds \in 0..MaxRounds /\ MaxRounds \in Nat
      BY <2>2, BoundsAssumption DEF WorkIsSound
    <3>4. rounds \in 0..MaxRounds
      BY <2>1, <3>3
    <3> HIDE DEF v, w
    <3>5. WorkIsSound(v)
      BY <2>2, <3>1, <3>2, <3>4 DEF WorkIsSound, AsksItsOwn, IsSound, Phases
    <3> QED BY <3>5 DEF v
  <2> QED BY <1>10, <2>1, <2>3, OneBuilds DEF Follow, DiskIsSound, CountsAreBounded
<1>11. ASSUME Finish(b)
       PROVE  IInv'
  <2>0. PICK found : found = w.found \cup Breaches(w.prog, w.graph)
    OBVIOUS
  <2>1. PICK demanded, kept, served, whole :
          /\ kept = Cascade(w.graph) /\ served = ServeBuiltins(kept)
          /\ whole = AddMissingStubs(served, demanded)
          /\ build' = [build EXCEPT ![b] =
                [w EXCEPT !.phase = "done", !.graph = Reachable(whole, demanded), !.found = found]]
    <3>1. \E demanded \in {Demanded(w.prog)} :
          \E kept \in {Cascade(w.graph)} :
          \E served \in {ServeBuiltins(kept)} :
          \E whole \in {AddMissingStubs(served, demanded)} :
             build' = [build EXCEPT ![b] =
                [w EXCEPT !.phase = "done", !.graph = Reachable(whole, demanded), !.found = found]]
      BY <1>11, <2>0 DEF Finish
    <3>2. PICK demanded, kept :
            /\ kept = Cascade(w.graph)
            /\ \E served \in {ServeBuiltins(kept)} :
               \E whole \in {AddMissingStubs(served, demanded)} :
                  build' = [build EXCEPT ![b] =
                     [w EXCEPT !.phase = "done", !.graph = Reachable(whole, demanded), !.found = found]]
      BY <3>1
    <3>3. PICK served, whole :
            /\ served = ServeBuiltins(kept) /\ whole = AddMissingStubs(served, demanded)
            /\ build' = [build EXCEPT ![b] =
                  [w EXCEPT !.phase = "done", !.graph = Reachable(whole, demanded), !.found = found]]
      BY <3>2
    <3> QED BY <3>2, <3>3
  <2>2. WorkIsSound(w)
    BY <1>11 DEF Finish, BuildsAreSound, Idle
  <2>3. PICK graph : graph = Reachable(whole, demanded)
    OBVIOUS
  <2>4. IsSound(w.prog, graph)
    BY <2>1, <2>2, <2>3, FinishedIsSound DEF WorkIsSound
  <2>5. WorkIsSound([w EXCEPT !.phase = "done", !.graph = graph, !.found = found])
    <3> DEFINE v == [w EXCEPT !.phase = "done", !.graph = graph, !.found = found]
    <3>1. /\ DOMAIN w = Fields /\ DOMAIN v = Fields
          /\ v.phase = "done" /\ v.prog = w.prog /\ v.engine = w.engine
          /\ v.asked = w.asked /\ v.rounds = w.rounds /\ v.graph = graph
      BY <2>2 DEF WorkIsSound, Fields
    <3> HIDE DEF v, w
    <3>2. WorkIsSound(v)
      BY <2>2, <2>4, <3>1 DEF WorkIsSound, AsksItsOwn
    <3> QED BY <3>2 DEF v
  <2> QED BY <1>11, <2>1, <2>3, <2>5, OneBuilds DEF Finish, DiskIsSound, CountsAreBounded
<1> QED BY <1>1, <1>2, <1>3, <1>4, <1>5, <1>6, <1>7, <1>8, <1>9, <1>10, <1>11 DEF Work

\* A build starts with a work list and a graph of its own.
LEMMA StartIsSound ==
  ASSUME IInv, NEW b \in Builders, NEW p \in Programs, Start(b, p)
  PROVE  IInv'
<1>1. WorkIsSound(Opened(p))
  BY OpenedIsSound
<1>2. build' = [build EXCEPT ![b] = Opened(p)]
  BY DEF Start
<1>3. BuildsAreSound'
  BY <1>1, <1>2, OneBuilds DEF IInv
<1>4. CountsAreBounded'
  BY BoundsAssumption DEF Start, IInv, CountsAreBounded
<1> QED BY <1>3, <1>4 DEF IInv, Start, DiskIsSound

\* A build that is killed leaves nothing but its files.
LEMMA CrashIsSound ==
  ASSUME IInv, NEW b \in Builders, Crash(b)
  PROVE  IInv'
<1>1. BuildsAreSound'
  BY OneBuilds DEF IInv, Crash
<1>2. CountsAreBounded'
  BY BoundsAssumption DEF Crash, Faulty, IInv, CountsAreBounded
<1> QED BY <1>1, <1>2 DEF IInv, Crash, DiskIsSound

\* A damaged file says nothing, and its name is still its own.
LEMMA SpoilIsSound ==
  ASSUME IInv, NEW r \in disk, Spoil(r)
  PROVE  IInv'
<1>1. PICK q : q = [r EXCEPT !.readable = FALSE]
  OBVIOUS
<1>2. disk' = (disk \ {r}) \cup {q}
  BY <1>1 DEF Spoil
<1>3. RecordIsSound(r) /\ \A s \in disk : s.file = r.file => s = r
  BY DEF IInv, DiskIsSound
<1>4. /\ DOMAIN q = DOMAIN r /\ q.readable = FALSE
      /\ q.file = r.file /\ q.text = r.text
  BY <1>1, <1>3 DEF RecordIsSound
<1>5. RecordIsSound(q)
  BY <1>3, <1>4 DEF RecordIsSound, ExpandsItsOwn
<1>6. DiskIsSound'
  BY <1>2, <1>3, <1>4, <1>5 DEF IInv, DiskIsSound
<1>7. CountsAreBounded'
  BY BoundsAssumption DEF Spoil, Faulty, IInv, CountsAreBounded
<1>8. BuildsAreSound'
  BY DEF Spoil, IInv, BuildsAreSound, WorkIsSound, AsksItsOwn, IsSound
<1> QED BY <1>6, <1>7, <1>8 DEF IInv

\* Nothing has been built.
LEMMA InitIsSound == Init => IInv
<1> SUFFICES ASSUME Init PROVE IInv
  OBVIOUS
<1>1. DiskIsSound /\ BuildsAreSound
  BY DEF Init, DiskIsSound, BuildsAreSound
<1>2. CountsAreBounded
  BY BoundsAssumption DEF Init, CountsAreBounded
<1> QED BY <1>1, <1>2 DEF IInv

\* The inductive invariant: every file says what the build that wrote it
\* knew, and every entry of every build is about its own project.
LEMMA InvariantHolds == Spec => []IInv
<1>1. ASSUME IInv, [Next]_vars
      PROVE  IInv'
  <2>1. CASE \E b \in Builders, p \in Programs : Start(b, p)
    BY <1>1, <2>1, StartIsSound
  <2>2. CASE \E b \in Builders : Work(b)
    BY <1>1, <2>2, StepIsSound
  <2>3. CASE \E b \in Builders : Crash(b)
    BY <1>1, <2>3, CrashIsSound
  <2>4. CASE \E r \in disk : Spoil(r)
    BY <1>1, <2>4, SpoilIsSound
  <2>5. CASE UNCHANGED vars
    BY <1>1, <2>5 DEF vars, IInv, DiskIsSound, BuildsAreSound, CountsAreBounded,
                      WorkIsSound, AsksItsOwn, IsSound
  <2> QED BY <1>1, <2>1, <2>2, <2>3, <2>4, <2>5 DEF Next
<1> QED BY <1>1, InitIsSound, PTL DEF Spec

(* The state of the builds and of the cache keeps its shape: a file has    *)
(* one text, and the counters stay within their bounds (disk_store.go).    *)
THEOREM TypeCorrect == Spec => []TypeOK
<1>1. IInv => TypeOK
  BY DEF IInv, TypeOK, DiskIsSound, RecordIsSound, BuildsAreSound, WorkIsSound, CountsAreBounded
<1> QED BY <1>1, InvariantHolds, PTL

(* Whatever a build takes from the cache is about its own project: the     *)
(* text is for the structure its key stands for now, with the options of   *)
(* the build, and every hash baked into it still stands for the structure  *)
(* it was compiled against (tryReadCachedEntry).                           *)
THEOREM TextsCurrent == Spec => []TextsAreCurrent
<1>1. IInv => TextsAreCurrent
  BY DEF IInv, BuildsAreSound, WorkIsSound, IsSound, Sound, TextsAreCurrent, Builds, Functions
<1> QED BY <1>1, InvariantHolds, PTL

(* A type whose operation the project overrides is served by the project's *)
(* function wherever it occurs: no text, cached or not, of another type    *)
(* expands it (overrides are folded into the structural ids).              *)
THEOREM OverridesServed == Spec => []OverridesAreServed
<1>1. IInv => OverridesAreServed
  BY DEF IInv, BuildsAreSound, WorkIsSound, IsSound, Sound, OverridesAreServed, Builds, Functions
<1> QED BY <1>1, InvariantHolds, PTL

-----------------------------------------------------------------------------
\* A function that a walk may ask for: of a type that is interned, and of the
\* primitives only those an encoder that is generated is built from.
Askable(p, k) ==
  /\ k.fam \in Walkers /\ Known(p, k)
  /\ k.fam = "pjs" => \E s \in Sites(p) : /\ s.op = "je" /\ ~Pruned(p, "pjs", s.type)
                                          /\ TypeAt(p, k) \in Reach(s.type)

\* A function that is served without a walk.
Served(p, k) ==
  (\E n \in Builtins : k = PureKey(n)) \/ (\E o \in Overrides(p) : k = PureKey(o.body))

\* An entry of a type calls what a walk of some project calls, if anything.
CallsAsIn(p, e, q) ==
  LET f == e.key.fam
      t == TypeAt(p, e.key)
  IN  \/ Refuses(q, f, t) \/ Identity(f, t)
      \/ \A c \in Called(q, f, t) : Key(p, f, c, FALSE) \in e.hard

\* What a walk owes: nothing, where some walk has no call site to tell.
Owed(p, f, t) == IF TypesAreTold THEN Codes(p, f, t) ELSE {}

\* The entry is what a walk of some project found, and its findings are told.
WalkedIn(w, e, q) ==
  LET f == e.key.fam
      t == TypeAt(w.prog, e.key)
  IN  /\ Sid(q, t) = Sid(w.prog, t)
      /\ ReportAt(Owed(q, f, t), Provenance(w.prog, t)) \subseteq w.found
      /\ CallsAsIn(w.prog, e, q)

Asked(w) == KeysOf(w.graph) \cup w.todo

CallsAskable(p, e) ==
  /\ \A k \in e.hard : k.fam = e.key.fam /\ Askable(p, k)
  /\ \A k \in e.soft : Served(p, k) \/ (k.fam = "val" /\ e.key.fam = "pjs" /\ Askable(p, k))

OfWalk(w, e) ==
  /\ Askable(w.prog, e.key)
  /\ CallsAskable(w.prog, e)
  /\ Replaced(w, e.key) \/ \E q \in Programs : WalkedIn(w, e, q)

OfEncoder(p, e) ==
  /\ e.key \in EncodersOf(p)
  /\ e.hard = {}
  /\ \A k \in e.soft :
        Served(p, k) \/ \E s \in Sites(p) : /\ s.op = "je" /\ ~Pruned(p, "pjs", s.type)
                                            /\ k = Key(p, "pjs", s.type, FALSE)

OfBody(e) == e.key.fam = "pure" /\ e.hard = {} /\ e.soft = {}

EntriesAreWhole(w) ==
  \A e \in w.graph : /\ e.text.kind # "missing"
                     /\ OfWalk(w, e) \/ OfEncoder(w.prog, e) \/ OfBody(e)

\* Whatever an entry calls in its family is there or will be.
CallsAreAsked(w) == \A e \in w.graph : e.hard \subseteq Asked(w)

TodoIsAskable(w) ==
  /\ w.phase = "collect" => \A k \in w.todo : Askable(w.prog, k) \/ k \in RootsOf(w.prog, "pjs")
  /\ w.phase = "compose" => w.todo \subseteq EncodersOf(w.prog)
  /\ w.phase = "link" => \A k \in w.todo : k.fam = "val" /\ Askable(w.prog, k)

RootsAreAsked(w) ==
  \A f \in Walkers : \A k \in RootsOf(w.prog, f) :
     k \in Asked(w) \/ Pruned(w.prog, f, TypeAt(w.prog, k))

EncodersAreAsked(w) == w.phase \in {"compose", "link"} => EncodersOf(w.prog) \subseteq Asked(w)

SoftsAreAsked(w) ==
  w.phase = "link" /\ w.rounds # 0 =>
     \A e \in w.graph : \A k \in e.soft : k.fam = "val" => k \in Asked(w)

BodiesAreThere(w) == \A o \in Overrides(w.prog) : PureKey(o.body) \in KeysOf(w.graph)

FindingsHold(w) ==
  \A d \in w.found :
     d.code = "unverified" \/ \E s \in Sites(w.prog) : s.at = d.at /\ d.code \in About(w.prog, s)

UnderWay(w) ==
  /\ IsFiniteSet(w.graph) /\ (w.phase # "link" => w.rounds = 0)
  /\ EntriesAreWhole(w) /\ CallsAreAsked(w) /\ TodoIsAskable(w)
  /\ RootsAreAsked(w) /\ EncodersAreAsked(w) /\ SoftsAreAsked(w)
  /\ BodiesAreThere(w) /\ FindingsHold(w)

\* What a finished build serves and reports.
AllBound(w) ==
  Demanded(w.prog) \cup UNION {e.hard \cup e.soft : e \in w.graph} \subseteq Rendered(w.graph)

AllTold(w) ==
  \A s \in Sites(w.prog) :
     Told[s.type] = Reach(s.type) =>
        \A f \in Walks(w.prog, s) : ReportAt(Due(w.prog, f, s.type), {s.at}) \subseteq w.found

WorkIsWhole(w) ==
  /\ w.phase \in Phases => UnderWay(w)
  /\ w.phase = "done" => AllBound(w) /\ (TypesAreTold => AllTold(w)) /\ FindingsHold(w)

\* A file is what a walk, or the encoder, of some project made.
RecordIsWhole(r) ==
  /\ r.file.fam \in Walkers =>
        \E q \in Programs, t \in Types :
           /\ r.text = Text(q, r.file.fam, t, r.text.slot.armed)
           /\ Owed(q, r.file.fam, t) \subseteq r.codes
           /\ r.codes \subseteq Codes(q, r.file.fam, t) \cup {"unverified"}
  /\ r.file.fam = "je" => /\ r.text.kind \in {"live", "noop"}
                          /\ \A c \in r.text.calls : c.fam = "pjs"
                          /\ r.text.pure \subseteq {"findCycle"}

Wholeness ==
  /\ \A b \in Builders : build[b] = Idle \/ WorkIsWhole(build[b])
  /\ \A r \in disk : RecordIsWhole(r)

-----------------------------------------------------------------------------
\* A key is of the type it was made for.
LEMMA KeyIsFound ==
  ASSUME NEW p \in Programs, NEW t \in Interned(p), NEW f, NEW a
  PROVE  /\ Known(p, Key(p, f, t, a)) /\ TypeAt(p, Key(p, f, t, a)) = t
         /\ Key(p, f, t, a).fam = f /\ Key(p, f, t, a).armed = a
         /\ Key(p, f, t, a).id = HashOf(p, t)
<1>1. /\ Key(p, f, t, a).fam = f /\ Key(p, f, t, a).armed = a
      /\ Key(p, f, t, a).id = HashOf(p, t)
  BY DEF Key
<1>2. Known(p, Key(p, f, t, a))
  BY <1>1 DEF Known, OfHash
<1>3. TypeAt(p, Key(p, f, t, a)) = t
  BY <1>1, <1>2, TypeIsFound
<1> QED BY <1>1, <1>2, <1>3

\* What a type is built from is built from nothing else.
LEMMA ReachIsTransitive ==
  ASSUME NEW t \in Types, NEW u \in Reach(t)
  PROVE  Reach(u) \subseteq Reach(t)
<1>1. u \in Types /\ Reach(t) \in SUBSET Types /\ \A x \in Reach(t) : Kids[x] \subseteq Reach(t)
  BY ReachIsClosed
<1> QED BY <1>1, ReachNests

\* A search meets nothing but what it can reach.
LEMMA ToldIsReached ==
  ASSUME NEW t \in Types
  PROVE  Told[t] \subseteq Reach(t)
<1>1. PICK depth \in [Told[t] -> 0..(DepthCap + 1)] : IsSearch(t, depth)
  BY SearchAssumption
<1>2. t \in Reach(t) /\ \A v \in Reach(t) : Kids[v] \subseteq Reach(t)
  BY ReachIsClosed
<1> SUFFICES ASSUME Told[t] \ Reach(t) # {} PROVE FALSE
  OBVIOUS
<1> DEFINE D == {depth[u] : u \in Told[t] \ Reach(t)}
<1>3. DepthCap \in Nat /\ \A u \in Told[t] : depth[u] \in Nat
  BY SearchAssumption
<1>4. D \subseteq Nat /\ D # {}
  BY <1>3
<1>5. PICK n \in D : \A m \in D : ~(m < n)
  <2> HIDE DEF D
  <2> QED BY <1>4, LeastNumber
<1>6. PICK u \in Told[t] \ Reach(t) : n = depth[u]
  BY <1>5
<1>7. PICK v \in Told[t] : u \in Kids[v] /\ depth[u] = depth[v] + 1
  BY <1>1, <1>2, <1>6 DEF IsSearch
<1>8. v \notin Reach(t)
  BY <1>2, <1>6, <1>7
<1>9. depth[v] \in D /\ depth[v] < n
  BY <1>3, <1>6, <1>7, <1>8
<1> QED BY <1>5, <1>9

\* No encoder that is generated is built from a primitive that is not.
LEMMA AskableIsRendered ==
  ASSUME EncodersStandAlone, NEW p \in Programs, NEW k, Askable(p, k)
  PROVE  ~Pruned(p, k.fam, TypeAt(p, k))
<1>1. CASE k.fam = "pjs"
  BY <1>1 DEF Askable, EncodersStandAlone
<1>2. CASE k.fam # "pjs"
  BY <1>2 DEF Pruned
<1> QED BY <1>1, <1>2

\* Whoever may ask for a type's function may ask for those of its parts.
LEMMA PartsAreAskable ==
  ASSUME NEW p \in Programs, NEW k, Askable(p, k), NEW c \in Reach(TypeAt(p, k))
  PROVE  /\ c \in Interned(p)
         /\ Askable(p, Key(p, k.fam, c, FALSE)) /\ Askable(p, Key(p, "val", c, FALSE))
<1>1. TypeAt(p, k) \in Interned(p)
  BY TypeIsFound DEF Askable
<1>2. c \in Interned(p)
  BY <1>1, InternedIsClosed
<1>3. ASSUME NEW s \in Sites(p), TypeAt(p, k) \in Reach(s.type)
      PROVE  c \in Reach(s.type)
  <2>1. s.type \in Types
    BY ProjectAssumption
  <2> QED BY <1>3, <2>1, ReachIsTransitive
<1>4. ASSUME NEW f, f = k.fam \/ f = "val"
      PROVE  Askable(p, Key(p, f, c, FALSE))
  <2>1. PICK x : x = Key(p, f, c, FALSE)
    OBVIOUS
  <2>2. Known(p, x) /\ TypeAt(p, x) = c /\ x.fam = f
    <3>1. PICK armed : armed = FALSE
      OBVIOUS
    <3>2. /\ Known(p, Key(p, f, c, armed)) /\ TypeAt(p, Key(p, f, c, armed)) = c
          /\ Key(p, f, c, armed).fam = f
      BY <1>2, KeyIsFound
    <3> QED BY <2>1, <3>1, <3>2
  <2>3. f \in Walkers
    BY <1>4 DEF Askable, Walkers
  <2>4. f = "pjs" => f = k.fam
    BY <1>4
  <2>5. Askable(p, x)
    BY <1>3, <2>2, <2>3, <2>4 DEF Askable
  <2> QED BY <2>1, <2>5
<1> QED BY <1>2, <1>4

\* A walk calls nothing but parts of its type.
LEMMA CallsAreOfParts ==
  ASSUME NEW q \in Programs, NEW f \in Walkers, NEW t \in Types
  PROVE  /\ Region(q, f, t) \subseteq Reach(t)
         /\ Called(q, f, t) \cup Narrowed(q, f, t) \subseteq Reach(t)
<1>1. \A u \in Region(q, f, t) : u \in Reach(t)
  BY RegionIsInlined
<1>2. \A u \in Region(q, f, t) : Kept(f, u) \subseteq Reach(t)
  BY <1>1, ReachIsClosed DEF Kept
<1> QED BY <1>1, <1>2 DEF Called, Narrowed

\* A baked hash that still stands for its id is the key of the type it is of.
LEMMA HashFindsKey ==
  ASSUME NEW p \in Programs, NEW q \in Programs, NEW f, NEW u,
         NEW c, c = CallTo(q, f, u), HasHash(p, c.of, c.id)
  PROVE  u \in Interned(p) /\ KeyOf(c) = Key(p, f, u, FALSE)
<1>1. c.fam = f /\ c.of = Sid(q, u)
  BY DEF CallTo
<1>2. PICK x \in Interned(p) : Sid(p, x) = Sid(q, u) /\ HashOf(p, x) = c.id
  BY <1>1 DEF HasHash
<1>3. x = u
  BY <1>2, SidTells
<1> QED BY <1>1, <1>2, <1>3 DEF KeyOf, Key

\* Two texts with one structural id are of one type.
LEMMA SidIsOfType ==
  ASSUME NEW p, NEW q, NEW t, NEW u, Sid(p, t) = Sid(q, u)
  PROVE  t = u
BY SidTells

\* What an entry calls, when its text was made by a walk of a project in which
\* the type is the same and every baked hash still stands for its id.
LEMMA TextIsWhole ==
  ASSUME BuiltinsAreServed, NEW p \in Programs, NEW q \in Programs, NEW k, Askable(p, k),
         NEW armed, NEW text, text = Text(q, k.fam, TypeAt(p, k), armed),
         \A c \in text.calls : HasHash(p, c.of, c.id),
         NEW e, e = Entry(k, text)
  PROVE  /\ e.key = k /\ e.text = text /\ text.kind # "missing"
         /\ CallsAskable(p, e) /\ CallsAsIn(p, e, q)
<1> DEFINE t == TypeAt(p, k)
           f == k.fam
<1>1. t \in Interned(p) /\ t \in Types /\ f \in Walkers
  BY TypeIsFound, InternedIsClosed DEF Askable
<1>2. /\ e.key = k /\ e.text = text
      /\ e.hard = {KeyOf(c) : c \in {x \in text.calls : x.fam = f}}
      /\ e.soft = {KeyOf(c) : c \in {x \in text.calls : x.fam # f}} \cup {PureKey(n) : n \in text.pure}
  BY DEF Entry
<1>3. text.kind \in {"throws", "noop", "live"}
  BY DEF Text
<1>4. Called(q, f, t) \cup Narrowed(q, f, t) \subseteq Reach(t)
  BY <1>1, CallsAreOfParts
<1>5. \A c \in text.calls : \/ \E u \in Called(q, f, t) : c = CallTo(q, f, u)
                            \/ \E u \in Narrowed(q, f, t) : c = CallTo(q, "val", u)
  BY DEF Text
<1>6. text.pure \subseteq {u[3] : u \in Used} \cup {"findCycle"}
  BY DEF Text
<1>7. ASSUME NEW c \in text.calls
      PROVE  Askable(p, KeyOf(c)) /\ KeyOf(c).fam \in {f, "val"} /\ KeyOf(c).fam = c.fam
  <2>1. PICK g, u : u \in Reach(t) /\ c = CallTo(q, g, u) /\ g \in {f, "val"}
    BY <1>4, <1>5
  <2>2. u \in Interned(p) /\ KeyOf(c) = Key(p, g, u, FALSE)
    <3>1. HasHash(p, c.of, c.id) /\ c = CallTo(q, g, u)
      BY <2>1
    <3> QED BY <3>1, HashFindsKey, Zenon
  <2>3. Askable(p, Key(p, f, u, FALSE)) /\ Askable(p, Key(p, "val", u, FALSE))
    BY <2>1, PartsAreAskable
  <2>4. Askable(p, KeyOf(c))
    BY <2>1, <2>2, <2>3
  <2> QED BY <2>1, <2>4 DEF KeyOf, CallTo
<1>8. CallsAskable(p, e)
  <2>1. \A k1 \in e.hard : k1.fam = e.key.fam /\ Askable(p, k1)
    BY <1>2, <1>7
  <2>2. ASSUME NEW k1 \in e.soft, ~Served(p, k1)
        PROVE  k1.fam = "val" /\ e.key.fam = "pjs" /\ Askable(p, k1)
    <3>1. \A n \in text.pure : Served(p, PureKey(n))
      BY <1>6 DEF Served, BuiltinsAreServed
    <3>2. PICK c \in text.calls : c.fam # f /\ k1 = KeyOf(c)
      BY <1>2, <2>2, <3>1
    <3> QED BY <1>1, <1>2, <1>7, <3>2 DEF Walkers
  <2> QED BY <2>1, <2>2 DEF CallsAskable
<1>9. ASSUME ~Refuses(q, f, t), ~Identity(f, t), NEW c \in Called(q, f, t)
      PROVE  Key(p, f, c, FALSE) \in e.hard
  <2>1. PICK call \in text.calls : call = CallTo(q, f, c)
    BY <1>9 DEF Text
  <2>2. HasHash(p, call.of, call.id) /\ call.fam = f
    BY <2>1 DEF CallTo
  <2>3. KeyOf(call) = Key(p, f, c, FALSE)
    <3>1. call = CallTo(q, f, c) /\ HasHash(p, call.of, call.id)
      BY <2>1, <2>2
    <3> HIDE DEF f
    <3> QED BY <3>1, HashFindsKey, Zenon
  <2> QED BY <1>2, <2>2, <2>3
<1>10. CallsAsIn(p, e, q)
  BY <1>2, <1>9 DEF CallsAsIn
<1> QED BY <1>2, <1>3, <1>8, <1>10

\* What a walk finds is about the call sites that are told of it.
LEMMA FoundIsAbout ==
  ASSUME NEW p \in Programs, NEW q \in Programs, NEW f \in Walkers, NEW t \in Interned(p),
         NEW codes \in SUBSET (Codes(q, f, t) \cup {"unverified"}),
         NEW d \in ReportAt(codes, Provenance(p, t))
  PROVE  d.code = "unverified" \/ \E s \in Sites(p) : s.at = d.at /\ d.code \in About(p, s)
<1>1. t \in Types
  BY InternedIsClosed
<1>2. PICK s \in Sites(p) : t \in Reach(s.type) /\ d.at = s.at /\ d.code \in codes
  <2>1. PICK s \in Sites(p) : t \in Told[s.type] /\ d.at = s.at /\ d.code \in codes
    BY DEF ReportAt, Provenance
  <2>2. s.type \in Types
    BY ProjectAssumption
  <2> QED BY <2>1, <2>2, ToldIsReached
<1>3. Region(q, f, t) \subseteq Reach(s.type)
  <2>1. s.type \in Types
    BY ProjectAssumption
  <2> QED BY <1>1, <1>2, <2>1, ReachIsTransitive, CallsAreOfParts
<1>4. ASSUME d.code \in Codes(q, f, t)
      PROVE  d.code \in About(p, s)
  <2>1. CASE Refuses(q, f, t)
    <3>1. d.code = "refused"
      BY <1>4, <2>1 DEF Codes
    <3>2. PICK u \in Region(q, f, t) : <<f, u>> \in Refused
      BY <2>1 DEF Refuses
    <3>3. u \in {x \in Reach(s.type) : \E g \in Walkers : <<g, x>> \in Refused}
      BY <1>3, <3>2
    <3>4. "refused" \in {"refused" : x \in {y \in Reach(s.type) : \E g \in Walkers : <<g, y>> \in Refused}}
      BY <3>3
    <3> QED BY <3>1, <3>4 DEF About
  <2>2. CASE ~Refuses(q, f, t)
    <3>1. \/ \E w \in Warned : w[1] = f /\ w[2] \in Region(q, f, t) /\ d.code = w[3]
          \/ d.code = "omitted" /\ \E u \in Region(q, f, t) : Stripped(f, u) # {}
      BY <1>4, <2>2 DEF Codes
    <3>2. ASSUME NEW w \in Warned, w[2] \in Region(q, f, t), d.code = w[3]
          PROVE  d.code \in About(p, s)
      <4>1. d.code \in {x[3] : x \in {y \in Warned : y[2] \in Reach(s.type)}}
        BY <1>3, <3>2
      <4> QED BY <4>1 DEF About
    <3>3. ASSUME d.code = "omitted", NEW u \in Region(q, f, t), Stripped(f, u) # {}
          PROVE  d.code \in About(p, s)
      <4>1. u \in {x \in Reach(s.type) : \E g \in Walkers : Stripped(g, x) # {}}
        BY <1>3, <3>3
      <4>2. "omitted" \in {"omitted" : x \in {y \in Reach(s.type) : \E g \in Walkers : Stripped(g, y) # {}}}
        BY <4>1
      <4> QED BY <3>3, <4>2 DEF About
    <3> QED BY <3>1, <3>2, <3>3
  <2> QED BY <2>1, <2>2
<1> QED BY <1>2, <1>4

-----------------------------------------------------------------------------
\* What a walk from a type meets is closed under the parts it goes on to.
LEMMA MetIsClosed ==
  ASSUME NEW p \in Programs, NEW f \in Walkers, NEW t \in Types
  PROVE  /\ t \in Met(p, f, t) /\ Met(p, f, t) \subseteq Reach(t)
         /\ \A u \in Met(p, f, t) : \A c \in Kept(f, u) : ~Overridden(p, f, c) => c \in Met(p, f, t)
         /\ \A S \in SUBSET Types :
               t \in S /\ (\A u \in S : \A c \in Kept(f, u) : ~Overridden(p, f, c) => c \in S)
               => Met(p, f, t) \subseteq S
<1> DEFINE next == [u \in Types |-> {c \in Kept(f, u) : ~Overridden(p, f, c)}]
<1>1. IsFiniteSet(Types) /\ Kids \in [Types -> SUBSET Types]
  BY GraphAssumption
<1>2. \A u \in Types : Kept(f, u) \subseteq Kids[u] /\ Kids[u] \subseteq Types
  BY <1>1 DEF Kept
<1>3. next \in [Types -> SUBSET Types]
  BY <1>2
<1>4. \A u \in Types : next[u] = {c \in Kept(f, u) : ~Overridden(p, f, c)}
  OBVIOUS
<1>5. Met(p, f, t) = Closure(next, {t})
  BY DEF Met
<1> HIDE DEF next
<1>6. {t} \in SUBSET Types
  OBVIOUS
<1>7. /\ {t} \subseteq Closure(next, {t})
      /\ Closure(next, {t}) \subseteq Types
      /\ \A u \in Closure(next, {t}) : next[u] \subseteq Closure(next, {t})
  BY <1>1, <1>3, <1>6, ClosureIsClosed
<1>8. ASSUME NEW S \in SUBSET Types, t \in S,
             \A u \in S : \A c \in Kept(f, u) : ~Overridden(p, f, c) => c \in S
      PROVE  Closure(next, {t}) \subseteq S
  <2>1. {t} \subseteq S /\ \A u \in S \cap Types : next[u] \subseteq S
    BY <1>4, <1>8
  <2> QED BY <1>1, <1>3, <1>6, <2>1, ClosureIsLeast
<1>9. Closure(next, {t}) \subseteq Reach(t)
  <2>1. Reach(t) \in SUBSET Types /\ t \in Reach(t) /\ \A u \in Reach(t) : Kids[u] \subseteq Reach(t)
    BY ReachIsClosed
  <2>2. \A u \in Reach(t) : \A c \in Kept(f, u) : ~Overridden(p, f, c) => c \in Reach(t)
    BY <1>2, <2>1
  <2> QED BY <1>8, <2>1, <2>2
<1>10. \A u \in Closure(next, {t}) : \A c \in Kept(f, u) :
          ~Overridden(p, f, c) => c \in Closure(next, {t})
  BY <1>4, <1>7
<1> QED BY <1>5, <1>7, <1>8, <1>9, <1>10

\* What a text expands is closed under the parts it inlines.
LEMMA RegionIsClosed ==
  ASSUME NEW p \in Programs, NEW f \in Walkers, NEW t \in Types
  PROVE  /\ t \in Region(p, f, t)
         /\ \A u \in Region(p, f, t) : \A c \in Kept(f, u) : ~External(p, f, c) => c \in Region(p, f, t)
         /\ \A S \in SUBSET Types :
               t \in S /\ (\A u \in S : \A c \in Kept(f, u) : ~External(p, f, c) => c \in S)
               => Region(p, f, t) \subseteq S
<1> DEFINE next == Inlined(p, f)
<1>1. IsFiniteSet(Types) /\ Kids \in [Types -> SUBSET Types]
  BY GraphAssumption
<1>2. next \in [Types -> SUBSET Types]
  BY <1>1 DEF Inlined, Kept
<1>3. \A u \in Types : next[u] = {c \in Kept(f, u) : ~External(p, f, c)}
  BY DEF Inlined
<1>4. Region(p, f, t) = Closure(next, {t})
  BY DEF Region, Regions
<1> HIDE DEF next
<1>5. {t} \in SUBSET Types
  OBVIOUS
<1>6. /\ {t} \subseteq Closure(next, {t})
      /\ Closure(next, {t}) \subseteq Types
      /\ \A u \in Closure(next, {t}) : next[u] \subseteq Closure(next, {t})
  BY <1>1, <1>2, <1>5, ClosureIsClosed
<1>7. ASSUME NEW S \in SUBSET Types, t \in S,
             \A u \in S : \A c \in Kept(f, u) : ~External(p, f, c) => c \in S
      PROVE  Closure(next, {t}) \subseteq S
  <2>1. {t} \subseteq S /\ \A u \in S \cap Types : next[u] \subseteq S
    BY <1>3, <1>7
  <2> QED BY <1>1, <1>2, <1>5, <2>1, ClosureIsLeast
<1>8. \A u \in Closure(next, {t}) : \A c \in Kept(f, u) :
         ~External(p, f, c) => c \in Closure(next, {t})
  BY <1>3, <1>6
<1>9. \A S \in SUBSET Types :
         t \in S /\ (\A u \in S : \A c \in Kept(f, u) : ~External(p, f, c) => c \in S)
         => Closure(next, {t}) \subseteq S
  BY <1>7
<1> QED BY <1>4, <1>6, <1>8, <1>9

\* A text that was made where a type is the same expands what is met from it.
LEMMA RegionIsMet ==
  ASSUME NEW p \in Programs, NEW q \in Programs, NEW f \in Walkers, NEW t \in Types,
         NEW u \in Met(p, f, t), Sid(q, u) = Sid(p, u)
  PROVE  Region(q, f, u) \subseteq Met(p, f, t)
<1> DEFINE S == Met(p, f, t) \cap Reach(u)
<1>1. /\ Met(p, f, t) \subseteq Reach(t) /\ Reach(t) \subseteq Types
      /\ \A x \in Met(p, f, t) : \A c \in Kept(f, x) : ~Overridden(p, f, c) => c \in Met(p, f, t)
  BY MetIsClosed, ReachIsClosed
<1>2. u \in Types /\ u \in Reach(u) /\ \A x \in Reach(u) : Kids[x] \subseteq Reach(u)
  BY <1>1, ReachIsClosed
<1>3. \A c \in Reach(u) : Overridden(p, f, c) => Overridden(q, f, c)
  BY SidTells
<1>4. ASSUME NEW x \in S, NEW c \in Kept(f, x), ~External(q, f, c)
      PROVE  c \in S
  <2>1. c \in Reach(u)
    BY <1>2, <1>4 DEF Kept
  <2>2. ~Overridden(p, f, c)
    BY <1>3, <1>4, <2>1 DEF External
  <2> QED BY <1>1, <1>4, <2>1, <2>2
<1>5. S \in SUBSET Types /\ u \in S
  BY <1>1, <1>2
<1>6. Region(q, f, u) \subseteq S
  <2>1. \A x \in S : \A c \in Kept(f, x) : ~External(q, f, c) => c \in S
    BY <1>4
  <2> HIDE DEF S
  <2>2. \A X \in SUBSET Types :
          u \in X /\ (\A x \in X : \A c \in Kept(f, x) : ~External(q, f, c) => c \in X)
          => Region(q, f, u) \subseteq X
    BY <1>2, RegionIsClosed
  <2> QED BY <1>5, <2>1, <2>2
<1> QED BY <1>6

\* An entry that holds what a walk from a type found.
Holder(w, f, t, e, q) ==
  /\ e \in w.graph /\ q \in Programs
  /\ e.key.fam = f /\ Known(w.prog, e.key) /\ TypeAt(w.prog, e.key) = t
  /\ WalkedIn(w, e, q)

\* A function that is present, and not the project's own, is held.
LEMMA PresentIsHeld ==
  ASSUME NEW w, EntriesAreWhole(w), NEW p \in Programs, w.prog = p, NEW f \in Walkers,
         NEW t \in Interned(p), NEW a, Key(p, f, t, a) \in KeysOf(w.graph),
         a \/ ~Overridden(p, f, t)
  PROVE  \E e, q : Holder(w, f, t, e, q) /\ e.key = Key(p, f, t, a)
<1>1. PICK e \in w.graph : e.key = Key(p, f, t, a)
  BY DEF KeysOf
<1>2. Known(p, e.key) /\ TypeAt(p, e.key) = t /\ e.key.fam = f /\ e.key.armed = a
  BY <1>1, KeyIsFound
<1>3. e.key.fam # "je" /\ e.key.fam # "pure"
  BY <1>2 DEF Walkers
<1>4. OfWalk(w, e)
  <2>1. ~OfEncoder(p, e)
    BY <1>3 DEF OfEncoder, EncodersOf, Key
  <2> QED BY <1>3, <2>1 DEF EntriesAreWhole, OfBody
<1>5. ~Replaced(w, e.key)
  BY <1>2 DEF Replaced
<1>6. PICK q \in Programs : WalkedIn(w, e, q)
  BY <1>4, <1>5 DEF OfWalk
<1> QED BY <1>1, <1>2, <1>6 DEF Holder

\* What an entry holds is about its type, and about what this build knows of
\* the type's parts.
LEMMA HeldIsOwn ==
  ASSUME NEW w, NEW p \in Programs, w.prog = p, NEW f \in Walkers,
         NEW t, NEW e, NEW q, Holder(w, f, t, e, q)
  PROVE  /\ t \in Interned(p) /\ t \in Types /\ q \in Programs /\ e \in w.graph
         /\ Sid(q, t) = Sid(p, t)
         /\ \A c \in Reach(t) : Overridden(q, f, c) <=> Overridden(p, f, c)
         /\ ReportAt(Owed(q, f, t), Provenance(p, t)) \subseteq w.found
<1>1. Known(p, e.key) /\ TypeAt(p, e.key) = t /\ q \in Programs /\ e \in w.graph /\ e.key.fam = f
  BY DEF Holder
<1>2. t \in Interned(p)
  BY <1>1, TypeIsFound
<1>3. t \in Types
  BY <1>2, InternedIsClosed
<1>4. /\ Sid(q, t) = Sid(p, t)
      /\ ReportAt(Owed(q, f, t), Provenance(p, t)) \subseteq w.found
  BY <1>1 DEF Holder, WalkedIn
<1>5. \A c \in Reach(t) : Overridden(q, f, c) <=> Overridden(p, f, c)
  BY <1>4, SidTells
<1> QED BY <1>1, <1>2, <1>3, <1>4, <1>5

\* When nothing is left to do, whatever a text that is held goes on to is held
\* as well, by it or by what it calls, unless JSON carries it as it is.
LEMMA HoldingGoesOn ==
  ASSUME NEW w, EntriesAreWhole(w), CallsAreAsked(w), w.todo = {},
         NEW p \in Programs, w.prog = p, NEW f \in Walkers,
         NEW t, NEW e, NEW q, Holder(w, f, t, e, q), ~Refuses(q, f, t),
         NEW u \in Region(q, f, t), NEW c \in Kept(f, u), ~Overridden(p, f, c)
  PROVE  \/ c \in Region(q, f, t)
         \/ \E d, r : Holder(w, f, c, d, r)
         \/ f = "pjs" /\ Reach(c) \subseteq Plain
<1>1. /\ t \in Interned(p) /\ t \in Types /\ q \in Programs /\ e \in w.graph
      /\ \A x \in Reach(t) : Overridden(q, f, x) <=> Overridden(p, f, x)
  BY HeldIsOwn
<1>2. u \in Reach(t) /\ c \in Reach(t)
  <2>1. u \in Reach(t)
    BY <1>1, RegionIsInlined
  <2> QED BY <2>1, <1>1, ReachIsClosed DEF Kept
<1>3. Reach(c) \subseteq Reach(t) /\ c \in Interned(p)
  BY <1>1, <1>2, ReachIsTransitive, InternedIsClosed
<1>4. CASE ~External(q, f, c)
  BY <1>1, <1>4, RegionIsClosed
<1>5. CASE External(q, f, c)
  <2>1. CASE Composed(q, f, c) \/ Identity(f, t)
    BY <1>3, <2>1 DEF Composed, Identity
  <2>2. CASE ~Composed(q, f, c) /\ ~Identity(f, t)
    <3>1. c \in Called(q, f, t)
      BY <1>5, <2>2 DEF Called
    <3>2. Key(p, f, c, FALSE) \in e.hard
      BY <2>2, <3>1 DEF Holder, WalkedIn, CallsAsIn
    <3>3. Key(p, f, c, FALSE) \in KeysOf(w.graph)
      BY <1>1, <3>2 DEF CallsAreAsked, Asked
    <3>4. PICK armed : armed = FALSE
      OBVIOUS
    <3>5. Key(p, f, c, armed) \in KeysOf(w.graph) /\ ~Overridden(p, f, c)
      BY <3>3, <3>4
    <3>6. \E d, r : Holder(w, f, c, d, r)
      BY <1>3, <3>5, PresentIsHeld
    <3> QED BY <3>6
  <2> QED BY <2>1, <2>2
<1> QED BY <1>4, <1>5

\* The function a call site demands, or its encoder binds, is held.
LEMMA RootIsHeld ==
  ASSUME NEW w, EntriesAreWhole(w), RootsAreAsked(w), w.todo = {},
         NEW p \in Programs, w.prog = p, NEW s \in Sites(p), NEW f \in Walks(p, s)
  PROVE  f \in Walkers /\ s.type \in Interned(p) /\ \E e, q : Holder(w, f, s.type, e, q)
<1>1. /\ f \in Walkers /\ s.type \in Interned(p) /\ s.op \in {"val", "je"}
  BY InternedIsClosed, ProjectAssumption DEF Walks
<1>2. PICK armed : armed = IF f = "val" THEN s.armed ELSE FALSE
  OBVIOUS
<1>3. Key(p, f, s.type, armed) \in RootsOf(p, f)
  BY <1>1, <1>2 DEF Walks, RootsOf, Walkers
<1>4. TypeAt(p, Key(p, f, s.type, armed)) = s.type
  BY <1>1, KeyIsFound
<1>5. ~Pruned(p, f, s.type)
  BY <1>1 DEF Walks, Pruned
<1>6. Key(p, f, s.type, armed) \in KeysOf(w.graph)
  BY <1>1, <1>3, <1>4, <1>5 DEF RootsAreAsked, Asked
<1>7. armed \/ ~Overridden(p, f, s.type)
  <2>1. CASE f = "val"
    <3>1. s.op = "val"
      BY <2>1, <1>1 DEF Walks
    <3> QED BY <2>1, <3>1, <1>2 DEF Walks
  <2>2. CASE f = "pjs"
    <3>1. \A o \in Overrides(p) : o.op # "none"
      BY ProjectAssumption
    <3> QED BY <2>2, <3>1 DEF Overridden, OverrideOp, Bodies
  <2> QED BY <1>1, <2>1, <2>2 DEF Walkers
<1>8. \E e, q : Holder(w, f, s.type, e, q)
  BY <1>1, <1>6, <1>7, PresentIsHeld
<1> QED BY <1>1, <1>8

\* When nothing is left to do, a call site whose search is not cut has been
\* told of everything a walk from its type meets.
LEMMA AllIsTold ==
  ASSUME TypesAreTold, NEW w, EntriesAreWhole(w), CallsAreAsked(w), RootsAreAsked(w), w.todo = {},
         NEW p \in Programs, w.prog = p, NEW s \in Sites(p), NEW f \in Walks(p, s),
         Told[s.type] = Reach(s.type)
  PROVE  ReportAt(Due(p, f, s.type), {s.at}) \subseteq w.found
<1> DEFINE M == Met(p, f, s.type)
           held(u) == \E t \in M : \E e, q : Holder(w, f, t, e, q) /\ u \in Region(q, f, t)
           plain(u) == f = "pjs" /\ Reach(u) \subseteq Plain
<1>1. /\ f \in Walkers /\ s.type \in Interned(p) /\ s.type \in Types
      /\ \E e, q : Holder(w, f, s.type, e, q)
  BY RootIsHeld, InternedIsClosed
<1>2. /\ s.type \in M /\ M \subseteq Reach(s.type) /\ M \subseteq Types
      /\ \A u \in M : \A c \in Kept(f, u) : ~Overridden(p, f, c) => c \in M
  <2>1. /\ s.type \in M /\ M \subseteq Reach(s.type)
        /\ \A u \in M : \A c \in Kept(f, u) : ~Overridden(p, f, c) => c \in M
    BY <1>1, MetIsClosed
  <2> QED BY <1>1, <2>1, ReachIsClosed
<1>3. ASSUME NEW t \in M, NEW e, NEW q, Holder(w, f, t, e, q)
      PROVE  /\ q \in Programs /\ t \in Types
             /\ Region(q, f, t) \subseteq M
             /\ \A c \in Codes(q, f, t) : [code |-> c, at |-> s.at] \in w.found
  <2>1. /\ t \in Types /\ q \in Programs /\ Sid(q, t) = Sid(p, t)
        /\ ReportAt(Owed(q, f, t), Provenance(p, t)) \subseteq w.found
    <3>1. f \in Walkers /\ Holder(w, f, t, e, q)
      BY <1>1, <1>3
    <3>2. /\ t \in Interned(p) /\ t \in Types /\ q \in Programs /\ e \in w.graph
          /\ Sid(q, t) = Sid(p, t)
          /\ \A c \in Reach(t) : Overridden(q, f, c) <=> Overridden(p, f, c)
          /\ ReportAt(Owed(q, f, t), Provenance(p, t)) \subseteq w.found
      BY <3>1, HeldIsOwn
    <3> QED BY <3>2
  <2>2. Region(q, f, t) \subseteq M
    BY <1>1, <2>1, RegionIsMet
  <2>3. s.at \in Provenance(p, t)
    BY <1>2 DEF Provenance
  <2>4. \A c \in Codes(q, f, t) : [code |-> c, at |-> s.at] \in w.found
    BY <2>1, <2>3 DEF ReportAt, Owed
  <2> QED BY <2>1, <2>2, <2>4
<1>4. SUFFICES ASSUME NEW code \in Due(p, f, s.type)
               PROVE  [code |-> code, at |-> s.at] \in w.found
  BY DEF ReportAt
<1>5. CASE \E t \in M : \E e, q : Holder(w, f, t, e, q) /\ Refuses(q, f, t)
  <2>1. PICK t, e, q : t \in M /\ Holder(w, f, t, e, q) /\ Refuses(q, f, t)
    BY <1>5
  <2>2. \E u \in M : <<f, u>> \in Refused
    BY <1>3, <2>1 DEF Refuses
  <2>3. code = "refused"
    BY <2>2 DEF Due
  <2>4. "refused" \in Codes(q, f, t)
    BY <2>1 DEF Codes
  <2> QED BY <1>3, <2>1, <2>3, <2>4
<1>6. CASE \A t \in M : \A e, q : Holder(w, f, t, e, q) => ~Refuses(q, f, t)
  <2> DEFINE S == {u \in M : held(u) \/ plain(u)}
  <2>1. s.type \in S
    BY <1>1, <1>2, <1>3, RegionIsClosed
  <2>2. ASSUME NEW u \in S, NEW c \in Kept(f, u), ~Overridden(p, f, c)
        PROVE  c \in S
    <3>1. u \in M /\ u \in Types /\ c \in M /\ c \in Types /\ c \in Kids[u]
      BY <1>2, <2>2 DEF Kept
    <3>2. CASE plain(u)
      <4>1. Reach(c) \subseteq Reach(u)
        BY <3>1, ReachIsClosed, ReachIsTransitive
      <4> QED BY <3>1, <3>2, <4>1
    <3>3. CASE held(u)
      <4>1. PICK t, e, q : t \in M /\ Holder(w, f, t, e, q) /\ u \in Region(q, f, t)
        BY <3>3
      <4>2. ~Refuses(q, f, t)
        BY <1>6, <4>1
      <4>3. \/ c \in Region(q, f, t)
            \/ \E d, r : Holder(w, f, c, d, r)
            \/ f = "pjs" /\ Reach(c) \subseteq Plain
        BY <1>1, <2>2, <4>1, <4>2, HoldingGoesOn
      <4>4. CASE \E d, r : Holder(w, f, c, d, r)
        BY <1>1, <1>3, <3>1, <4>4, RegionIsClosed
      <4> QED BY <3>1, <4>1, <4>3, <4>4
    <3> QED BY <2>2, <3>2, <3>3
  <2>3. M \subseteq S
    <3>1. S \in SUBSET Types /\ \A u \in S : \A c \in Kept(f, u) : ~Overridden(p, f, c) => c \in S
      BY <1>2, <2>2
    <3>2. \A X \in SUBSET Types :
            s.type \in X /\ (\A u \in X : \A c \in Kept(f, u) : ~Overridden(p, f, c) => c \in X)
            => M \subseteq X
      BY <1>1, MetIsClosed
    <3> HIDE DEF S, M
    <3> QED BY <2>1, <3>1, <3>2
  <2>4. ASSUME NEW u \in M, held(u), \/ \E x \in Warned : x[1] = f /\ x[2] = u /\ x[3] = code
                                     \/ code = "omitted" /\ Stripped(f, u) # {}
        PROVE  [code |-> code, at |-> s.at] \in w.found
    <3>1. PICK t, e, q : t \in M /\ Holder(w, f, t, e, q) /\ u \in Region(q, f, t)
      BY <2>4
    <3>2. ~Refuses(q, f, t)
      BY <1>6, <3>1
    <3>3. code \in Codes(q, f, t)
      BY <2>4, <3>1, <3>2 DEF Codes
    <3> QED BY <1>3, <3>1, <3>3
  <2>5. ASSUME NEW u \in M, plain(u)
        PROVE  /\ ~\E x \in Warned : x[1] = f /\ x[2] = u
               /\ Stripped(f, u) = {} /\ <<f, u>> \notin Refused
    <3>1. u \in Reach(u) /\ Kids[u] \subseteq Reach(u)
      BY <1>2, ReachIsClosed
    <3>2. \A x \in Warned : x[1] = "pjs" => x[2] \notin Plain
      BY GraphAssumption
    <3>3. \A c \in Plain : <<"pjs", c>> \notin Refused
      <4>1. \A r \in Refused : r[1] = "pjs" => r[2] \notin Plain
        BY GraphAssumption
      <4> QED BY <4>1
    <3> QED BY <2>5, <3>1, <3>2, <3>3 DEF Stripped
  <2>6. \A u \in M : <<f, u>> \notin Refused
    <3>1. \A u \in M : held(u) => <<f, u>> \notin Refused
      BY <1>6 DEF Refuses
    <3> QED BY <2>3, <2>5, <3>1
  <2>7. PICK u \in M : \/ \E x \in Warned : x[1] = f /\ x[2] = u /\ x[3] = code
                       \/ code = "omitted" /\ Stripped(f, u) # {}
    BY <2>6 DEF Due
  <2>8. held(u)
    BY <2>3, <2>5, <2>7
  <2> QED BY <2>4, <2>7, <2>8
<1> QED BY <1>5, <1>6

-----------------------------------------------------------------------------
\* When nothing is left to do or to follow, whatever an entry calls is there,
\* or is a function of the table; so is whatever a call site demands.
LEMMA CallsAreThere ==
  ASSUME NEW w, UnderWay(w), w.phase = "link", w.todo = {}, ~Follows(w),
         w.rounds \in 0..MaxRounds, NEW p \in Programs, w.prog = p
  PROVE  /\ \A e \in w.graph : /\ e.text.kind # "missing" /\ e.hard \subseteq KeysOf(w.graph)
                               /\ \A k \in e.soft : \/ k \in KeysOf(w.graph)
                                                    \/ \E n \in Builtins : k = PureKey(n)
         /\ Demanded(p) \subseteq KeysOf(w.graph)
         /\ Unbound(w.graph) = {}
<1> DEFINE K == KeysOf(w.graph)
<1>1. Asked(w) = K
  BY DEF Asked
<1>2. ASSUME NEW f \in Walkers, NEW k \in RootsOf(p, f), ~Pruned(p, f, TypeAt(p, k))
      PROVE  k \in K
  BY <1>1, <1>2 DEF UnderWay, RootsAreAsked
<1>3. ASSUME NEW s \in Sites(p), s.op = "je", ~Pruned(p, "pjs", s.type)
      PROVE  Key(p, "pjs", s.type, FALSE) \in K
  <2>1. s.type \in Interned(p) /\ "pjs" \in Walkers
    BY InternedIsClosed DEF Walkers
  <2>2. PICK a : a = FALSE
    OBVIOUS
  <2>3. TypeAt(p, Key(p, "pjs", s.type, a)) = s.type
    BY <2>1, KeyIsFound
  <2>4. Key(p, "pjs", s.type, a) \in RootsOf(p, "pjs")
    BY <1>3, <2>2 DEF RootsOf
  <2>5. Key(p, "pjs", s.type, a) \in K
    BY <1>2, <1>3, <2>1, <2>3, <2>4
  <2> QED BY <2>2, <2>5
<1>4. ASSUME NEW e \in w.graph, NEW k \in e.soft, k.fam = "val"
      PROVE  k \in K
  <2>1. CASE w.rounds # 0
    BY <1>1, <1>4, <2>1 DEF UnderWay, SoftsAreAsked
  <2>2. CASE w.rounds = 0
    <3>1. w.rounds < MaxRounds
      BY <2>2, BoundsAssumption
    <3>2. Wanted(w.graph) = {}
      BY <2>2, <3>1 DEF Follows
    <3> QED BY <1>4, <3>2 DEF Wanted, Walkers
  <2> QED BY <2>1, <2>2
<1>5. \A e \in w.graph : /\ e.text.kind # "missing" /\ e.hard \subseteq K
                         /\ OfWalk(w, e) \/ OfEncoder(p, e) \/ OfBody(e)
  BY <1>1 DEF UnderWay, EntriesAreWhole, CallsAreAsked
<1>6. \A k : Served(p, k) => k.fam = "pure" /\ (k \in K \/ \E n \in Builtins : k = PureKey(n))
  BY DEF Served, UnderWay, BodiesAreThere, PureKey
<1>7. ASSUME NEW e \in w.graph, NEW k \in e.soft
      PROVE  k \in K \/ \E n \in Builtins : k = PureKey(n)
  <2>1. CASE OfWalk(w, e)
    BY <1>4, <1>6, <1>7, <2>1 DEF OfWalk, CallsAskable
  <2>2. CASE OfEncoder(p, e)
    BY <1>3, <1>6, <1>7, <2>2 DEF OfEncoder
  <2>3. CASE OfBody(e)
    BY <1>7, <2>3 DEF OfBody
  <2> QED BY <1>5, <2>1, <2>2, <2>3
<1>8. ASSUME NEW s \in Sites(p)
      PROVE  Key(p, s.op, s.type, s.armed) \in K
  <2>1. s.op \in {"val", "je"}
    BY ProjectAssumption
  <2>2. CASE s.op = "val"
    <3>1. Key(p, "val", s.type, s.armed) \in RootsOf(p, "val")
      BY <2>2 DEF RootsOf
    <3>2. \A t : ~Pruned(p, "val", t)
      BY DEF Pruned
    <3> QED BY <1>2, <2>2, <3>1, <3>2 DEF Walkers
  <2>3. CASE s.op = "je"
    BY <1>1, <2>3 DEF UnderWay, EncodersAreAsked, EncodersOf
  <2> QED BY <2>1, <2>2, <2>3
<1>9. ASSUME NEW e \in w.graph, e.key.fam = "je", NEW k \in e.soft, k.fam = "pjs"
      PROVE  k \in K
  <2>1. ~OfWalk(w, e) /\ ~OfBody(e)
    BY <1>9 DEF OfWalk, Askable, OfBody, Walkers
  <2>2. OfEncoder(p, e) /\ ~Served(p, k)
    BY <1>5, <1>6, <1>9, <2>1
  <2> QED BY <1>3, <1>9, <2>2 DEF OfEncoder
<1> QED BY <1>5, <1>7, <1>8, <1>9 DEF Demanded, Unbound

\* The keys of a finite graph.
LEMMA KeysAreFinite ==
  ASSUME NEW graph, IsFiniteSet(graph)
  PROVE  IsFiniteSet(KeysOf(graph))
<1>1. [e \in graph |-> e.key] \in Surjection(graph, KeysOf(graph))
  BY DEF Surjection, KeysOf
<1> QED BY <1>1, FS_Surjection

\* The entries of the project's functions.
LEMMA PuresAreFinite ==
  ASSUME NEW S, IsFiniteSet(S)
  PROVE  IsFiniteSet({PureEntry(n) : n \in S})
<1>1. [n \in S |-> PureEntry(n)] \in Surjection(S, {PureEntry(n) : n \in S})
  BY DEF Surjection
<1> QED BY <1>1, FS_Surjection

\* What is served of a graph in which every call is there: nothing is stubbed.
LEMMA NothingIsStubbed ==
  ASSUME NEW graph, IsFiniteSet(graph), NEW demanded \in SUBSET KeysOf(graph),
         \A e \in graph : /\ e.text.kind # "missing" /\ e.hard \subseteq KeysOf(graph)
                          /\ \A k \in e.soft : \/ k \in KeysOf(graph)
                                               \/ \E n \in Builtins : k = PureKey(n),
         NEW kept, kept = Cascade(graph), NEW served, served = ServeBuiltins(kept),
         NEW whole, whole = AddMissingStubs(served, demanded)
  PROVE  LET last == Reachable(whole, demanded)
         IN  demanded \cup UNION {e.hard \cup e.soft : e \in last} \subseteq Rendered(last)
<1> DEFINE pures == {PureEntry(n) : n \in {x \in Builtins : \E e \in graph : PureKey(x) \in e.soft}}
<1>1. kept = graph
  <2>1. Dangling(graph) = {}
    BY DEF Dangling, Rendered, KeysOf
  <2> QED BY <2>1 DEF Cascade
<1>2. served = graph \cup pures
  BY <1>1 DEF ServeBuiltins
<1>3. \A e \in pures : /\ e.hard = {} /\ e.soft = {} /\ e.text.kind = "pure"
                       /\ \E n \in Builtins : e.key = PureKey(n)
  BY DEF PureEntry
<1>4. \A e \in served : /\ e.text.kind # "missing"
                        /\ e.hard \cup e.soft \subseteq KeysOf(served)
  <2>1. \A e \in graph, n \in Builtins : PureKey(n) \in e.soft => PureKey(n) \in KeysOf(served)
    <3> SUFFICES ASSUME NEW e \in graph, NEW n \in Builtins, PureKey(n) \in e.soft
                 PROVE  PureKey(n) \in KeysOf(served)
      OBVIOUS
    <3>1. PureEntry(n) \in pures /\ PureEntry(n).key = PureKey(n)
      BY DEF PureEntry
    <3> HIDE DEF pures
    <3> QED BY <1>2, <3>1 DEF KeysOf
  <2>2. KeysOf(graph) \subseteq KeysOf(served)
    BY <1>2 DEF KeysOf
  <2> HIDE DEF pures
  <2>3. ASSUME NEW e \in served
        PROVE  e.text.kind # "missing" /\ e.hard \cup e.soft \subseteq KeysOf(served)
    <3>1. CASE e \in pures
      BY <1>3, <3>1
    <3>2. CASE e \in graph
      <4>1. e.text.kind # "missing" /\ e.hard \subseteq KeysOf(served)
        BY <2>2, <3>2
      <4>2. \A k \in e.soft : k \in KeysOf(graph) \/ \E n \in Builtins : k = PureKey(n)
        BY <3>2
      <4>3. \A k \in e.soft : k \in KeysOf(served)
        BY <2>1, <2>2, <3>2, <4>2
      <4> QED BY <4>1, <4>3
    <3> QED BY <1>2, <2>3, <3>1, <3>2
  <2> QED BY <2>3
<1>5. whole = served
  <2>1. demanded \cup UNION {e.hard \cup e.soft : e \in served} \subseteq KeysOf(served)
    <3>1. KeysOf(graph) \subseteq KeysOf(served)
      BY <1>2 DEF KeysOf
    <3> QED BY <1>4, <3>1
  <2> QED BY <2>1 DEF AddMissingStubs
<1> DEFINE K == KeysOf(served)
           next == Refs(served)
           from == Roots(served, demanded)
           R == Closure(next, from)
<1>6. IsFiniteSet(K)
  <2>1. IsFiniteSet({x \in Builtins : \E e \in graph : PureKey(x) \in e.soft})
    BY GraphAssumption, FS_Subset
  <2>2. IsFiniteSet(pures)
    <3>1. PICK S : S = {x \in Builtins : \E e \in graph : PureKey(x) \in e.soft}
      OBVIOUS
    <3>2. IsFiniteSet({PureEntry(n) : n \in S})
      BY <2>1, <3>1, PuresAreFinite
    <3> QED BY <3>1, <3>2
  <2>3. IsFiniteSet(served)
    BY <1>2, <2>2, FS_Union
  <2> QED BY <2>3, KeysAreFinite
<1>7. next \in [K -> SUBSET K] /\ from \in SUBSET K
  BY DEF Refs, Roots, KeysOf
<1>8. /\ from \subseteq R /\ R \subseteq K
      /\ \A k \in R : next[k] \subseteq R
  <2> HIDE DEF K, next, from
  <2> QED BY <1>6, <1>7, ClosureIsClosed
<1>9. \A e \in served : e.hard \cup e.soft \subseteq next[e.key]
  BY <1>4 DEF Refs, KeysOf
<1>10. demanded \subseteq from
  BY <1>2 DEF Roots, KeysOf
<1>11. PICK last : last = Reachable(whole, demanded)
  OBVIOUS
<1>12. last = {e \in served : e.key \in R}
  BY <1>5, <1>11 DEF Reachable
<1>13. R \subseteq Rendered(last)
  <2> HIDE DEF R
  <2> QED BY <1>4, <1>8, <1>12 DEF Rendered, KeysOf
<1>14. \A e \in last : e.hard \cup e.soft \subseteq R
  <2> HIDE DEF R, next
  <2> QED BY <1>8, <1>9, <1>12
<1>15. demanded \subseteq R
  <2> HIDE DEF R, from
  <2> QED BY <1>8, <1>10
<1> HIDE DEF R
<1> QED BY <1>11, <1>13, <1>14, <1>15

-----------------------------------------------------------------------------
\* Whether a build under way is whole depends on what it has and has left.
LEMMA SameIsWhole ==
  ASSUME NEW w, UnderWay(w), NEW v, v.prog = w.prog, v.graph = w.graph, v.found = w.found,
         v.phase = w.phase, v.todo = w.todo, v.rounds = w.rounds
  PROVE  UnderWay(v)
BY DEF UnderWay, EntriesAreWhole, CallsAreAsked, TodoIsAskable, RootsAreAsked, EncodersAreAsked,
       SoftsAreAsked, BodiesAreThere, FindingsHold, Asked, OfWalk, WalkedIn, Replaced

\* The roots of a family are of it, and of types of call sites.
LEMMA RootsAreKnown ==
  ASSUME NEW p \in Programs, NEW f \in Walkers, NEW k \in RootsOf(p, f)
  PROVE  /\ k.fam = f /\ Known(p, k)
         /\ f = "pjs" => \E s \in Sites(p) : s.op = "je" /\ TypeAt(p, k) = s.type
<1>1. PICK s, a : s \in Sites(p) /\ k = Key(p, f, s.type, a) /\ (f = "pjs" => s.op = "je")
  BY DEF RootsOf, Walkers
<1>2. s.type \in Interned(p)
  BY <1>1, InternedIsClosed
<1> QED BY <1>1, <1>2, KeyIsFound

\* What a build that collects or links takes up is something a walk may ask.
LEMMA RequestIsAskable ==
  ASSUME NEW w, TodoIsAskable(w), NEW p \in Programs, w.prog = p, w.phase \in {"collect", "link"},
         NEW k \in w.todo
  PROVE  /\ Known(p, k) /\ k.fam \in Walkers
         /\ Askable(p, k) \/ (Pruned(p, k.fam, TypeAt(p, k)) /\ k \in RootsOf(p, "pjs") /\ w.phase = "collect")
<1>1. CASE Askable(p, k)
  BY <1>1 DEF Askable
<1>2. CASE ~Askable(p, k)
  <2>1. w.phase = "collect" /\ k \in RootsOf(p, "pjs") /\ "pjs" \in Walkers
    BY <1>2 DEF TodoIsAskable, Walkers
  <2>2. k.fam = "pjs" /\ Known(p, k) /\ \E s \in Sites(p) : s.op = "je" /\ TypeAt(p, k) = s.type
    BY <2>1, RootsAreKnown
  <2>3. \A s \in Sites(p) : s.type \in Reach(s.type)
    BY ProjectAssumption, ReachIsClosed
  <2>4. Pruned(p, "pjs", TypeAt(p, k))
    BY <1>2, <2>1, <2>2, <2>3 DEF Askable
  <2> QED BY <2>1, <2>2, <2>4
<1> QED BY <1>1, <1>2

\* What is passed over is there already, or is not generated and not called.
LEMMA IgnoringIsWhole ==
  ASSUME EncodersStandAlone, NEW w, DOMAIN w = Fields, UnderWay(w),
         NEW p \in Programs, w.prog = p, w.phase \in {"collect", "link"},
         NEW k \in w.todo, Ignorable(w, k), NEW v, v = [w EXCEPT !.todo = w.todo \ {k}]
  PROVE  UnderWay(v) /\ v.phase = w.phase
<1>1. /\ v.prog = p /\ v.graph = w.graph /\ v.found = w.found
      /\ v.phase = w.phase /\ v.todo = w.todo \ {k} /\ v.rounds = w.rounds
  BY DEF Fields
<1>2. Known(p, k)
  BY RequestIsAskable DEF UnderWay
<1>3. k \in KeysOf(w.graph) \/ (w.phase = "collect" /\ ~Askable(p, k) /\ Pruned(p, k.fam, TypeAt(p, k)))
  <2>1. CASE Pruned(p, k.fam, TypeAt(p, k))
    <3>1. ~Askable(p, k)
      BY <2>1, AskableIsRendered
    <3> QED BY <2>1, <3>1, RequestIsAskable DEF UnderWay
  <2> QED BY <1>2, <2>1 DEF Ignorable
<1>4. \A x \in Asked(w) : x \in Asked(v) \/ (x = k /\ k \notin KeysOf(w.graph))
  BY <1>1 DEF Asked
<1>5. EntriesAreWhole(v) /\ BodiesAreThere(v) /\ FindingsHold(v) /\ IsFiniteSet(v.graph)
  BY <1>1 DEF UnderWay, EntriesAreWhole, BodiesAreThere, FindingsHold, OfWalk, WalkedIn, Replaced
<1>6. TodoIsAskable(v) /\ (v.phase # "link" => v.rounds = 0)
  BY <1>1 DEF UnderWay, TodoIsAskable
<1>7. CallsAreAsked(v)
  <2> SUFFICES ASSUME NEW e \in w.graph, NEW x \in e.hard PROVE x \in Asked(v)
    BY <1>1 DEF CallsAreAsked
  <2>1. x \in Asked(w)
    BY DEF UnderWay, CallsAreAsked
  <2>2. Askable(p, x)
    BY DEF UnderWay, EntriesAreWhole, OfWalk, CallsAskable, OfEncoder, OfBody
  <2> QED BY <1>3, <1>4, <2>1, <2>2
<1>8. RootsAreAsked(v)
  <2> SUFFICES ASSUME NEW f \in Walkers, NEW x \in RootsOf(p, f)
               PROVE  x \in Asked(v) \/ Pruned(p, f, TypeAt(p, x))
    BY <1>1 DEF RootsAreAsked
  <2>1. x \in Asked(w) \/ Pruned(p, f, TypeAt(p, x))
    BY DEF UnderWay, RootsAreAsked
  <2>2. x.fam = f
    BY RootsAreKnown
  <2> QED BY <1>3, <1>4, <2>1, <2>2
<1>9. EncodersAreAsked(v) /\ SoftsAreAsked(v)
  <2>1. w.phase = "link" => \A x \in Asked(w) : x \in Asked(v)
    BY <1>3, <1>4
  <2> QED BY <1>1, <2>1 DEF UnderWay, EncodersAreAsked, SoftsAreAsked
<1> QED BY <1>1, <1>5, <1>6, <1>7, <1>8, <1>9 DEF UnderWay

\* The entry is what a walk of some project found, and the codes are all that
\* it found.
FoundBy(p, e, codes, q) ==
  LET f == e.key.fam
      t == TypeAt(p, e.key)
  IN  /\ Sid(q, t) = Sid(p, t)
      /\ Owed(q, f, t) \subseteq codes /\ codes \subseteq Codes(q, f, t) \cup {"unverified"}
      /\ CallsAsIn(p, e, q)

\* A job of a walk adds an entry that is whole, asks for what it calls, and
\* tells what it found where it belongs.
LEMMA AdvanceIsWhole ==
  ASSUME NEW w, DOMAIN w = Fields, UnderWay(w), NEW p \in Programs, w.prog = p,
         w.phase \in {"collect", "link"}, NEW k \in w.todo, ~Ignorable(w, k),
         NEW e, e.key = k, e.text.kind # "missing", CallsAskable(p, e), NEW codes,
         \/ Replaced(w, k) /\ codes = {}
         \/ \E q \in Programs : FoundBy(p, e, codes, q),
         NEW v, v = Advance(w, k, e, codes)
  PROVE  UnderWay(v) /\ v.phase = w.phase
<1> DEFINE t == TypeAt(p, k)
           told == ReportAt(codes, Provenance(p, t))
<1>1. /\ v.prog = p /\ v.graph = w.graph \cup {e} /\ v.found = w.found \cup told
      /\ v.phase = w.phase /\ v.todo = (w.todo \cup e.hard) \ (KeysOf(w.graph) \cup {k})
      /\ v.rounds = w.rounds
  BY DEF Fields, Advance
<1>2. KeysOf(v.graph) = KeysOf(w.graph) \cup {k}
  BY <1>1 DEF KeysOf
<1>3. \A x \in Asked(w) \cup e.hard : x \in Asked(v)
  BY <1>1, <1>2 DEF Asked
<1>4. Askable(p, k) /\ k.fam \in Walkers /\ Known(p, k)
  BY RequestIsAskable DEF UnderWay, Ignorable
<1>5. t \in Interned(p)
  BY <1>4, TypeIsFound
<1> HIDE DEF t, told
<1>6. IsFiniteSet(v.graph) /\ (v.phase # "link" => v.rounds = 0)
  BY <1>1, FS_AddElement DEF UnderWay
<1>7. EntriesAreWhole(v)
  <2>1. ASSUME NEW d \in w.graph, OfWalk(w, d)
        PROVE  OfWalk(v, d)
    BY <1>1, <2>1 DEF OfWalk, Replaced, WalkedIn
  <2>2. OfWalk(v, e)
    <3>1. ASSUME NEW q \in Programs, FoundBy(p, e, codes, q)
          PROVE  WalkedIn(v, e, q)
      <4>1. ReportAt(Owed(q, k.fam, t), Provenance(p, t)) \subseteq told
        BY <3>1 DEF FoundBy, ReportAt, told, t
      <4> QED BY <1>1, <3>1, <4>1 DEF FoundBy, WalkedIn, t
    <3>2. Replaced(w, k) => Replaced(v, k)
      BY <1>1 DEF Replaced
    <3> QED BY <1>1, <1>4, <3>1, <3>2 DEF OfWalk
  <2>3. \A d \in w.graph : d.text.kind # "missing" /\ (OfWalk(w, d) \/ OfEncoder(p, d) \/ OfBody(d))
    BY DEF UnderWay, EntriesAreWhole
  <2> QED BY <1>1, <2>1, <2>2, <2>3 DEF EntriesAreWhole
<1>8. CallsAreAsked(v)
  <2>1. \A d \in w.graph : d.hard \subseteq Asked(w)
    BY DEF UnderWay, CallsAreAsked
  <2> QED BY <1>1, <1>3, <2>1 DEF CallsAreAsked
<1>9. TodoIsAskable(v)
  <2>1. \A x \in e.hard : x.fam = k.fam /\ Askable(p, x)
    BY DEF CallsAskable
  <2>2. \A x \in v.todo : x \in w.todo \/ x \in e.hard
    BY <1>1
  <2>3. w.phase = "link" => k.fam = "val"
    BY DEF UnderWay, TodoIsAskable
  <2> QED BY <1>1, <2>1, <2>2, <2>3 DEF UnderWay, TodoIsAskable
<1>10. RootsAreAsked(v) /\ EncodersAreAsked(v)
  BY <1>1, <1>3 DEF UnderWay, RootsAreAsked, EncodersAreAsked
<1>11. SoftsAreAsked(v)
  <2>1. w.phase = "link" => k.fam = "val"
    BY DEF UnderWay, TodoIsAskable
  <2>2. w.phase = "link" => \A x \in e.soft : x.fam # "val"
    BY <2>1 DEF CallsAskable, Served, PureKey
  <2> QED BY <1>1, <1>3, <2>2 DEF UnderWay, SoftsAreAsked
<1>12. BodiesAreThere(v)
  BY <1>1, <1>2 DEF UnderWay, BodiesAreThere
<1>13. FindingsHold(v)
  <2>1. ASSUME NEW d \in told
        PROVE  d.code = "unverified" \/ \E s \in Sites(p) : s.at = d.at /\ d.code \in About(p, s)
    <3>1. CASE codes = {}
      BY <3>1, <2>1 DEF told, ReportAt
    <3>2. CASE \E q \in Programs : FoundBy(p, e, codes, q)
      <4>1. PICK q \in Programs : FoundBy(p, e, codes, q)
        BY <3>2
      <4>2. codes \in SUBSET (Codes(q, k.fam, t) \cup {"unverified"})
        BY <4>1 DEF FoundBy, t
      <4>3. d \in ReportAt(codes, Provenance(p, t))
        BY <2>1 DEF told
      <4> QED BY <1>4, <1>5, <4>2, <4>3, FoundIsAbout
    <3> QED BY <3>1, <3>2
  <2> QED BY <1>1, <2>1 DEF UnderWay, FindingsHold
<1> QED BY <1>1, <1>6, <1>7, <1>8, <1>9, <1>10, <1>11, <1>12, <1>13 DEF UnderWay

\* A job that composes an encoder of the program.
LEMMA AddingIsWhole ==
  ASSUME NEW w, DOMAIN w = Fields, UnderWay(w), NEW p \in Programs, w.prog = p,
         w.phase = "compose", NEW k \in w.todo,
         NEW e, e.key = k, e.text.kind # "missing", OfEncoder(p, e),
         NEW v, v = Add(w, k, e)
  PROVE  UnderWay(v) /\ v.phase = w.phase
<1>1. /\ v.prog = p /\ v.graph = w.graph \cup {e} /\ v.found = w.found
      /\ v.phase = w.phase /\ v.todo = w.todo \ {k} /\ v.rounds = w.rounds
  BY DEF Fields, Add
<1>2. KeysOf(v.graph) = KeysOf(w.graph) \cup {k}
  BY <1>1 DEF KeysOf
<1>3. \A x \in Asked(w) : x \in Asked(v)
  BY <1>1, <1>2 DEF Asked
<1>4. IsFiniteSet(v.graph) /\ (v.phase # "link" => v.rounds = 0)
  BY <1>1, FS_AddElement DEF UnderWay
<1>5. EntriesAreWhole(v)
  <2>1. ASSUME NEW d \in w.graph, OfWalk(w, d)
        PROVE  OfWalk(v, d)
    BY <1>1, <2>1 DEF OfWalk, Replaced, WalkedIn
  <2>2. \A d \in w.graph : d.text.kind # "missing" /\ (OfWalk(w, d) \/ OfEncoder(p, d) \/ OfBody(d))
    BY DEF UnderWay, EntriesAreWhole
  <2> QED BY <1>1, <2>1, <2>2 DEF EntriesAreWhole
<1>6. CallsAreAsked(v)
  <2>1. \A d \in w.graph : d.hard \subseteq Asked(w)
    BY DEF UnderWay, CallsAreAsked
  <2> QED BY <1>1, <1>3, <2>1 DEF CallsAreAsked, OfEncoder
<1>7. TodoIsAskable(v) /\ SoftsAreAsked(v)
  BY <1>1 DEF UnderWay, TodoIsAskable, SoftsAreAsked
<1>8. RootsAreAsked(v) /\ EncodersAreAsked(v) /\ BodiesAreThere(v) /\ FindingsHold(v)
  BY <1>1, <1>2, <1>3 DEF UnderWay, RootsAreAsked, EncodersAreAsked, BodiesAreThere, FindingsHold
<1> QED BY <1>1, <1>4, <1>5, <1>6, <1>7, <1>8 DEF UnderWay

\* The project's own function calls nothing that could be missing.
LEMMA RedirectIsWhole ==
  ASSUME NEW p \in Programs, NEW k, NEW op, NEW e, e = Entry(k, Redirect(p, op, TypeAt(p, k)))
  PROVE  /\ e.key = k /\ e.text.kind # "missing"
         /\ e.hard = {} /\ \A x \in e.soft : Served(p, x)
<1>1. PICK text : text = Redirect(p, op, TypeAt(p, k))
  OBVIOUS
<1>2. text.calls = {} /\ text.kind = "redirect" /\ text.pure = Bodies(p, TypeAt(p, k), op)
  BY <1>1 DEF Redirect
<1>3. e.key = k /\ e.text = text /\ e.hard = {} /\ e.soft = {PureKey(n) : n \in text.pure}
  BY <1>1, <1>2 DEF Entry
<1>4. \A n \in text.pure : \E o \in Overrides(p) : n = o.body
  BY <1>2 DEF Bodies
<1> QED BY <1>2, <1>3, <1>4 DEF Served

\* A walk of this project finds what it finds.
LEMMA WalkIsWhole ==
  ASSUME BuiltinsAreServed, NEW p \in Programs, NEW k, Askable(p, k),
         NEW text, text = Text(p, k.fam, TypeAt(p, k), k.armed),
         NEW codes, Owed(p, k.fam, TypeAt(p, k)) \subseteq codes,
         codes \subseteq Codes(p, k.fam, TypeAt(p, k)) \cup {"unverified"},
         NEW e, e = Entry(k, text)
  PROVE  /\ e.key = k /\ e.text.kind # "missing" /\ CallsAskable(p, e)
         /\ FoundBy(p, e, codes, p)
<1>1. \A c \in text.calls : HasHash(p, c.of, c.id)
  <2>1. PICK t : t = TypeAt(p, k)
    OBVIOUS
  <2>2. t \in Interned(p) /\ k.fam \in Walkers
    BY <2>1, TypeIsFound DEF Askable
  <2>3. Called(p, k.fam, t) \cup Narrowed(p, k.fam, t) \subseteq Interned(p)
    BY <2>2, CallsAreInterned
  <2>4. text.calls \subseteq {CallTo(p, k.fam, c) : c \in Called(p, k.fam, t)}
                             \cup {CallTo(p, "val", c) : c \in Narrowed(p, k.fam, t)}
    BY <2>1 DEF Text
  <2>5. \A c \in text.calls : \E f, u : u \in Interned(p) /\ c = CallTo(p, f, u)
    BY <2>3, <2>4
  <2> QED BY <2>5 DEF CallTo, HasHash
<1>2. PICK armed : armed = k.armed
  OBVIOUS
<1>3. text = Text(p, k.fam, TypeAt(p, k), armed)
  BY <1>2
<1>4. /\ e.key = k /\ e.text = text /\ text.kind # "missing"
      /\ CallsAskable(p, e) /\ CallsAsIn(p, e, p)
  BY <1>1, <1>3, TextIsWhole
<1> QED BY <1>4 DEF FoundBy

\* A usable file is what a walk found of the same type.
LEMMA ReuseIsWhole ==
  ASSUME BuiltinsAreServed, NEW p \in Programs, NEW k, Askable(p, k),
         NEW r, RecordIsWhole(r), r.file = File(p, k), Usable(p, TypeAt(p, k), r),
         NEW e, e = Entry(k, r.text)
  PROVE  /\ e.key = k /\ e.text.kind # "missing" /\ CallsAskable(p, e)
         /\ \E q \in Programs : FoundBy(p, e, r.codes, q)
<1>1. r.file.fam = k.fam /\ k.fam \in Walkers
  BY DEF File, Askable
<1>2. r.text.of = Sid(p, TypeAt(p, k)) /\ \A c \in r.text.calls : HasHash(p, c.of, c.id)
  BY DEF Usable
<1>3. PICK q \in Programs, t \in Types :
        /\ r.text = Text(q, k.fam, t, r.text.slot.armed)
        /\ Owed(q, k.fam, t) \subseteq r.codes
        /\ r.codes \subseteq Codes(q, k.fam, t) \cup {"unverified"}
  BY <1>1 DEF RecordIsWhole
<1>4. PICK armed : armed = r.text.slot.armed
  OBVIOUS
<1>5. PICK text : text = r.text
  OBVIOUS
<1>6. text = Text(q, k.fam, t, armed) /\ text.of = Sid(p, TypeAt(p, k))
  BY <1>2, <1>3, <1>4, <1>5
<1>7. Sid(q, t) = Sid(p, TypeAt(p, k))
  BY <1>6 DEF Text
<1>8. t = TypeAt(p, k)
  BY <1>7, SidIsOfType
<1>9. \A c \in text.calls : HasHash(p, c.of, c.id)
  BY <1>2, <1>5
<1>10. /\ e.key = k /\ e.text = text /\ text.kind # "missing"
       /\ CallsAskable(p, e) /\ CallsAsIn(p, e, q)
  <2>1. text = Text(q, k.fam, TypeAt(p, k), armed) /\ e = Entry(k, text)
    BY <1>5, <1>6, <1>8
  <2> QED BY <1>9, <2>1, TextIsWhole
<1>11. FoundBy(p, e, r.codes, q)
  BY <1>3, <1>7, <1>8, <1>10 DEF FoundBy
<1> QED BY <1>10, <1>11

\* An encoder that is generated binds a primitive that is.
LEMMA EncoderIsWhole ==
  ASSUME EncodersStandAlone, BuiltinsAreServed, NEW p \in Programs, NEW k \in EncodersOf(p),
         ~(~k.armed /\ Bodies(p, TypeAt(p, k), "je") # {}),
         NEW text, text.kind \in {"live", "noop"}, text.pure \subseteq {"findCycle"},
         \A c \in text.calls : c.fam = "pjs" /\ c.id = k.id,
         NEW e, e = Entry(k, text)
  PROVE  e.key = k /\ e.text.kind # "missing" /\ OfEncoder(p, e)
<1>1. PICK s \in Sites(p) : s.op = "je" /\ k = Key(p, "je", s.type, s.armed)
  BY DEF EncodersOf
<1>2. s.type \in Interned(p) /\ s.type \in Reach(s.type)
  <2>1. s.type \in Interned(p) /\ s.type \in Types
    BY InternedIsClosed
  <2> QED BY <2>1, ReachIsClosed
<1>3. TypeAt(p, k) = s.type /\ k.fam = "je" /\ k.armed = s.armed /\ k.id = HashOf(p, s.type)
  BY <1>1, <1>2, KeyIsFound
<1>4. ~Pruned(p, "pjs", s.type)
  <2>1. CASE s.armed
    BY <1>1, <1>2, <2>1 DEF EncodersStandAlone
  <2>2. CASE ~s.armed
    BY <1>3, <2>2 DEF Pruned
  <2> QED BY <2>1, <2>2
<1>5. /\ e.key = k /\ e.text = text
      /\ e.hard = {KeyOf(c) : c \in {x \in text.calls : x.fam = "je"}}
      /\ e.soft = {KeyOf(c) : c \in {x \in text.calls : x.fam # "je"}} \cup {PureKey(n) : n \in text.pure}
  BY <1>3 DEF Entry
<1>6. e.hard = {}
  BY <1>5
<1>7. \A c \in text.calls : KeyOf(c) = Key(p, "pjs", s.type, FALSE)
  BY <1>3 DEF KeyOf, Key
<1>8. \A n \in text.pure : Served(p, PureKey(n))
  BY DEF Served, BuiltinsAreServed
<1>9. \A x \in e.soft : \/ Served(p, x)
                        \/ \E y \in Sites(p) : /\ y.op = "je" /\ ~Pruned(p, "pjs", y.type)
                                               /\ x = Key(p, "pjs", y.type, FALSE)
  BY <1>1, <1>4, <1>5, <1>7, <1>8
<1> QED BY <1>5, <1>6, <1>9 DEF OfEncoder

-----------------------------------------------------------------------------
\* A build starts with what its call sites ask of the families.
LEMMA OpenedIsWhole ==
  ASSUME NEW p \in Programs
  PROVE  WorkIsWhole(Opened(p))
<1> DEFINE v == Opened(p)
<1>1. /\ v.phase = "collect" /\ v.prog = p /\ v.rounds = 0 /\ v.found = {}
      /\ v.graph = {PureEntry(o.body) : o \in Overrides(p)}
      /\ v.todo = UNION {RootsOf(p, f) : f \in Walkers}
  BY DEF Opened
<1> HIDE DEF v
<1>2. IsFiniteSet(v.graph)
  <2>1. PICK S : S = Overrides(p)
    OBVIOUS
  <2>2. IsFiniteSet(S)
    BY <2>1, ProjectAssumption
  <2>3. [o \in S |-> PureEntry(o.body)] \in Surjection(S, {PureEntry(o.body) : o \in S})
    BY DEF Surjection
  <2>4. IsFiniteSet({PureEntry(o.body) : o \in S})
    BY <2>2, <2>3, FS_Surjection
  <2> QED BY <1>1, <2>1, <2>4
<1>3. \A e \in v.graph : e.text.kind # "missing" /\ OfBody(e)
  BY <1>1 DEF PureEntry, PureKey, OfBody
<1>4. EntriesAreWhole(v) /\ CallsAreAsked(v)
  BY <1>3 DEF EntriesAreWhole, CallsAreAsked, OfBody
<1>5. TodoIsAskable(v)
  <2> SUFFICES ASSUME NEW k \in v.todo PROVE Askable(p, k) \/ k \in RootsOf(p, "pjs")
    BY <1>1 DEF TodoIsAskable
  <2>1. PICK f \in Walkers : k \in RootsOf(p, f)
    BY <1>1
  <2>2. CASE f = "val"
    <3>1. k.fam = "val" /\ Known(p, k)
      BY <2>1, <2>2, RootsAreKnown
    <3> QED BY <3>1, <2>2 DEF Askable
  <2> QED BY <2>1, <2>2 DEF Walkers
<1>6. RootsAreAsked(v)
  BY <1>1 DEF RootsAreAsked, Asked
<1>7. BodiesAreThere(v)
  <2> SUFFICES ASSUME NEW o \in Overrides(p) PROVE PureKey(o.body) \in KeysOf(v.graph)
    BY <1>1 DEF BodiesAreThere
  <2>1. PureEntry(o.body) \in v.graph /\ PureEntry(o.body).key = PureKey(o.body)
    BY <1>1 DEF PureEntry
  <2> QED BY <2>1 DEF KeysOf
<1>8. EncodersAreAsked(v) /\ SoftsAreAsked(v) /\ FindingsHold(v)
  BY <1>1 DEF EncodersAreAsked, SoftsAreAsked, FindingsHold
<1>9. WorkIsWhole(v)
  BY <1>1, <1>2, <1>4, <1>5, <1>6, <1>7, <1>8 DEF WorkIsWhole, UnderWay
<1> QED BY <1>9 DEF v

\* The encoders follow when every family has been collected.
LEMMA ComposingIsWhole ==
  ASSUME NEW w, DOMAIN w = Fields, UnderWay(w), w.phase = "collect", w.todo = {},
         NEW v, v = [w EXCEPT !.phase = "compose", !.todo = EncodersOf(w.prog)]
  PROVE  UnderWay(v) /\ v.phase = "compose"
<1>1. /\ v.prog = w.prog /\ v.graph = w.graph /\ v.found = w.found
      /\ v.phase = "compose" /\ v.todo = EncodersOf(w.prog) /\ v.rounds = w.rounds
  BY DEF Fields
<1>2. Asked(w) \subseteq Asked(v) /\ EncodersOf(v.prog) \subseteq Asked(v)
  BY <1>1 DEF Asked
<1>3. EntriesAreWhole(v) /\ BodiesAreThere(v) /\ FindingsHold(v)
  BY <1>1 DEF UnderWay, EntriesAreWhole, BodiesAreThere, FindingsHold, OfWalk, WalkedIn, Replaced
<1>4. CallsAreAsked(v) /\ RootsAreAsked(v) /\ EncodersAreAsked(v)
  BY <1>1, <1>2 DEF UnderWay, CallsAreAsked, RootsAreAsked, EncodersAreAsked
<1>5. TodoIsAskable(v) /\ SoftsAreAsked(v)
  BY <1>1 DEF TodoIsAskable, SoftsAreAsked
<1> QED BY <1>1, <1>3, <1>4, <1>5 DEF UnderWay

\* So does the linking when every encoder has been composed.
LEMMA LinkingIsWhole ==
  ASSUME NEW w, DOMAIN w = Fields, UnderWay(w), w.phase = "compose", w.todo = {},
         NEW v, v = [w EXCEPT !.phase = "link"]
  PROVE  UnderWay(v) /\ v.phase = "link"
<1>1. /\ v.prog = w.prog /\ v.graph = w.graph /\ v.found = w.found
      /\ v.phase = "link" /\ v.todo = {} /\ v.rounds = 0
  BY DEF Fields, UnderWay
<1>2. Asked(w) = Asked(v)
  BY <1>1 DEF Asked
<1>3. EntriesAreWhole(v) /\ BodiesAreThere(v) /\ FindingsHold(v)
  BY <1>1 DEF UnderWay, EntriesAreWhole, BodiesAreThere, FindingsHold, OfWalk, WalkedIn, Replaced
<1>4. CallsAreAsked(v) /\ RootsAreAsked(v) /\ EncodersAreAsked(v)
  BY <1>1, <1>2 DEF UnderWay, CallsAreAsked, RootsAreAsked, EncodersAreAsked
<1>5. TodoIsAskable(v) /\ SoftsAreAsked(v)
  BY <1>1 DEF TodoIsAskable, SoftsAreAsked
<1> QED BY <1>1, <1>3, <1>4, <1>5 DEF UnderWay

\* A pass asks for every function of another family that is not there: a
\* validation, since every primitive an encoder binds has been asked for.
LEMMA FollowingIsWhole ==
  ASSUME NEW w, UnderWay(w), NEW p \in Programs, w.prog = p, w.phase = "link", w.todo = {},
         NEW v, v.prog = p, v.graph = w.graph, v.found = w.found,
         v.phase = "link", v.todo = Wanted(w.graph)
  PROVE  UnderWay(v)
<1>1. /\ v.prog = p /\ v.graph = w.graph /\ v.found = w.found
      /\ v.phase = "link" /\ v.todo = Wanted(w.graph)
  OBVIOUS
<1>2. Asked(w) = KeysOf(w.graph) /\ Asked(v) = KeysOf(w.graph) \cup Wanted(w.graph)
  BY <1>1 DEF Asked
<1>3. EntriesAreWhole(v) /\ BodiesAreThere(v) /\ FindingsHold(v)
  BY <1>1 DEF UnderWay, EntriesAreWhole, BodiesAreThere, FindingsHold, OfWalk, WalkedIn, Replaced
<1>4. CallsAreAsked(v) /\ RootsAreAsked(v) /\ EncodersAreAsked(v)
  BY <1>1, <1>2 DEF UnderWay, CallsAreAsked, RootsAreAsked, EncodersAreAsked
<1>5. SoftsAreAsked(v)
  BY <1>1, <1>2 DEF SoftsAreAsked, Wanted, Walkers
<1>6. TodoIsAskable(v)
  <2> SUFFICES ASSUME NEW k \in Wanted(w.graph) PROVE k.fam = "val" /\ Askable(p, k)
    BY <1>1 DEF TodoIsAskable
  <2>1. PICK e \in w.graph : k \in e.soft /\ k.fam \in Walkers /\ k \notin KeysOf(w.graph)
    BY DEF Wanted
  <2>2. ~Served(p, k)
    BY <2>1 DEF Served, PureKey, Walkers
  <2>3. ~OfEncoder(p, e)
    <3> SUFFICES ASSUME OfEncoder(p, e) PROVE FALSE
      OBVIOUS
    <3>1. PICK s \in Sites(p) : /\ s.op = "je" /\ ~Pruned(p, "pjs", s.type)
                                /\ k = Key(p, "pjs", s.type, FALSE)
      BY <2>1, <2>2 DEF OfEncoder
    <3>2. s.type \in Interned(p) /\ "pjs" \in Walkers
      BY InternedIsClosed DEF Walkers
    <3>3. k \in RootsOf(p, "pjs")
      BY <3>1 DEF RootsOf
    <3>4. TypeAt(p, k) = s.type
      <4>1. PICK a : a = FALSE
        OBVIOUS
      <4>2. TypeAt(p, Key(p, "pjs", s.type, a)) = s.type
        BY <3>2, KeyIsFound
      <4> QED BY <3>1, <4>1, <4>2
    <3> QED BY <1>2, <2>1, <3>1, <3>2, <3>3, <3>4 DEF UnderWay, RootsAreAsked
  <2>4. ~OfBody(e)
    BY <2>1 DEF OfBody
  <2> QED BY <2>1, <2>2, <2>3, <2>4 DEF UnderWay, EntriesAreWhole, OfWalk, CallsAskable
<1> QED BY <1>1, <1>3, <1>4, <1>5, <1>6 DEF UnderWay

\* A build that ends has bound every call and told every finding.
LEMMA FinishingIsWhole ==
  ASSUME NEW w, DOMAIN w = Fields, UnderWay(w), NEW p \in Programs, w.prog = p,
         w.phase = "link", w.todo = {}, ~Follows(w), w.rounds \in 0..MaxRounds,
         NEW kept, kept = Cascade(w.graph), NEW served, served = ServeBuiltins(kept),
         NEW whole, whole = AddMissingStubs(served, Demanded(p)),
         NEW graph, graph = Reachable(whole, Demanded(p)),
         NEW found, found = w.found \cup Breaches(p, w.graph),
         NEW v, v = [w EXCEPT !.phase = "done", !.graph = graph, !.found = found]
  PROVE  WorkIsWhole(v)
<1>1. /\ \A e \in w.graph : /\ e.text.kind # "missing" /\ e.hard \subseteq KeysOf(w.graph)
                            /\ \A k \in e.soft : \/ k \in KeysOf(w.graph)
                                                 \/ \E n \in Builtins : k = PureKey(n)
      /\ Demanded(p) \subseteq KeysOf(w.graph)
      /\ Unbound(w.graph) = {}
  BY CallsAreThere
<1>2. found = w.found
  BY <1>1 DEF Breaches
<1>3. /\ v.prog = p /\ v.graph = graph /\ v.found = w.found /\ v.phase = "done"
  BY <1>2 DEF Fields
<1>4. AllBound(v)
  <2>1. PICK demanded : demanded = Demanded(p)
    OBVIOUS
  <2>2. PICK g : g = w.graph
    OBVIOUS
  <2>3. /\ IsFiniteSet(g) /\ demanded \in SUBSET KeysOf(g)
        /\ \A e \in g : /\ e.text.kind # "missing" /\ e.hard \subseteq KeysOf(g)
                        /\ \A k \in e.soft : \/ k \in KeysOf(g)
                                             \/ \E n \in Builtins : k = PureKey(n)
        /\ kept = Cascade(g) /\ whole = AddMissingStubs(served, demanded)
        /\ graph = Reachable(whole, demanded)
    BY <1>1, <2>1, <2>2 DEF UnderWay
  <2>4. demanded \cup UNION {e.hard \cup e.soft : e \in graph} \subseteq Rendered(graph)
    BY <2>3, NothingIsStubbed
  <2> QED BY <1>3, <2>1, <2>4 DEF AllBound
<1>5. TypesAreTold => AllTold(v)
  <2> SUFFICES ASSUME TypesAreTold, NEW s \in Sites(p), Told[s.type] = Reach(s.type),
                      NEW f \in Walks(p, s)
               PROVE  ReportAt(Due(p, f, s.type), {s.at}) \subseteq w.found
    BY <1>3 DEF AllTold
  <2> QED BY AllIsTold DEF UnderWay
<1>6. FindingsHold(v)
  BY <1>3 DEF UnderWay, FindingsHold
<1> QED BY <1>3, <1>4, <1>5, <1>6 DEF WorkIsWhole, Phases

-----------------------------------------------------------------------------
FilesAreWhole == \A r \in disk : RecordIsWhole(r)

\* A step of one builder leaves what the others have.
LEMMA OneIsWhole ==
  ASSUME BuildsAreSound, Wholeness, NEW b \in Builders, NEW v, v = Idle \/ WorkIsWhole(v),
         build' = [build EXCEPT ![b] = v], FilesAreWhole'
  PROVE  Wholeness'
<1>1. build'[b] = v /\ \A c \in Builders \ {b} : build'[c] = build[c]
  BY DEF BuildsAreSound
<1>2. \A c \in Builders : build'[c] = Idle \/ WorkIsWhole(build'[c])
  BY <1>1 DEF Wholeness
<1> QED BY <1>2 DEF Wholeness, FilesAreWhole, WorkIsWhole, UnderWay, EntriesAreWhole, CallsAreAsked,
      TodoIsAskable, RootsAreAsked, EncodersAreAsked, SoftsAreAsked, BodiesAreThere, FindingsHold,
      Asked, OfWalk, WalkedIn, Replaced, AllBound, AllTold

\* A file is written whole, or not at all.
LEMMA WritingIsWhole ==
  ASSUME FilesAreWhole, NEW r, RecordIsWhole(r), Write(r) \/ UNCHANGED disk
  PROVE  FilesAreWhole'
<1>1. \A q \in disk' : q \in disk \/ q = r
  BY DEF Write
<1> QED BY <1>1 DEF FilesAreWhole, RecordIsWhole

\* What a builder at work has.
LEMMA WorkerIsWhole ==
  ASSUME IInv, Wholeness, NEW b \in Builders, build[b].phase \in Phases
  PROVE  /\ DOMAIN build[b] = Fields /\ UnderWay(build[b]) /\ build[b].prog \in Programs
         /\ build[b].rounds \in 0..MaxRounds
<1>1. build[b] # Idle
  BY DEF Idle, Phases
<1> QED BY <1>1 DEF IInv, BuildsAreSound, WorkIsSound, Wholeness, WorkIsWhole

\* Whatever a builder does, it keeps what it has whole.
LEMMA StepIsWhole ==
  ASSUME EncodersStandAlone, BuiltinsAreServed, IInv, Wholeness, NEW b \in Builders, Work(b)
  PROVE  Wholeness'
<1>0. PICK w, p : w = build[b] /\ p = w.prog
  OBVIOUS
<1>a. BuildsAreSound /\ DiskIsSound /\ FilesAreWhole
  BY DEF IInv, Wholeness, FilesAreWhole
<1>b. ASSUME w.phase \in Phases
      PROVE  /\ DOMAIN w = Fields /\ UnderWay(w) /\ p \in Programs /\ w.prog = p
             /\ w.rounds \in 0..MaxRounds
  BY <1>0, <1>b, WorkerIsWhole
<1>c. ASSUME NEW v, WorkIsWhole(v), build' = [build EXCEPT ![b] = v], FilesAreWhole'
      PROVE  Wholeness'
  BY <1>a, <1>c, OneIsWhole
<1>d. UNCHANGED disk => FilesAreWhole'
  BY <1>a DEF FilesAreWhole, RecordIsWhole
<1>e. ASSUME NEW v, UnderWay(v), v.phase \in Phases
      PROVE  WorkIsWhole(v)
  BY <1>e DEF WorkIsWhole, Phases
<1>f. ASSUME NEW k \in Requests(b)
      PROVE  /\ k \in w.todo /\ w.phase \in {"collect", "link"} /\ w.phase \in Phases
  BY <1>0, <1>f DEF Requests, Jobs, First, Phases
<1>g. ASSUME NEW k \in Encoders(b)
      PROVE  /\ k \in w.todo /\ w.phase = "compose" /\ w.phase \in Phases
  BY <1>0, <1>g DEF Encoders, Jobs, First, Phases
<1>1. ASSUME Ignore(b)
      PROVE  Wholeness'
  <2>1. PICK k \in Requests(b) :
          Ignorable(w, k) /\ build' = [build EXCEPT ![b] = [w EXCEPT !.todo = w.todo \ {k}]]
    BY <1>0, <1>1 DEF Ignore
  <2>2. PICK v : v = [w EXCEPT !.todo = w.todo \ {k}]
    OBVIOUS
  <2>3. k \in w.todo /\ w.phase \in {"collect", "link"} /\ w.phase \in Phases
    BY <1>f
  <2>4. DOMAIN w = Fields /\ UnderWay(w) /\ p \in Programs /\ w.prog = p
    BY <1>b, <2>3
  <2>5. UnderWay(v) /\ v.phase = w.phase
    BY <2>1, <2>2, <2>3, <2>4, IgnoringIsWhole
  <2> QED BY <1>1, <1>c, <1>d, <1>e, <2>1, <2>2, <2>3, <2>5 DEF Ignore
<1>2. ASSUME UseOverride(b)
      PROVE  Wholeness'
  <2>1. PICK k \in Requests(b) :
          /\ ~Ignorable(w, k) /\ Replaced(w, k)
          /\ build' = [build EXCEPT ![b] = Advance(w, k, RedirectEntry(w, k, OverrideOp(k.fam)), {})]
    BY <1>0, <1>2 DEF UseOverride
  <2>2. PICK e, v : e = RedirectEntry(w, k, OverrideOp(k.fam)) /\ v = Advance(w, k, e, {})
    OBVIOUS
  <2>3. k \in w.todo /\ w.phase \in {"collect", "link"} /\ w.phase \in Phases
    BY <1>f
  <2>4. DOMAIN w = Fields /\ UnderWay(w) /\ p \in Programs /\ w.prog = p
    BY <1>b, <2>3
  <2>5. /\ e.key = k /\ e.text.kind # "missing"
        /\ e.hard = {} /\ \A x \in e.soft : Served(p, x)
    <3>1. e = Entry(k, Redirect(p, OverrideOp(k.fam), TypeAt(p, k)))
      BY <2>2, <2>4 DEF RedirectEntry
    <3> QED BY <2>4, <3>1, RedirectIsWhole
  <2>6. CallsAskable(p, e)
    BY <2>5 DEF CallsAskable
  <2>7. PICK codes : codes = {}
    OBVIOUS
  <2>8. v = Advance(w, k, e, codes) /\ Replaced(w, k) /\ codes = {}
    BY <2>1, <2>2, <2>7
  <2>9. UnderWay(v) /\ v.phase = w.phase
    BY <2>1, <2>3, <2>4, <2>5, <2>6, <2>8, AdvanceIsWhole
  <2> QED BY <1>2, <1>c, <1>d, <1>e, <2>1, <2>2, <2>3, <2>9 DEF UseOverride
<1>3. ASSUME Reuse(b)
      PROVE  Wholeness'
  <2>1. PICK k \in Requests(b) :
          /\ ~Ignorable(w, k) /\ ~Replaced(w, k)
          /\ \E r \in Hits(w, k) : build' = [build EXCEPT ![b] = Advance(w, k, Entry(k, r.text), r.codes)]
    BY <1>0, <1>3 DEF Reuse
  <2>2. PICK r \in Hits(w, k) : build' = [build EXCEPT ![b] = Advance(w, k, Entry(k, r.text), r.codes)]
    BY <2>1
  <2>3. PICK e, codes, v : e = Entry(k, r.text) /\ codes = r.codes /\ v = Advance(w, k, e, codes)
    OBVIOUS
  <2>4. k \in w.todo /\ w.phase \in {"collect", "link"} /\ w.phase \in Phases
    BY <1>f
  <2>5. DOMAIN w = Fields /\ UnderWay(w) /\ p \in Programs /\ w.prog = p
    BY <1>b, <2>4
  <2>6. Askable(p, k)
    BY <2>1, <2>4, <2>5, RequestIsAskable DEF UnderWay, Ignorable
  <2>7. r \in disk /\ r.file = File(p, k) /\ Usable(p, TypeAt(p, k), r)
    BY <2>2, <2>5 DEF Hits, FilesAt
  <2>8. /\ e.key = k /\ e.text.kind # "missing" /\ CallsAskable(p, e)
        /\ \E q \in Programs : FoundBy(p, e, codes, q)
    <3>1. RecordIsWhole(r)
      BY <1>a, <2>7 DEF FilesAreWhole
    <3> QED BY <2>3, <2>5, <2>6, <2>7, <3>1, ReuseIsWhole
  <2>9. UnderWay(v) /\ v.phase = w.phase
    BY <2>1, <2>3, <2>4, <2>5, <2>8, AdvanceIsWhole
  <2> QED BY <1>3, <1>c, <1>d, <1>e, <2>2, <2>3, <2>4, <2>9 DEF Reuse
<1>4. ASSUME Compile(b)
      PROVE  Wholeness'
  <2>1. PICK k \in Requests(b) :
          /\ ~Ignorable(w, k) /\ ~Replaced(w, k)
          /\ \E text \in {Text(p, k.fam, TypeAt(p, k), k.armed)} :
             \E v \in Verdicts(w, Tested(p, k.fam, TypeAt(p, k))) :
             \E codes \in {Attributed(p, TypeAt(p, k), v.codes \cup Codes(p, k.fam, TypeAt(p, k)))} :
                /\ build' = [build EXCEPT ![b] =
                      [Advance(w, k, Entry(k, text), codes)
                          EXCEPT !.engine = v.engine, !.asked = v.asked]]
                /\ Persist(w, k, text, codes)
    BY <1>0, <1>4 DEF Compile
  <2>2. PICK text, a :
          /\ text = Text(p, k.fam, TypeAt(p, k), k.armed)
          /\ a \in Verdicts(w, Tested(p, k.fam, TypeAt(p, k)))
          /\ \E codes \in {Attributed(p, TypeAt(p, k), a.codes \cup Codes(p, k.fam, TypeAt(p, k)))} :
                /\ build' = [build EXCEPT ![b] =
                      [Advance(w, k, Entry(k, text), codes)
                          EXCEPT !.engine = a.engine, !.asked = a.asked]]
                /\ Persist(w, k, text, codes)
    BY <2>1
  <2>3. PICK codes :
          /\ codes = Attributed(p, TypeAt(p, k), a.codes \cup Codes(p, k.fam, TypeAt(p, k)))
          /\ build' = [build EXCEPT ![b] =
                [Advance(w, k, Entry(k, text), codes)
                    EXCEPT !.engine = a.engine, !.asked = a.asked]]
          /\ Persist(w, k, text, codes)
    BY <2>2
  <2>4. PICK e, x, v :
          /\ e = Entry(k, text) /\ x = Advance(w, k, e, codes)
          /\ v = [x EXCEPT !.engine = a.engine, !.asked = a.asked]
    OBVIOUS
  <2>5. k \in w.todo /\ w.phase \in {"collect", "link"} /\ w.phase \in Phases
    BY <1>f
  <2>6. DOMAIN w = Fields /\ UnderWay(w) /\ p \in Programs /\ w.prog = p
    BY <1>b, <2>5
  <2>7. Askable(p, k)
    BY <2>1, <2>5, <2>6, RequestIsAskable DEF UnderWay, Ignorable
  <2>8. /\ Owed(p, k.fam, TypeAt(p, k)) \subseteq codes
        /\ codes \subseteq Codes(p, k.fam, TypeAt(p, k)) \cup {"unverified"}
    <3>1. a.codes \subseteq {"unverified"}
      BY <2>2 DEF Verdicts
    <3>2. TypesAreTold => Provenance(p, TypeAt(p, k)) # {}
      BY <2>6, <2>7, TypeIsFound DEF Askable, TypesAreTold
    <3> QED BY <2>3, <3>1, <3>2 DEF Attributed, Owed
  <2>9. /\ e.key = k /\ e.text.kind # "missing" /\ CallsAskable(p, e)
        /\ FoundBy(p, e, codes, p)
    BY <2>2, <2>4, <2>6, <2>7, <2>8, WalkIsWhole
  <2>10. UnderWay(x) /\ x.phase = w.phase
    BY <2>1, <2>4, <2>5, <2>6, <2>9, AdvanceIsWhole
  <2>11. UnderWay(v) /\ v.phase = w.phase
    <3>1. DOMAIN x = Fields
      BY <2>4, <2>6 DEF Advance
    <3>2. /\ v.prog = x.prog /\ v.graph = x.graph /\ v.found = x.found
          /\ v.phase = x.phase /\ v.todo = x.todo /\ v.rounds = x.rounds
      BY <2>4, <3>1 DEF Fields
    <3> QED BY <2>10, <3>2, SameIsWhole
  <2>12. FilesAreWhole'
    <3>1. PICK r : r = Record(w, k, text, codes)
      OBVIOUS
    <3>2. r.file = File(p, k) /\ r.text = text /\ r.codes = codes
      BY <2>6, <3>1 DEF Record
    <3>3. r.file.fam = k.fam /\ k.fam \in Walkers /\ k.fam # "je"
      BY <2>7, <3>2 DEF File, Askable, Walkers
    <3>4. TypeAt(p, k) \in Types
      BY <2>6, <2>7, TypeIsFound, InternedIsClosed DEF Askable
    <3>5. text.slot.armed = k.armed
      BY <2>2 DEF Text, Key
    <3>6. RecordIsWhole(r)
      BY <2>2, <2>6, <2>8, <3>2, <3>3, <3>4, <3>5 DEF RecordIsWhole
    <3>7. Write(r) \/ UNCHANGED disk
      BY <2>3, <3>1 DEF Persist
    <3> QED BY <1>a, <3>6, <3>7, WritingIsWhole
  <2> QED BY <1>c, <1>e, <2>3, <2>4, <2>5, <2>11, <2>12
<1>5. ASSUME Compose(b)
      PROVE  Wholeness'
  <2>1. PICK v : v = [w EXCEPT !.phase = "compose", !.todo = EncodersOf(w.prog)]
    OBVIOUS
  <2>2. build' = [build EXCEPT ![b] = v] /\ w.phase = "collect" /\ w.todo = {} /\ UNCHANGED disk
    BY <1>0, <1>5, <2>1 DEF Compose
  <2>3. w.phase \in Phases /\ "compose" \in Phases
    BY <2>2 DEF Phases
  <2>4. UnderWay(v) /\ v.phase = "compose"
    BY <1>b, <2>1, <2>2, <2>3, ComposingIsWhole
  <2> QED BY <1>c, <1>d, <1>e, <2>2, <2>3, <2>4
<1>6. ASSUME OverrideEncoder(b)
      PROVE  Wholeness'
  <2>1. PICK k \in Encoders(b) : build' = [build EXCEPT ![b] = Add(w, k, RedirectEntry(w, k, "je"))]
    BY <1>0, <1>6 DEF OverrideEncoder
  <2>2. PICK e, v : e = RedirectEntry(w, k, "je") /\ v = Add(w, k, e)
    OBVIOUS
  <2>3. k \in w.todo /\ w.phase = "compose" /\ w.phase \in Phases
    BY <1>g
  <2>4. DOMAIN w = Fields /\ UnderWay(w) /\ p \in Programs /\ w.prog = p
    BY <1>b, <2>3
  <2>5. k \in EncodersOf(p)
    BY <2>3, <2>4 DEF UnderWay, TodoIsAskable
  <2>6. /\ e.key = k /\ e.text.kind # "missing"
        /\ e.hard = {} /\ \A x \in e.soft : Served(p, x)
    <3>1. e = Entry(k, Redirect(p, "je", TypeAt(p, k)))
      BY <2>2, <2>4 DEF RedirectEntry
    <3> QED BY <2>4, <3>1, RedirectIsWhole
  <2>7. OfEncoder(p, e)
    BY <2>5, <2>6 DEF OfEncoder
  <2>8. UnderWay(v) /\ v.phase = w.phase
    BY <2>2, <2>3, <2>4, <2>6, <2>7, AddingIsWhole
  <2> QED BY <1>6, <1>c, <1>d, <1>e, <2>1, <2>2, <2>3, <2>8 DEF OverrideEncoder
<1>7. ASSUME ReuseEncoder(b)
      PROVE  Wholeness'
  <2>1. PICK k \in Encoders(b) :
          /\ ~EncoderReplaced(w, k)
          /\ \E r \in EncoderHits(w, k) : build' = [build EXCEPT ![b] = Add(w, k, Entry(k, r.text))]
    BY <1>0, <1>7 DEF ReuseEncoder
  <2>2. PICK r \in EncoderHits(w, k) : build' = [build EXCEPT ![b] = Add(w, k, Entry(k, r.text))]
    BY <2>1
  <2>3. PICK text, e, v : text = r.text /\ e = Entry(k, text) /\ v = Add(w, k, e)
    OBVIOUS
  <2>4. k \in w.todo /\ w.phase = "compose" /\ w.phase \in Phases
    BY <1>g
  <2>5. DOMAIN w = Fields /\ UnderWay(w) /\ p \in Programs /\ w.prog = p
    BY <1>b, <2>4
  <2>6. k \in EncodersOf(p) /\ k.fam = "je"
    BY <2>4, <2>5 DEF UnderWay, TodoIsAskable, EncodersOf, Key
  <2>7. r \in disk /\ r.file.fam = "je" /\ r.file.id = k.id
    BY <2>2, <2>5, <2>6 DEF EncoderHits, FilesAt, File
  <2>8. /\ text.kind \in {"live", "noop"} /\ text.pure \subseteq {"findCycle"}
        /\ \A c \in text.calls : c.fam = "pjs" /\ c.id = k.id
    BY <1>a, <2>3, <2>7 DEF FilesAreWhole, RecordIsWhole, DiskIsSound, RecordIsSound
  <2>9. ~(~k.armed /\ Bodies(p, TypeAt(p, k), "je") # {})
    BY <2>1, <2>5 DEF EncoderReplaced
  <2>10. e.key = k /\ e.text.kind # "missing" /\ OfEncoder(p, e)
    BY <2>3, <2>5, <2>6, <2>8, <2>9, EncoderIsWhole
  <2>11. UnderWay(v) /\ v.phase = w.phase
    BY <2>3, <2>4, <2>5, <2>10, AddingIsWhole
  <2> QED BY <1>7, <1>c, <1>d, <1>e, <2>2, <2>3, <2>4, <2>11 DEF ReuseEncoder
<1>8. ASSUME BuildEncoder(b)
      PROVE  Wholeness'
  <2>1. PICK k \in Encoders(b) :
          /\ ~EncoderReplaced(w, k)
          /\ \E text \in {Encoder(p, TypeAt(p, k), k.armed, PrimitiveIsLive(w, k))} :
                /\ build' = [build EXCEPT ![b] = Add(w, k, Entry(k, text))]
                /\ IF Cacheable(w, k) THEN Write(Record(w, k, text, {})) ELSE UNCHANGED <<disk, faults>>
    BY <1>0, <1>8 DEF BuildEncoder
  <2>2. PICK text, live :
          /\ live = PrimitiveIsLive(w, k)
          /\ text = Encoder(p, TypeAt(p, k), k.armed, live)
          /\ build' = [build EXCEPT ![b] = Add(w, k, Entry(k, text))]
          /\ Write(Record(w, k, text, {})) \/ UNCHANGED disk
    BY <2>1
  <2>3. PICK e, v : e = Entry(k, text) /\ v = Add(w, k, e)
    OBVIOUS
  <2>4. k \in w.todo /\ w.phase = "compose" /\ w.phase \in Phases
    BY <1>g
  <2>5. DOMAIN w = Fields /\ UnderWay(w) /\ p \in Programs /\ w.prog = p
    BY <1>b, <2>4
  <2>6. k \in EncodersOf(p) /\ k.fam = "je" /\ Known(p, k)
    <3>1. k \in EncodersOf(p)
      BY <2>4, <2>5 DEF UnderWay, TodoIsAskable
    <3> QED BY <2>5, <3>1, EncodersAreKnown
  <2>7. /\ text.kind \in {"live", "noop"} /\ text.pure \subseteq {"findCycle"}
        /\ \A c \in text.calls : c.fam = "pjs" /\ c.id = k.id
    <3>1. text.kind \in {"live", "noop"} /\ text.pure \subseteq {"findCycle"}
      BY <2>2 DEF Encoder
    <3>2. \A c \in text.calls : c = CallTo(p, "pjs", TypeAt(p, k))
      BY <2>2 DEF Encoder, EncoderCalls
    <3>3. HashOf(p, TypeAt(p, k)) = k.id
      BY <2>5, <2>6, TypeIsFound
    <3> QED BY <3>1, <3>2, <3>3 DEF CallTo
  <2>8. ~(~k.armed /\ Bodies(p, TypeAt(p, k), "je") # {})
    BY <2>1, <2>5 DEF EncoderReplaced
  <2>9. e.key = k /\ e.text.kind # "missing" /\ OfEncoder(p, e)
    BY <2>3, <2>5, <2>6, <2>7, <2>8, EncoderIsWhole
  <2>10. UnderWay(v) /\ v.phase = w.phase
    BY <2>3, <2>4, <2>5, <2>9, AddingIsWhole
  <2>11. FilesAreWhole'
    <3>1. PICK r : r = Record(w, k, text, {})
      OBVIOUS
    <3>2. r.file.fam = "je" /\ r.text = text
      BY <2>6, <3>1 DEF Record, File
    <3>3. RecordIsWhole(r)
      BY <2>7, <3>2 DEF RecordIsWhole, Walkers
    <3>4. Write(r) \/ UNCHANGED disk
      BY <2>2, <3>1
    <3> QED BY <1>a, <3>3, <3>4, WritingIsWhole
  <2> QED BY <1>c, <1>e, <2>2, <2>3, <2>4, <2>10, <2>11
<1>9. ASSUME Link(b)
      PROVE  Wholeness'
  <2>1. PICK v : v = [w EXCEPT !.phase = "link"]
    OBVIOUS
  <2>2. build' = [build EXCEPT ![b] = v] /\ w.phase = "compose" /\ w.todo = {} /\ UNCHANGED disk
    BY <1>0, <1>9, <2>1 DEF Link
  <2>3. w.phase \in Phases /\ "link" \in Phases
    BY <2>2 DEF Phases
  <2>4. UnderWay(v) /\ v.phase = "link"
    BY <1>b, <2>1, <2>2, <2>3, LinkingIsWhole
  <2> QED BY <1>c, <1>d, <1>e, <2>2, <2>3, <2>4
<1>10. ASSUME Follow(b)
       PROVE  Wholeness'
  <2>1. PICK todo, rounds, size, v :
          /\ todo = Wanted(w.graph)
          /\ rounds = IF w.rounds < MaxRounds THEN w.rounds + 1 ELSE w.rounds
          /\ size = Cardinality(w.graph)
          /\ v = [w EXCEPT !.todo = todo, !.rounds = rounds, !.size = size]
    OBVIOUS
  <2>2. build' = [build EXCEPT ![b] = v] /\ w.phase = "link" /\ w.todo = {} /\ UNCHANGED disk
    BY <1>0, <1>10, <2>1 DEF Follow
  <2>3. w.phase \in Phases
    BY <2>2 DEF Phases
  <2>4. DOMAIN w = Fields /\ UnderWay(w) /\ p \in Programs /\ w.prog = p
    BY <1>b, <2>3
  <2>5. UnderWay(v) /\ v.phase = "link"
    <3>1. /\ v.prog = p /\ v.graph = w.graph /\ v.found = w.found
          /\ v.phase = "link" /\ v.todo = Wanted(w.graph)
      BY <2>1, <2>2, <2>4 DEF Fields
    <3> QED BY <2>2, <2>4, <3>1, FollowingIsWhole
  <2> QED BY <1>c, <1>d, <1>e, <2>2, <2>3, <2>5
<1>11. ASSUME Finish(b)
       PROVE  Wholeness'
  <2>0. PICK demanded, found : demanded = Demanded(p) /\ found = w.found \cup Breaches(p, w.graph)
    OBVIOUS
  <2>1. PICK kept, served, whole :
          /\ kept = Cascade(w.graph) /\ served = ServeBuiltins(kept)
          /\ whole = AddMissingStubs(served, demanded)
          /\ build' = [build EXCEPT ![b] =
                [w EXCEPT !.phase = "done", !.graph = Reachable(whole, demanded), !.found = found]]
    <3>1. \E d \in {Demanded(build[b].prog)} :
          \E kept \in {Cascade(build[b].graph)} :
          \E served \in {ServeBuiltins(kept)} :
          \E whole \in {AddMissingStubs(served, d)} :
             build' = [build EXCEPT ![b] =
                [build[b] EXCEPT !.phase = "done", !.graph = Reachable(whole, d), !.found = found]]
      <4>1. found = build[b].found \cup Breaches(build[b].prog, build[b].graph)
        BY <1>0, <2>0
      <4> QED BY <1>11, <4>1 DEF Finish
    <3>a. \E d \in {demanded} :
          \E kept \in {Cascade(w.graph)} :
          \E served \in {ServeBuiltins(kept)} :
          \E whole \in {AddMissingStubs(served, d)} :
             build' = [build EXCEPT ![b] =
                [w EXCEPT !.phase = "done", !.graph = Reachable(whole, d), !.found = found]]
      BY <1>0, <2>0, <3>1
    <3>2. PICK kept :
            /\ kept = Cascade(w.graph)
            /\ \E served \in {ServeBuiltins(kept)} :
               \E whole \in {AddMissingStubs(served, demanded)} :
                  build' = [build EXCEPT ![b] =
                     [w EXCEPT !.phase = "done", !.graph = Reachable(whole, demanded), !.found = found]]
      BY <3>a
    <3>3. PICK served, whole :
            /\ served = ServeBuiltins(kept) /\ whole = AddMissingStubs(served, demanded)
            /\ build' = [build EXCEPT ![b] =
                  [w EXCEPT !.phase = "done", !.graph = Reachable(whole, demanded), !.found = found]]
      BY <3>2
    <3> QED BY <3>2, <3>3
  <2>2. w.phase = "link" /\ w.todo = {} /\ ~Follows(w) /\ UNCHANGED disk
    BY <1>0, <1>11 DEF Finish
  <2>3. w.phase \in Phases
    BY <2>2 DEF Phases
  <2>4. /\ DOMAIN w = Fields /\ UnderWay(w) /\ p \in Programs /\ w.prog = p
        /\ w.rounds \in 0..MaxRounds
    BY <1>b, <2>3
  <2>5. PICK graph, v :
          /\ graph = Reachable(whole, demanded)
          /\ v = [w EXCEPT !.phase = "done", !.graph = graph, !.found = found]
    OBVIOUS
  <2>6. whole = AddMissingStubs(served, Demanded(p)) /\ graph = Reachable(whole, Demanded(p))
    BY <2>0, <2>1, <2>5
  <2>7. WorkIsWhole(v)
    BY <2>0, <2>1, <2>2, <2>4, <2>5, <2>6, FinishingIsWhole
  <2> QED BY <1>c, <1>d, <2>1, <2>2, <2>5, <2>7
<1> QED BY <1>1, <1>2, <1>3, <1>4, <1>5, <1>6, <1>7, <1>8, <1>9, <1>10, <1>11 DEF Work

\* The second half of the invariant: every build is whole, and every file.
LEMMA WholenessHolds ==
  ASSUME EncodersStandAlone, BuiltinsAreServed
  PROVE  Spec => []Wholeness
<1>1. Init => Wholeness
  BY DEF Init, Wholeness
<1>2. ASSUME IInv, Wholeness, [Next]_vars
      PROVE  Wholeness'
  <2>0. BuildsAreSound /\ FilesAreWhole
    BY <1>2 DEF IInv, Wholeness, FilesAreWhole
  <2>1. ASSUME NEW b \in Builders, NEW p \in Programs, Start(b, p)
        PROVE  Wholeness'
    <3>1. WorkIsWhole(Opened(p))
      BY OpenedIsWhole
    <3>2. build' = [build EXCEPT ![b] = Opened(p)] /\ UNCHANGED disk
      BY <2>1 DEF Start
    <3>3. FilesAreWhole'
      BY <2>0, <3>2 DEF FilesAreWhole, RecordIsWhole
    <3> QED BY <1>2, <2>0, <3>1, <3>2, <3>3, OneIsWhole
  <2>2. ASSUME NEW b \in Builders, Work(b)
        PROVE  Wholeness'
    BY <1>2, <2>2, StepIsWhole
  <2>3. ASSUME NEW b \in Builders, Crash(b)
        PROVE  Wholeness'
    <3>1. build' = [build EXCEPT ![b] = Idle] /\ UNCHANGED disk
      BY <2>3 DEF Crash
    <3>2. FilesAreWhole'
      BY <2>0, <3>1 DEF FilesAreWhole, RecordIsWhole
    <3> QED BY <1>2, <2>0, <3>1, <3>2, OneIsWhole
  <2>4. ASSUME UNCHANGED build, FilesAreWhole'
        PROVE  Wholeness'
    <3>1. \A b \in Builders : build'[b] = Idle \/ WorkIsWhole(build'[b])
      BY <1>2, <2>4 DEF Wholeness
    <3> QED BY <2>4, <3>1 DEF Wholeness, FilesAreWhole, WorkIsWhole, UnderWay, EntriesAreWhole,
      CallsAreAsked, TodoIsAskable, RootsAreAsked, EncodersAreAsked, SoftsAreAsked,
      BodiesAreThere, FindingsHold, Asked, OfWalk, WalkedIn, Replaced, AllBound, AllTold
  <2>5. ASSUME NEW r \in disk, Spoil(r)
        PROVE  Wholeness'
    <3>1. PICK q : q = [r EXCEPT !.readable = FALSE]
      OBVIOUS
    <3>2. disk' = (disk \ {r}) \cup {q} /\ UNCHANGED build
      BY <2>5, <3>1 DEF Spoil
    <3>3. DOMAIN r = {"file", "text", "codes", "readable"} /\ RecordIsWhole(r)
      BY <1>2, <2>0 DEF IInv, DiskIsSound, RecordIsSound, FilesAreWhole
    <3>4. q.file = r.file /\ q.text = r.text /\ q.codes = r.codes
      BY <3>1, <3>3
    <3>5. RecordIsWhole(q)
      BY <3>3, <3>4 DEF RecordIsWhole
    <3>6. FilesAreWhole'
      BY <2>0, <3>2, <3>5 DEF FilesAreWhole, RecordIsWhole
    <3> QED BY <2>4, <3>2, <3>6
  <2>6. CASE UNCHANGED vars
    <3>1. UNCHANGED build /\ UNCHANGED disk
      BY <2>6 DEF vars
    <3>2. FilesAreWhole'
      BY <2>0, <3>1 DEF FilesAreWhole, RecordIsWhole
    <3> QED BY <2>4, <3>1, <3>2
  <2> QED BY <1>2, <2>1, <2>2, <2>3, <2>5, <2>6 DEF Next
<1> QED BY <1>1, <1>2, InvariantHolds, PTL DEF Spec

(* A finished build serves every function a call site demands and every    *)
(* function a served one calls: whatever the cache held and whatever was   *)
(* killed on the way, nothing is left to a stub at run time, when the      *)
(* encoders that are generated stand on primitives that are, and the table *)
(* has every built-in function a text calls (CollectFamilyEntries,         *)
(* resolveCrossFamilyEdges, Cascade).                                      *)
THEOREM CallsAreBound ==
  ASSUME EncodersStandAlone, BuiltinsAreServed
  PROVE  Spec => []EveryCallIsBound
<1>1. IInv /\ Wholeness => EveryCallIsBound
  BY DEF Wholeness, WorkIsWhole, AllBound, EveryCallIsBound, Done, Idle
<1> QED BY <1>1, InvariantHolds, WholenessHolds, PTL

(* No finished build reports what does not hold: a finding at a call site  *)
(* is about a type that the site pulls in, whatever the search left out    *)
(* (replayCachedDiagnostics).                                              *)
THEOREM NothingStale ==
  ASSUME EncodersStandAlone, BuiltinsAreServed
  PROVE  Spec => []NoStaleFindings
<1>1. IInv /\ Wholeness => NoStaleFindings
  BY DEF Wholeness, WorkIsWhole, FindingsHold, NoStaleFindings, Done, Idle
<1> QED BY <1>1, InvariantHolds, WholenessHolds, PTL

(* What a finished build reports at a call site holds there; and, if each  *)
(* type is told to some site, a site whose search is not cut by its depth  *)
(* is told of everything it pulls in: however the functions are divided,   *)
(* and whether one was walked or taken from the cache                      *)
(* (replayCachedDiagnostics, inheritProvenanceToDescendants).              *)
THEOREM FindingsExact ==
  ASSUME EncodersStandAlone, BuiltinsAreServed, TypesAreTold
  PROVE  Spec => []FindingsAreExact
<1>1. IInv /\ Wholeness => FindingsReachTheirSites
  <2> SUFFICES ASSUME Wholeness, NEW b \in Done, NEW s \in Sites(build[b].prog),
                      Told[s.type] = Reach(s.type), NEW f \in Walks(build[b].prog, s)
               PROVE  ReportAt(Due(build[b].prog, f, s.type), {s.at}) \subseteq build[b].found
    BY DEF FindingsReachTheirSites
  <2>1. AllTold(build[b])
    BY DEF Wholeness, WorkIsWhole, Done, Idle
  <2> QED BY <2>1 DEF AllTold
<1> QED BY <1>1, NothingStale, InvariantHolds, WholenessHolds, PTL DEF FindingsAreExact

\* A search that can meet no more types than its depth leaves none out.
LEMMA ShallowIsTold ==
  ASSUME NEW t \in Types, Cardinality(Reach(t)) <= DepthCap + 1
  PROVE  Told[t] = Reach(t)
<1>1. DepthCap \in Nat /\ Told[t] \in SUBSET Types
  BY SearchAssumption
<1>2. PICK depth \in [Told[t] -> 0..(DepthCap + 1)] : IsSearch(t, depth)
  BY SearchAssumption
<1>3. Told[t] \subseteq Reach(t) /\ IsFiniteSet(Reach(t)) /\ IsFiniteSet(Told[t])
  <2>1. Told[t] \subseteq Reach(t) /\ Reach(t) \subseteq Types /\ IsFiniteSet(Types)
    BY ToldIsReached, ReachIsClosed, GraphAssumption
  <2> QED BY <2>1, FS_Subset
<1>4. Cardinality(Told[t]) <= DepthCap + 1
  <2>1. Cardinality(Told[t]) <= Cardinality(Reach(t))
    BY <1>3, FS_Subset
  <2> QED BY <1>1, <1>3, <2>1, FS_CardinalityType
<1>5. ASSUME NEW u \in Told[t], depth[u] = DepthCap + 1
      PROVE  FALSE
  <2> DEFINE N == DepthCap + 1
             S == {n \in 0..N : \E v \in Told[t] : depth[v] = N - n}
  <2>1. N \in Nat /\ 0 \in S
    BY <1>1, <1>5
  <2>2. \A n \in 0..N : n \in S /\ n < N => n+1 \in S
    <3> SUFFICES ASSUME NEW n \in 0..N, n \in S, n < N PROVE n+1 \in S
      OBVIOUS
    <3>1. PICK v \in Told[t] : depth[v] = N - n
      OBVIOUS
    <3>2. v # t
      BY <1>2, <2>1, <3>1 DEF IsSearch
    <3>3. PICK x \in Told[t] : depth[v] = depth[x] + 1 /\ depth[x] \in 0..N
      BY <1>2, <3>2 DEF IsSearch
    <3>4. depth[x] = N - (n+1) /\ n+1 \in 0..N
      BY <2>1, <3>1, <3>3
    <3> QED BY <3>4
  <2>3. 0..N \subseteq S
    <3> HIDE DEF S, N
    <3> QED BY <2>1, <2>2, Climb
  <2>4. \A m \in 0..N : \E v \in Told[t] : depth[v] = m
    <3> TAKE m \in 0..N
    <3>1. N - m \in 0..N /\ N - (N - m) = m
      BY <2>1
    <3>2. N - m \in S
      BY <2>3, <3>1
    <3> QED BY <3>1, <3>2
  <2>5. depth \in Surjection(Told[t], 0..N)
    BY <1>2, <2>4 DEF Surjection
  <2>6. Cardinality(0..N) <= Cardinality(Told[t])
    BY <1>3, <2>5, FS_Surjection
  <2>7. Cardinality(0..N) = N + 1
    BY <2>1, FS_Interval
  <2> QED BY <1>1, <1>3, <1>4, <2>6, <2>7, FS_CardinalityType
<1>6. \A v \in Told[t] : depth[v] <= DepthCap
  BY <1>1, <1>2, <1>5
<1>7. t \in Told[t] /\ \A v \in Told[t] : Kids[v] \subseteq Told[t]
  BY <1>2, <1>6 DEF IsSearch
<1>8. Reach(t) \subseteq Told[t]
  BY <1>1, <1>7, ReachNests
<1> QED BY <1>3, <1>8

(* Where no call site reaches more types than a search has levels, every   *)
(* type is told of and every site is told of all it pulls in, so           *)
(* FindingsExact leaves nothing out (inheritFrom, whose cap is 32).        *)
THEOREM ShallowSitesAreTold ==
  ASSUME \A p \in Programs : \A s \in Sites(p) : Cardinality(Reach(s.type)) <= DepthCap + 1
  PROVE  TypesAreTold /\ \A p \in Programs : \A s \in Sites(p) : Told[s.type] = Reach(s.type)
<1>1. \A p \in Programs : \A s \in Sites(p) : Told[s.type] = Reach(s.type)
  BY ShallowIsTold, ProjectAssumption
<1>2. ASSUME NEW p \in Programs, NEW t \in Interned(p)
      PROVE  Provenance(p, t) # {}
  <2>1. PICK s \in Sites(p) : t \in Reach(s.type)
    BY DEF Interned
  <2>2. t \in Told[s.type]
    BY <1>1, <2>1
  <2> QED BY <2>1, <2>2 DEF Provenance
<1> QED BY <1>1, <1>2 DEF TypesAreTold

\* What a pass is to bring is there already, once one was made.
LEMMA NothingIsLeft ==
  ASSUME NEW w, UnderWay(w), NEW p \in Programs, w.prog = p, w.phase = "link", w.todo = {},
         w.rounds # 0
  PROVE  Wanted(w.graph) = {}
<1> SUFFICES ASSUME NEW k \in Wanted(w.graph) PROVE FALSE
  OBVIOUS
<1>1. PICK v : v = [prog |-> p, graph |-> w.graph, found |-> w.found, phase |-> "link",
                    todo |-> Wanted(w.graph)]
  OBVIOUS
<1>2. UnderWay(v)
  BY <1>1, FollowingIsWhole
<1>3. k.fam = "val"
  BY <1>1, <1>2 DEF UnderWay, TodoIsAskable
<1>4. \E e \in w.graph : k \in e.soft
  BY DEF Wanted
<1>5. k \in KeysOf(w.graph)
  BY <1>3, <1>4 DEF UnderWay, SoftsAreAsked, Asked
<1> QED BY <1>5 DEF Wanted

(* One pass over the calls between families is enough: a build begins one  *)
(* only if it has made none, so the bound on the passes is never what ends *)
(* them (resolveCrossFamilyEdges, whose bound leaves the rest to stubs).   *)
THEOREM OnePassIsEnough ==
  ASSUME EncodersStandAlone, BuiltinsAreServed
  PROVE  Spec => [][\A b \in Builders : Follow(b) => build[b].rounds = 0]_vars
<1>1. ASSUME IInv, Wholeness, NEW b \in Builders, Follow(b)
      PROVE  build[b].rounds = 0
  <2>1. PICK w : w = build[b]
    OBVIOUS
  <2>2. w.phase = "link" /\ w.todo = {} /\ Wanted(w.graph) # {}
    BY <1>1, <2>1 DEF Follow, Follows
  <2>3. UnderWay(w) /\ w.prog \in Programs
    BY <1>1, <2>1, <2>2, WorkerIsWhole DEF Phases
  <2> QED BY <2>1, <2>2, <2>3, NothingIsLeft
<1>2. IInv /\ Wholeness => [\A b \in Builders : Follow(b) => build[b].rounds = 0]_vars
  BY <1>1
<1> QED BY <1>2, InvariantHolds, WholenessHolds, PTL
=============================================================================
