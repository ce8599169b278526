------------------------ MODULE NextElectionProofs ------------------------
(***************************************************************************)
(* Proofs about NextElection, for any number of contenders, any of which   *)
(* may leave or be killed.  One inductive invariant carries all three      *)
(* theorems; the step that matters is Listen, which adds a serving broker: *)
(* nobody can have seen it serve before.                                   *)
(***************************************************************************)
EXTENDS NextElection, TLAPS

LEMMA InitHolds == Init => IInv
<1>1. SUFFICES ASSUME Init PROVE IInv
  OBVIOUS
<1>2. TypeOK
  BY <1>1 DEF Init, TypeOK, States, Placed
<1>3. NameIsOfABinder
  BY <1>1, ContendersAssumption DEF Init, NameIsOfABinder
<1>4. SeenWereOwners /\ TakeoverSparesTheSeen
  BY <1>1 DEF Init, SeenWereOwners, TakeoverSparesTheSeen
<1> QED BY <1>2, <1>3, <1>4 DEF IInv

LEMMA TypeStep == TypeOK /\ [Next]_vars => TypeOK'
<1>1. SUFFICES ASSUME TypeOK, [Next]_vars PROVE TypeOK'
  OBVIOUS
<1>2. CASE UNCHANGED vars
  BY <1>1, <1>2 DEF TypeOK, vars
<1>3. ASSUME NEW c \in Contenders,
             Step(c) \/ StartClose(c) \/ Exit(c) \/ Crash(c)
      PROVE  TypeOK'
  BY <1>1, <1>3 DEF TypeOK, Step, Bind, Listen, BindTaken, Probe, Unlink, StartClose,
     FinishClose, Exit, Crash, States, Placed, Serving
<1> QED BY <1>1, <1>2, <1>3 DEF Next

LEMMA NameStep == TypeOK /\ NameIsOfABinder /\ [Next]_vars => NameIsOfABinder'
<1>1. SUFFICES ASSUME TypeOK, NameIsOfABinder, [Next]_vars PROVE NameIsOfABinder'
  OBVIOUS
<1>2. CASE UNCHANGED vars
  BY <1>1, <1>2 DEF NameIsOfABinder, vars
<1>3. ASSUME NEW c \in Contenders,
             Step(c) \/ StartClose(c) \/ Exit(c) \/ Crash(c)
      PROVE  NameIsOfABinder'
  BY <1>1, <1>3, ContendersAssumption DEF TypeOK, NameIsOfABinder, Step, Bind, Listen,
     BindTaken, Probe, Unlink, StartClose, FinishClose, Exit, Crash
<1> QED BY <1>1, <1>2, <1>3 DEF Next

\* Once a broker serves it never starts over, and only a broker that serves is
\* ever noted as seen.
LEMMA SeenStep == TypeOK /\ SeenWereOwners /\ [Next]_vars => SeenWereOwners'
<1>1. SUFFICES ASSUME TypeOK, SeenWereOwners, [Next]_vars PROVE SeenWereOwners'
  OBVIOUS
<1>2. CASE UNCHANGED vars
  BY <1>1, <1>2 DEF SeenWereOwners, vars
<1>3. ASSUME NEW c \in Contenders,
             Step(c) \/ StartClose(c) \/ Exit(c) \/ Crash(c)
      PROVE  SeenWereOwners'
  <2>1. CASE BindTaken(c)
    BY <1>1, <2>1 DEF TypeOK, SeenWereOwners, BindTaken, Serving, WasOwner
  <2>2. ASSUME ~BindTaken(c)
        PROVE  /\ seen' = seen
               /\ \A e \in Contenders : pc[e] \in WasOwner => pc'[e] \in WasOwner
    BY <1>1, <1>3, <2>2 DEF TypeOK, Step, Bind, Listen, Probe, Unlink, StartClose,
       FinishClose, Exit, Crash, WasOwner
  <2>3. CASE ~BindTaken(c)
    BY <1>1, <2>2, <2>3 DEF TypeOK, SeenWereOwners
  <2> QED BY <2>1, <2>3
<1> QED BY <1>1, <1>2, <1>3 DEF Next

LEMMA TakeoverStep == IInv /\ [Next]_vars => TakeoverSparesTheSeen'
<1>1. SUFFICES ASSUME IInv, [Next]_vars PROVE TakeoverSparesTheSeen'
  OBVIOUS
<1>2. CASE UNCHANGED vars
  BY <1>1, <1>2 DEF IInv, TakeoverSparesTheSeen, Serving, vars
<1>3. ASSUME NEW c \in Contenders,
             Step(c) \/ StartClose(c) \/ Exit(c) \/ Crash(c)
      PROVE  TakeoverSparesTheSeen'
  <2>1. CASE Listen(c)
    \* The newcomer was seen by nobody: what is seen has been an owner.
    <3>1. \A d \in Contenders : c \notin seen[d]
      BY <1>1, <2>1 DEF IInv, TypeOK, SeenWereOwners, Listen, WasOwner
    <3>2. Serving' \subseteq Serving \union {c}
      BY <1>1, <2>1 DEF IInv, TypeOK, Listen, Serving
    <3> QED BY <1>1, <2>1, <3>1, <3>2 DEF IInv, TypeOK, TakeoverSparesTheSeen, Listen
  <2>2. CASE BindTaken(c)
    <3>1. Serving' \subseteq Serving
      BY <1>1, <2>2 DEF IInv, TypeOK, BindTaken, Serving
    <3> QED BY <1>1, <2>2, <3>1 DEF IInv, TypeOK, TakeoverSparesTheSeen, BindTaken
  <2>3. CASE Probe(c)
    \* Only a contender that nobody answers goes on to unlink.
    <3>1. Serving' \subseteq Serving
      BY <1>1, <2>3 DEF IInv, TypeOK, Probe, Serving
    <3>2. pc'[c] = "unlinking" => Serving = {}
      BY <1>1, <2>3 DEF IInv, TypeOK, Probe
    <3> QED BY <1>1, <2>3, <3>1, <3>2 DEF IInv, TypeOK, TakeoverSparesTheSeen, Probe
  <2>4. CASE Bind(c) \/ Unlink(c) \/ FinishClose(c) \/ StartClose(c) \/ Exit(c) \/ Crash(c)
    <3>1. Serving' \subseteq Serving
      <4>1. path' \in {path, None, c}
        BY <2>4 DEF Bind, Unlink, FinishClose, StartClose, Exit, Crash
      <4>2. \A d \in Contenders : pc'[d] = "owner" => pc[d] = "owner" /\ d # c
        BY <1>1, <2>4 DEF IInv, TypeOK, Bind, Unlink, FinishClose, StartClose, Exit, Crash
      <4> QED BY <4>1, <4>2, ContendersAssumption DEF Serving
    <3>2. seen' = seen
      BY <2>4 DEF Bind, Unlink, FinishClose, StartClose, Exit, Crash
    <3>3. \A d \in Contenders : pc'[d] = "unlinking" => pc[d] = "unlinking"
      BY <1>1, <2>4 DEF IInv, TypeOK, Bind, Unlink, FinishClose, StartClose, Exit, Crash
    <3> QED BY <1>1, <3>1, <3>2, <3>3 DEF IInv, TakeoverSparesTheSeen
  <2> QED BY <1>3, <2>1, <2>2, <2>3, <2>4 DEF Step
<1> QED BY <1>1, <1>2, <1>3 DEF Next

\* The conjuncts hold together for ever: each of the theorems below is one of
\* them.
THEOREM InvariantHolds == Safety => []IInv
<1>1. IInv /\ [Next]_vars => IInv'
  BY TypeStep, NameStep, SeenStep, TakeoverStep DEF IInv
<1> QED BY InitHolds, <1>1, PTL DEF Safety

\* The variables keep their types; in particular only contenders are ever noted
\* as seen.
THEOREM TypeCorrect == Safety => []TypeOK
<1>1. IInv => TypeOK
  BY DEF IInv
<1> QED BY InvariantHolds, <1>1, PTL

\* startBroker's takeover never removes the name of a broker that was serving
\* when its own bind failed.
THEOREM TakeoverIsOfNewcomers == Safety => []TakeoverSparesTheSeen
<1>1. IInv => TakeoverSparesTheSeen
  BY DEF IInv
<1> QED BY InvariantHolds, <1>1, PTL

\* The socket's name is that of a contender about to serve, of a serving broker
\* or of a killed process: an orderly end never leaves it behind.
THEOREM NoNameIsLeftBehind == Safety => []NameIsOfABinder
<1>1. IInv => NameIsOfABinder
  BY DEF IInv
<1> QED BY InvariantHolds, <1>1, PTL
=============================================================================
