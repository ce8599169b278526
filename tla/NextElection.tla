---------------------------- MODULE NextElection ----------------------------
(***************************************************************************)
(* The election of the Next.js broker: startBroker, isLive, unlinkQuietly  *)
(* and close of packages/ts-runtypes-devtools/src/next/broker.ts.          *)
(*                                                                         *)
(* Every call of startBroker on one socket path is a contender.  It binds  *)
(* the path and listens, or finds the path taken and probes it: it joins a *)
(* broker that answers, and otherwise unlinks the path and starts over.    *)
(* The file system offers bind (fails when the name exists) and unlink     *)
(* (removes whatever has the name), and nothing that does both.            *)
(*                                                                         *)
(* Not here: the broker's work once it serves, and Windows, whose pipes    *)
(* have no name to unlink.                                                 *)
(***************************************************************************)
EXTENDS Naturals, FiniteSets

CONSTANTS Contenders,   \* calls of startBroker on one path
          Leavers,      \* those whose owner may close the broker or exit
          Crashers,     \* those whose process may be killed
          None,         \* nothing has the name
          Stale         \* a socket file left by a build that was killed before

ASSUME ContendersAssumption ==
  /\ Leavers \subseteq Contenders
  /\ Crashers \subseteq Contenders
  /\ None \notin Contenders
  /\ Stale \notin Contenders

VARIABLES path,   \* whose socket has the name
          pc,     \* where each contender is
          seen    \* history: the broker serving when a contender's bind failed

vars == <<path, pc, seen>>

Placed  == {"owner", "client", "closing", "closed", "exited", "crashed"}
WasOwner == {"owner", "closing", "closed", "exited", "crashed"}
States  == Placed \union {"starting", "bound", "probing", "unlinking"}

TypeOK ==
  /\ path \in Contenders \union {None, Stale}
  /\ pc \in [Contenders -> States]
  /\ seen \in [Contenders -> SUBSET Contenders]

Init ==
  /\ path \in {None, Stale}
  /\ pc = [c \in Contenders |-> "starting"]
  /\ seen = [c \in Contenders |-> {}]

\* A connect reaches a broker: the path names a socket that listens.
Serving == {c \in Contenders : path = c /\ pc[c] = "owner"}

-----------------------------------------------------------------------------
\* server.listen binds the name and then listens: two system calls, and
\* another process may look in between.
Bind(c) ==
  /\ pc[c] = "starting"
  /\ path = None
  /\ path' = c
  /\ pc' = [pc EXCEPT ![c] = "bound"]
  /\ UNCHANGED seen

Listen(c) ==
  /\ pc[c] = "bound"
  /\ pc' = [pc EXCEPT ![c] = "owner"]
  /\ UNCHANGED <<path, seen>>

\* EADDRINUSE: somebody has the name.
BindTakenTrusted(c) ==
  /\ pc[c] = "starting"
  /\ path # None
  /\ pc' = [pc EXCEPT ![c] = "client"]
  /\ UNCHANGED <<path, seen>>

BindTaken(c) ==
  /\ pc[c] = "starting"
  /\ path # None
  /\ pc' = [pc EXCEPT ![c] = "probing"]
  /\ seen' = [seen EXCEPT ![c] = Serving]
  /\ UNCHANGED path

\* isLive: a connect that succeeds makes the contender a client.
ProbeBlindly(c) ==
  /\ pc[c] = "probing"
  /\ pc' = [pc EXCEPT ![c] = "unlinking"]
  /\ UNCHANGED <<path, seen>>

Probe(c) ==
  /\ pc[c] = "probing"
  /\ pc' = [pc EXCEPT ![c] = IF Serving # {} THEN "client" ELSE "unlinking"]
  /\ UNCHANGED <<path, seen>>

\* unlinkQuietly, then startBroker again.
UnlinkNothing(c) ==
  /\ pc[c] = "unlinking"
  /\ pc' = [pc EXCEPT ![c] = "starting"]
  /\ UNCHANGED <<path, seen>>

Unlink(c) ==
  /\ pc[c] = "unlinking"
  /\ path' = None
  /\ pc' = [pc EXCEPT ![c] = "starting"]
  /\ UNCHANGED seen

\* close(): closing the server stops listening and unlinks its name at once,
\* the close completes when the connections have ended, and the name is
\* unlinked once more, whoever has it by then.
StartClose(c) ==
  /\ c \in Leavers
  /\ pc[c] = "owner"
  /\ path' = None
  /\ pc' = [pc EXCEPT ![c] = "closing"]
  /\ UNCHANGED seen

FinishClose(c) ==
  /\ pc[c] = "closing"
  /\ path' = None
  /\ pc' = [pc EXCEPT ![c] = "closed"]
  /\ UNCHANGED seen

\* The exit handler of an owner's process unlinks the name, closed or not.
Exit(c) ==
  /\ c \in Leavers
  /\ pc[c] \in {"owner", "closing", "closed"}
  /\ path' = None
  /\ pc' = [pc EXCEPT ![c] = "exited"]
  /\ UNCHANGED seen

\* The process is killed: no handler runs and the name stays.
Crash(c) ==
  /\ c \in Crashers
  /\ pc[c] \notin {"exited", "crashed"}
  /\ pc' = [pc EXCEPT ![c] = "crashed"]
  /\ UNCHANGED <<path, seen>>

Step(c) ==
  Bind(c) \/ Listen(c) \/ BindTaken(c) \/ Probe(c) \/ Unlink(c) \/ FinishClose(c)

Next == \E c \in Contenders : Step(c) \/ StartClose(c) \/ Exit(c) \/ Crash(c)

\* A call that has begun runs on: every await in it is on the file system.
\* Nothing makes an owner close, exit or crash.
Fairness == \A c \in Contenders : WF_vars(Step(c))

Safety == Init /\ [][Next]_vars
Spec == Safety /\ Fairness

-----------------------------------------------------------------------------
\* The name never outlives an orderly end: what has it is about to serve, is
\* serving or was killed, so a name that nobody answers is a killed build's or
\* a newcomer's.
NameIsOfABinder ==
  path \in Contenders => pc[path] \in {"bound", "owner", "crashed"}

\* A contender about to unlink cannot hit the broker that was already serving
\* when its own bind failed: whatever it removes came up after that.
TakeoverSparesTheSeen ==
  \A c \in Contenders : pc[c] = "unlinking" => Serving \cap seen[c] = {}

\* A broker seen serving is past the election for good.
SeenWereOwners ==
  \A c \in Contenders : \A e \in seen[c] : pc[e] \in WasOwner

IInv == TypeOK /\ NameIsOfABinder /\ SeenWereOwners /\ TakeoverSparesTheSeen

\* Every call of startBroker returns: retries end, because each one that fails
\* again was beaten by a contender that has won.
ElectionSettles == \A c \in Contenders : <>(pc[c] \in Placed)

\* If nobody leaves and nobody is killed, the election ends with the path
\* answered for good, also when it began with a dead build's socket: every
\* unlink is followed by a bind.
Gone == {c \in Contenders : pc[c] \in {"closing", "closed", "exited", "crashed"}}
PathIsAnswered == [](Gone = {}) => <>[](Serving # {})

\* broker.ts:110-111: "Safe to call repeatedly and from several processes:
\* exactly one wins the election and the rest no-op."
OneOwner == Cardinality({c \in Contenders : pc[c] = "owner"}) <= 1
=============================================================================
