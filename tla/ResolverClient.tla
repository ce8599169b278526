--------------------------- MODULE ResolverClient ---------------------------
(***************************************************************************)
(* The connection between the JavaScript plugin and the Go `serve` daemon. *)
(*                                                                         *)
(* ResolverClient (resolver-client.ts) owns one child process at a time    *)
(* and talks to it one JSON line per message over stdio.  Messages carry   *)
(* no id: MessageTransport keeps the resolvers of the requests on the wire *)
(* in a FIFO `queue` and hands line k to request k.  When the child is     *)
(* lost, each interrupted call is retried once on a fresh child, as long   *)
(* as the respawn budget lasts and the owner has not closed the client.    *)
(* The daemon is serveRequests (main.go): read a request, dispatch it,     *)
(* write the response, until end of file on stdin.                         *)
(*                                                                         *)
(* A "generation" is one spawn: the child, its two pipes and its           *)
(* transport.  JavaScript runs to completion, so an action is one          *)
(* macrotask (a stream or process event, a timer), one call of the owner,  *)
(* or one continuation of `send` after its await.  Continuations of        *)
(* settled promises run before the next macrotask: the guard Quiescent.    *)
(***************************************************************************)
EXTENDS Integers, Sequences

CONSTANTS
  Requests,       \* the calls of send() the owner makes, one per element
  RespawnBudget   \* initial respawnsLeft (3 in the code)

ASSUME BudgetAssumption == RespawnBudget \in Nat

Gens == 1 .. RespawnBudget + 1

VARIABLES
  serverMode,       \* opts.serverMode: the child holds state, never replaced
  cur,              \* generation of this.transport / this.child
  respawnsLeft,     \* lifetime respawn budget
  intentionalClose, \* the owner called close()
  proc,             \* proc[g]: the child process as the OS sees it
  killed,           \* killed[g]: SIGTERM sent, stdin ended
  trans,            \* trans[g]: MessageTransport closed / closing flags
  queue,            \* queue[g]: calls waiting for a line, oldest first
  inPipe,           \* inPipe[g]: requests written, not yet dispatched
  outPipe,          \* outPipe[g]: lines written, not yet read by the host
  phase,            \* phase[r]: where the call's send() is
  attempt,          \* attempt[r]: generation the call last used
  wake,             \* wake[r]: settled promise send() has yet to resume from
  reply             \* reply[r]: the request whose response line r was given

hostVars == <<serverMode, cur, respawnsLeft, intentionalClose, trans, queue>>
callVars == <<phase, attempt, wake, reply>>
procVars == <<proc, killed, inPipe, outPipe>>
vars == <<hostVars, procVars, callVars>>

\* "failed" is a spawn that produced no process; "hung" serves no more.
ProcStates  == {"none", "up", "hung", "failed", "dead", "reaped"}
LossReasons == {"resolver exited", "spawn failed", "resolver is closed"}
Outcomes    == LossReasons \union {"answer", "parse"}
Phases      == {"idle", "first", "second"} \union Outcomes
Nobody      == "nobody"

Line == [req : Requests, whole : BOOLEAN]

TypeOK ==
  /\ serverMode \in BOOLEAN
  /\ cur \in Gens
  /\ respawnsLeft \in 0 .. RespawnBudget
  /\ intentionalClose \in BOOLEAN
  /\ proc \in [Gens -> ProcStates]
  /\ killed \in [Gens -> BOOLEAN]
  /\ trans \in [Gens -> {"open", "closing", "closed"}]
  /\ queue \in [Gens -> Seq(Requests)]
  /\ inPipe \in [Gens -> Seq(Requests)]
  /\ outPipe \in [Gens -> Seq(Line)]
  /\ phase \in [Requests -> Phases]
  /\ attempt \in [Requests -> Gens]
  /\ wake \in [Requests -> Outcomes \union {"none"}]
  /\ reply \in [Requests -> Requests \union {Nobody}]

-----------------------------------------------------------------------------

Init ==
  /\ serverMode \in BOOLEAN
  /\ cur = 1
  /\ respawnsLeft = RespawnBudget
  /\ intentionalClose = FALSE
  /\ \E s \in {"up", "failed"} :
       proc = [g \in Gens |-> IF g = 1 THEN s ELSE "none"]
  /\ killed = [g \in Gens |-> FALSE]
  /\ trans = [g \in Gens |-> "open"]
  /\ queue = [g \in Gens |-> <<>>]
  /\ inPipe = [g \in Gens |-> <<>>]
  /\ outPipe = [g \in Gens |-> <<>>]
  /\ phase = [r \in Requests |-> "idle"]
  /\ attempt = [r \in Requests |-> 1]
  /\ wake = [r \in Requests |-> "none"]
  /\ reply = [r \in Requests |-> Nobody]

\* The microtask queue is empty: no continuation of send() is runnable.
Quiescent == \A r \in Requests : wake[r] = "none"

CanRespawn == ~intentionalClose /\ ~serverMode /\ respawnsLeft > 0

\* Fault: the newest call is put at the head of the FIFO.
RequestUnshifts(g, r) ==
  IF trans[g] = "open"
    THEN /\ queue' = [queue EXCEPT ![g] = <<r>> \o @]
         /\ inPipe' = [inPipe EXCEPT ![g] = Append(@, r)]
         /\ wake' = [wake EXCEPT ![r] = "none"]
    ELSE /\ wake' = [wake EXCEPT ![r] = "resolver is closed"]
         /\ UNCHANGED <<queue, inPipe>>

\* MessageTransport.request of generation g for call r: refuse once closed or
\* closing (the async function's throw), else join the queue and write.
Request(g, r) ==
  IF trans[g] = "open"
    THEN /\ queue' = [queue EXCEPT ![g] = Append(@, r)]
         /\ inPipe' = [inPipe EXCEPT ![g] = Append(@, r)]
         /\ wake' = [wake EXCEPT ![r] = "none"]
    ELSE /\ wake' = [wake EXCEPT ![r] = "resolver is closed"]
         /\ UNCHANGED <<queue, inPipe>>

-----------------------------------------------------------------------------
(* The owner's calls.                                                      *)

Send(r) ==
  /\ phase[r] = "idle"
  /\ phase' = [phase EXCEPT ![r] = "first"]
  /\ attempt' = [attempt EXCEPT ![r] = cur]
  /\ Request(cur, r)
  /\ UNCHANGED <<serverMode, cur, respawnsLeft, intentionalClose, trans,
                 proc, killed, outPipe, reply>>

\* Fault: close() kills at once, whatever is in flight.
CloseEagerly ==
  /\ ~intentionalClose
  /\ intentionalClose' = TRUE
  /\ trans' = [trans EXCEPT ![cur] = "closed"]
  /\ killed' = [killed EXCEPT ![cur] = TRUE]
  /\ UNCHANGED <<serverMode, cur, respawnsLeft, queue, proc, inPipe, outPipe, callVars>>

\* A second close() finds closed or closing set and changes nothing.
Close ==
  /\ ~intentionalClose
  /\ intentionalClose' = TRUE
  /\ \/ /\ trans[cur] = "open"
        /\ queue[cur] = <<>>
        /\ trans' = [trans EXCEPT ![cur] = "closed"]
        /\ killed' = [killed EXCEPT ![cur] = TRUE]
     \/ /\ trans[cur] = "open"
        /\ queue[cur] # <<>>
        /\ trans' = [trans EXCEPT ![cur] = "closing"]
        /\ UNCHANGED killed
     \/ /\ trans[cur] # "open"
        /\ UNCHANGED <<trans, killed>>
  /\ UNCHANGED <<serverMode, cur, respawnsLeft, queue, proc, inPipe, outPipe, callVars>>

-----------------------------------------------------------------------------
(* send() after its await.                                                 *)

\* Nothing to retry, or no right to: the caller gets the outcome.
Finish(r) ==
  /\ wake[r] # "none"
  /\ \/ phase[r] = "second"
     \/ wake[r] \notin LossReasons
     \/ ~CanRespawn
  /\ phase' = [phase EXCEPT ![r] = wake[r]]
  /\ wake' = [wake EXCEPT ![r] = "none"]
  /\ UNCHANGED <<hostVars, procVars, attempt, reply>>

\* Fault: no transport identity check, every interrupted call spawns.
RespawnForEach(r) ==
  /\ phase[r] = "first"
  /\ wake[r] \in LossReasons
  /\ CanRespawn
  /\ respawnsLeft' = respawnsLeft - 1
  /\ cur' = cur + 1
  /\ killed' = [killed EXCEPT ![cur] = TRUE]
  /\ \E s \in {"up", "failed"} : proc' = [proc EXCEPT ![cur + 1] = s]
  /\ phase' = [phase EXCEPT ![r] = "second"]
  /\ attempt' = [attempt EXCEPT ![r] = cur + 1]
  /\ Request(cur + 1, r)
  /\ UNCHANGED <<serverMode, intentionalClose, trans, outPipe, reply>>

\* respawnFor when this call is the first to miss its child: spend budget,
\* kill the old child, spawn, and replay on the fresh transport.
RespawnAndRetry(r) ==
  /\ phase[r] = "first"
  /\ wake[r] \in LossReasons
  /\ CanRespawn
  /\ attempt[r] = cur
  /\ respawnsLeft' = respawnsLeft - 1
  /\ cur' = cur + 1
  /\ killed' = [killed EXCEPT ![cur] = TRUE]
  /\ \E s \in {"up", "failed"} : proc' = [proc EXCEPT ![cur + 1] = s]
  /\ phase' = [phase EXCEPT ![r] = "second"]
  /\ attempt' = [attempt EXCEPT ![r] = cur + 1]
  /\ Request(cur + 1, r)
  /\ UNCHANGED <<serverMode, intentionalClose, trans, outPipe, reply>>

\* respawnFor when another call already replaced the child: reuse it.
ReuseAndRetry(r) ==
  /\ phase[r] = "first"
  /\ wake[r] \in LossReasons
  /\ CanRespawn
  /\ attempt[r] # cur
  /\ phase' = [phase EXCEPT ![r] = "second"]
  /\ attempt' = [attempt EXCEPT ![r] = cur]
  /\ Request(cur, r)
  /\ UNCHANGED <<serverMode, cur, respawnsLeft, intentionalClose, trans,
                 proc, killed, outPipe, reply>>

-----------------------------------------------------------------------------
(* Stream, process and timer events of the host.                           *)

\* readline's 'line'.  A child killed in the middle of a write leaves an
\* unfinished last line, which readline emits when the stream ends.
ReadLine(g) ==
  /\ Quiescent
  /\ outPipe[g] # <<>>
  /\ outPipe' = [outPipe EXCEPT ![g] = Tail(@)]
  /\ \/ /\ queue[g] = <<>>
        /\ UNCHANGED <<queue, trans, killed, wake, reply>>
     \/ /\ queue[g] # <<>>
        /\ queue' = [queue EXCEPT ![g] = Tail(@)]
        /\ LET r == Head(queue[g])
               line == Head(outPipe[g])
           IN  /\ wake' = [wake EXCEPT
                             ![r] = IF line.whole THEN "answer" ELSE "parse"]
               /\ reply' = [reply EXCEPT ![r] = line.req]
        /\ IF trans[g] = "closing" /\ Len(queue[g]) = 1
             THEN /\ trans' = [trans EXCEPT ![g] = "closed"]
                  /\ killed' = [killed EXCEPT ![g] = TRUE]
             ELSE UNCHANGED <<trans, killed>>
  /\ UNCHANGED <<serverMode, cur, respawnsLeft, intentionalClose, proc, inPipe,
                 phase, attempt>>

\* Fault: markClosed leaves the waiting calls in the queue.
ChildGoneUnnoticed(g) ==
  /\ Quiescent
  /\ proc[g] \in {"dead", "failed"}
  /\ proc' = [proc EXCEPT ![g] = "reaped"]
  /\ trans' = [trans EXCEPT ![g] = "closed"]
  /\ UNCHANGED <<serverMode, cur, respawnsLeft, intentionalClose, killed, queue,
                 inPipe, outPipe, callVars>>

\* The child's 'exit', or 'error' for a spawn that failed: markClosed.  It may
\* come before the last lines have been read.
ChildGone(g) ==
  /\ Quiescent
  /\ proc[g] \in {"dead", "failed"}
  /\ proc' = [proc EXCEPT ![g] = "reaped"]
  /\ trans' = [trans EXCEPT ![g] = "closed"]
  /\ LET reason == IF proc[g] = "dead" THEN "resolver exited"
                                       ELSE "spawn failed"
         lost == {queue[g][i] : i \in DOMAIN queue[g]}
     IN  wake' = [r \in Requests |-> IF r \in lost THEN reason ELSE wake[r]]
  /\ queue' = [queue EXCEPT ![g] = <<>>]
  /\ UNCHANGED <<serverMode, cur, respawnsLeft, intentionalClose, killed, inPipe, outPipe,
                 phase, attempt, reply>>

\* Fault: the drain timer closes the transport but spares the child.
DrainTimeoutSpares(g) ==
  /\ Quiescent
  /\ trans[g] = "closing"
  /\ trans' = [trans EXCEPT ![g] = "closed"]
  /\ UNCHANGED <<serverMode, cur, respawnsLeft, intentionalClose, queue,
                 procVars, callVars>>

\* CLOSE_DRAIN_TIMEOUT_MS passed: finishClose releases the child anyway.
DrainTimeout(g) ==
  /\ Quiescent
  /\ trans[g] = "closing"
  /\ trans' = [trans EXCEPT ![g] = "closed"]
  /\ killed' = [killed EXCEPT ![g] = TRUE]
  /\ UNCHANGED <<serverMode, cur, respawnsLeft, intentionalClose, queue,
                 proc, inPipe, outPipe, callVars>>

-----------------------------------------------------------------------------
(* The child.                                                              *)

\* Fault: the newest request is dispatched first.
ServeNewest(g) ==
  /\ proc[g] = "up"
  /\ inPipe[g] # <<>>
  /\ LET n == Len(inPipe[g])
     IN  /\ inPipe' = [inPipe EXCEPT ![g] = SubSeq(@, 1, n - 1)]
         /\ outPipe' = [outPipe EXCEPT
                          ![g] = Append(@, [req |-> inPipe[g][n], whole |-> TRUE])]
  /\ UNCHANGED <<hostVars, callVars, proc, killed>>

\* serveRequests: one request in, its response line out.
Serve(g) ==
  /\ proc[g] = "up"
  /\ inPipe[g] # <<>>
  /\ inPipe' = [inPipe EXCEPT ![g] = Tail(@)]
  /\ outPipe' = [outPipe EXCEPT
                   ![g] = Append(@, [req |-> Head(inPipe[g]), whole |-> TRUE])]
  /\ UNCHANGED <<hostVars, callVars, proc, killed>>

\* A dispatch that never returns.
Hang(g) ==
  /\ proc[g] = "up"
  /\ proc' = [proc EXCEPT ![g] = "hung"]
  /\ UNCHANGED <<hostVars, callVars, killed, inPipe, outPipe>>

\* An external kill, a fatal startup error, a crash: unasked for.
Crash(g) ==
  /\ proc[g] \in {"up", "hung"}
  /\ proc' = [proc EXCEPT ![g] = "dead"]
  /\ UNCHANGED <<hostVars, callVars, killed, inPipe, outPipe>>

\* The same, while a response was partly written.
CrashMidWrite(g) ==
  /\ proc[g] = "up"
  /\ inPipe[g] # <<>>
  /\ proc' = [proc EXCEPT ![g] = "dead"]
  /\ inPipe' = [inPipe EXCEPT ![g] = Tail(@)]
  /\ outPipe' = [outPipe EXCEPT
                   ![g] = Append(@, [req |-> Head(inPipe[g]), whole |-> FALSE])]
  /\ UNCHANGED <<hostVars, callVars, killed>>

\* The host's SIGTERM takes effect.
Terminate(g) ==
  /\ killed[g]
  /\ proc[g] \in {"up", "hung"}
  /\ proc' = [proc EXCEPT ![g] = "dead"]
  /\ UNCHANGED <<hostVars, callVars, killed, inPipe, outPipe>>

-----------------------------------------------------------------------------

Next ==
  \/ Close
  \/ \E r \in Requests :
       Send(r) \/ Finish(r) \/ RespawnAndRetry(r) \/ ReuseAndRetry(r)
  \/ \E g \in Gens :
       \/ ReadLine(g) \/ ChildGone(g) \/ DrainTimeout(g)
       \/ Serve(g) \/ Hang(g) \/ Crash(g) \/ CrashMidWrite(g) \/ Terminate(g)

\* The event loop delivers its events and runs its continuations; a child
\* that has not hung keeps serving; a signal sent is acted on.  The owner
\* need not call anything, and no fault need happen.
Fairness ==
  /\ \A r \in Requests :
       WF_vars(Finish(r) \/ RespawnAndRetry(r) \/ ReuseAndRetry(r))
  /\ \A g \in Gens :
       /\ WF_vars(ReadLine(g))
       /\ WF_vars(ChildGone(g))
       /\ WF_vars(DrainTimeout(g))
       /\ WF_vars(Serve(g))
       /\ WF_vars(Terminate(g))

Spec == Init /\ [][Next]_vars /\ Fairness

-----------------------------------------------------------------------------
(* Properties.                                                             *)

Settled(r) == phase[r] \in Outcomes

\* The lines carry no id, so correlation rests on order alone.  Whatever
\* mixture of crashes, late lines, retries and draining closes happened, a
\* response handed to a call is the response to that call.
OwnAnswer ==
  \A r \in Requests : reply[r] \in {r, Nobody}

\* respawnFor replaces a child only after its loss was observed: no superseded
\* child is still running beside the current one.
SupersededAreReaped ==
  \A g \in Gens : g < cur => proc[g] = "reaped"

\* close() drains before it kills (the buildEnd race): the host signals a
\* child that still owes responses only from the draining state, which means
\* the drain timer fired.
DrainBeforeKill ==
  [][\A g \in Gens :
       (~killed[g] /\ killed'[g] /\ queue'[g] # <<>>) => trans[g] = "closing"]_vars

\* Every call settles, unless some dispatch hangs: there is no per-request
\* timeout to save it then.
CallsSettle ==
  \A r \in Requests :
    phase[r] # "idle" ~> (Settled(r) \/ \E g \in Gens : proc[g] = "hung")

\* After close() even a hung child cannot wedge teardown: it is gone and the
\* calls it held are settled.
CloseReleases ==
  intentionalClose ~>
    /\ \A g \in Gens : proc[g] \notin {"up", "hung"}
    /\ \A r \in Requests : phase[r] = "idle" \/ Settled(r)

-----------------------------------------------------------------------------
(* The inductive invariant behind the theorems of ResolverClientProofs.    *)

\* Each generation after the first was paid for out of the budget.
BudgetInv == cur + respawnsLeft = RespawnBudget + 1

\* Generations not spawned yet are untouched.
FreshInv ==
  \A g \in Gens : g > cur =>
    proc[g] = "none" /\ trans[g] = "open" /\ queue[g] = <<>>

\* A transport stops being open through an intentional close or because the
\* loss of its child was observed, and then nothing waits on it.
ClosedInv ==
  \A g \in Gens :
    /\ trans[g] # "open" => intentionalClose \/ proc[g] = "reaped"
    /\ proc[g] = "reaped" => trans[g] = "closed" /\ queue[g] = <<>>

\* A call about to learn of a loss lost a child that is known to be gone.
WakeInv ==
  \A r \in Requests :
    /\ attempt[r] <= cur
    /\ wake[r] # "none" => phase[r] \in {"first", "second"}
    /\ wake[r] \in LossReasons =>
         intentionalClose \/ proc[attempt[r]] = "reaped"

\* A queued call waits on that generation only, and only once.
QueueInv ==
  \A g \in Gens :
    /\ \A i \in 1 .. Len(queue[g]) :
         /\ attempt[queue[g][i]] = g
         /\ wake[queue[g][i]] = "none"
         /\ phase[queue[g][i]] \in {"first", "second"}
    /\ \A i, j \in 1 .. Len(queue[g]) : queue[g][i] = queue[g][j] => i = j

\* The lines on their way back followed by the requests on their way out are,
\* in order, the calls that wait, unless markClosed gave up on them all.
Matches(waiting, lines, reqs) ==
  /\ Len(waiting) = Len(lines) + Len(reqs)
  /\ \A i \in 1 .. Len(lines) : lines[i].req = waiting[i]
  /\ \A i \in 1 .. Len(reqs) : reqs[i] = waiting[Len(lines) + i]

MatchInv ==
  \A g \in Gens :
    \/ Matches(queue[g], outPipe[g], inPipe[g])
    \/ trans[g] = "closed" /\ queue[g] = <<>>

IInv ==
  /\ TypeOK
  /\ BudgetInv
  /\ FreshInv
  /\ SupersededAreReaped
  /\ ClosedInv
  /\ WakeInv
  /\ QueueInv
  /\ MatchInv
  /\ OwnAnswer

-----------------------------------------------------------------------------
(* What the client promises, without pipes, queues or children.            *)

Faulty ==
  \/ intentionalClose
  \/ \E g \in Gens : proc[g] \in {"failed", "dead", "reaped"}

Service == INSTANCE RequestService WITH
  status <- [r \in Requests |->
               IF phase[r] = "idle" THEN "idle"
               ELSE IF phase[r] \in {"first", "second"} THEN "pending"
               ELSE IF phase[r] = "answer" THEN "answered"
               ELSE "failed"],
  answer <- [r \in Requests |->
               IF phase[r] = "answer" THEN reply[r] ELSE Nobody],
  faulty <- Faulty

\* The client implements the abstract request service.
ServiceSpec == Service!Spec
=============================================================================
