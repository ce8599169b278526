------------------------ MODULE ResolverClientProofs ------------------------
(***************************************************************************)
(* Proofs about ResolverClient, for any set of calls and any budget.       *)
(***************************************************************************)
EXTENDS ResolverClient, TLAPS

\* The sequence facts the provers need, once.
LEMMA AppendFacts ==
  ASSUME NEW S, NEW s \in Seq(S), NEW e \in S
  PROVE  /\ Append(s, e) \in Seq(S)
         /\ Len(Append(s, e)) = Len(s) + 1
         /\ \A i \in 1 .. Len(s) : Append(s, e)[i] = s[i]
         /\ Append(s, e)[Len(s) + 1] = e
         /\ Len(s) \in Nat
  OBVIOUS

LEMMA TailFacts ==
  ASSUME NEW S, NEW s \in Seq(S), s # <<>>
  PROVE  /\ Head(s) = s[1]
         /\ Head(s) \in S
         /\ Tail(s) \in Seq(S)
         /\ Len(Tail(s)) = Len(s) - 1
         /\ \A i \in 1 .. Len(Tail(s)) : Tail(s)[i] = s[i + 1]
         /\ Len(s) \in Nat \ {0}
  OBVIOUS

LEMMA EmptySeqType == \A S : <<>> \in Seq(S)
  OBVIOUS

LEMMA ExceptType ==
  ASSUME NEW D, NEW S, NEW f \in [D -> S], NEW d \in D, NEW v \in S
  PROVE  /\ [f EXCEPT ![d] = v] \in [D -> S]
         /\ [f EXCEPT ![d] = v][d] = v
         /\ \A e \in D : e # d => [f EXCEPT ![d] = v][e] = f[e]
  OBVIOUS

-----------------------------------------------------------------------------
(* Matches under the three moves of a request: written to the pipe,        *)
(* answered by the child, its line read by the host.                       *)

LEMMA MatchesAppend ==
  ASSUME NEW q \in Seq(Requests), NEW lines \in Seq(Line),
         NEW reqs \in Seq(Requests), NEW r \in Requests,
         Matches(q, lines, reqs)
  PROVE  Matches(Append(q, r), lines, Append(reqs, r))
<1> DEFINE q2 == Append(q, r)
           reqs2 == Append(reqs, r)
<1>1. /\ Len(q2) = Len(q) + 1 /\ Len(q) \in Nat
      /\ \A i \in 1 .. Len(q) : q2[i] = q[i]
      /\ q2[Len(q) + 1] = r
  OBVIOUS
<1>2. /\ Len(reqs2) = Len(reqs) + 1 /\ Len(reqs) \in Nat
      /\ \A i \in 1 .. Len(reqs) : reqs2[i] = reqs[i]
      /\ reqs2[Len(reqs) + 1] = r
  OBVIOUS
<1>3. Len(lines) \in Nat
  OBVIOUS
<1> HIDE DEF q2, reqs2
<1>4. Len(q) = Len(lines) + Len(reqs)
  BY DEF Matches
<1>5. Len(q2) = Len(lines) + Len(reqs2)
  BY <1>1, <1>2, <1>3, <1>4
<1>6. \A i \in 1 .. Len(lines) : lines[i].req = q2[i]
  BY <1>1, <1>2, <1>3, <1>4 DEF Matches
<1>7. \A i \in 1 .. Len(reqs2) : reqs2[i] = q2[Len(lines) + i]
  <2> TAKE i \in 1 .. Len(reqs2)
  <2>1. CASE i = Len(reqs) + 1
    BY <1>1, <1>2, <1>3, <1>4, <2>1
  <2>2. CASE i # Len(reqs) + 1
    <3>1. i \in 1 .. Len(reqs) /\ Len(lines) + i \in 1 .. Len(q)
      BY <1>1, <1>2, <1>3, <1>4, <2>2
    <3> QED BY <1>1, <1>2, <3>1 DEF Matches
  <2> QED BY <2>1, <2>2
<1> QED BY <1>5, <1>6, <1>7 DEF Matches, q2, reqs2

LEMMA MatchesServe ==
  ASSUME NEW q \in Seq(Requests), NEW lines \in Seq(Line),
         NEW reqs \in Seq(Requests), reqs # <<>>, NEW w \in BOOLEAN,
         Matches(q, lines, reqs)
  PROVE  Matches(q, Append(lines, [req |-> Head(reqs), whole |-> w]), Tail(reqs))
<1> DEFINE line == [req |-> Head(reqs), whole |-> w]
           lines2 == Append(lines, line)
           reqs2 == Tail(reqs)
<1>1. /\ Len(reqs2) = Len(reqs) - 1 /\ Len(reqs) \in Nat \ {0}
      /\ \A i \in 1 .. Len(reqs2) : reqs2[i] = reqs[i + 1]
      /\ Head(reqs) = reqs[1]
  OBVIOUS
<1>2. line \in Line /\ line.req = reqs[1]
  BY <1>1 DEF Line
<1> HIDE DEF line
<1>3. /\ Len(lines2) = Len(lines) + 1 /\ Len(lines) \in Nat
      /\ \A i \in 1 .. Len(lines) : lines2[i] = lines[i]
      /\ lines2[Len(lines) + 1] = line
  BY <1>2
<1> HIDE DEF lines2, reqs2
<1>4. Len(q) = Len(lines) + Len(reqs)
  BY DEF Matches
<1>5. Len(q) = Len(lines2) + Len(reqs2)
  BY <1>1, <1>3, <1>4
<1>6. \A i \in 1 .. Len(lines2) : lines2[i].req = q[i]
  <2> TAKE i \in 1 .. Len(lines2)
  <2>1. CASE i = Len(lines) + 1
    <3>1. 1 \in 1 .. Len(reqs)
      BY <1>1
    <3>2. reqs[1] = q[Len(lines) + 1]
      BY <3>1 DEF Matches
    <3> QED BY <1>2, <1>3, <2>1, <3>2
  <2>2. CASE i # Len(lines) + 1
    <3>1. i \in 1 .. Len(lines)
      BY <1>3, <2>2
    <3> QED BY <1>3, <3>1 DEF Matches
  <2> QED BY <2>1, <2>2
<1>7. \A i \in 1 .. Len(reqs2) : reqs2[i] = q[Len(lines2) + i]
  <2> TAKE i \in 1 .. Len(reqs2)
  <2>1. i + 1 \in 1 .. Len(reqs) /\ Len(lines2) + i = Len(lines) + (i + 1)
    BY <1>1, <1>3
  <2>2. reqs[i + 1] = q[Len(lines) + (i + 1)]
    BY <2>1 DEF Matches
  <2> QED BY <1>1, <2>1, <2>2
<1> QED BY <1>5, <1>6, <1>7 DEF Matches, lines2, reqs2, line

LEMMA MatchesRead ==
  ASSUME NEW q \in Seq(Requests), NEW lines \in Seq(Line),
         NEW reqs \in Seq(Requests), q # <<>>, lines # <<>>,
         Matches(q, lines, reqs)
  PROVE  /\ Matches(Tail(q), Tail(lines), reqs)
         /\ Head(lines).req = Head(q)
<1> DEFINE q2 == Tail(q)
           lines2 == Tail(lines)
<1>1. /\ Len(q2) = Len(q) - 1 /\ Len(q) \in Nat \ {0}
      /\ \A i \in 1 .. Len(q2) : q2[i] = q[i + 1]
      /\ Head(q) = q[1]
  OBVIOUS
<1>2. /\ Len(lines2) = Len(lines) - 1 /\ Len(lines) \in Nat \ {0}
      /\ \A i \in 1 .. Len(lines2) : lines2[i] = lines[i + 1]
      /\ Head(lines) = lines[1]
  OBVIOUS
<1>3. Len(reqs) \in Nat
  OBVIOUS
<1> HIDE DEF q2, lines2
<1>4. Len(q) = Len(lines) + Len(reqs)
  BY DEF Matches
<1>5. Head(lines).req = Head(q)
  <2>1. 1 \in 1 .. Len(lines)
    BY <1>2
  <2> QED BY <1>1, <1>2, <2>1 DEF Matches
<1>6. Len(q2) = Len(lines2) + Len(reqs)
  BY <1>1, <1>2, <1>3, <1>4
<1>7. \A i \in 1 .. Len(lines2) : lines2[i].req = q2[i]
  <2> TAKE i \in 1 .. Len(lines2)
  <2>1. i + 1 \in 1 .. Len(lines) /\ i \in 1 .. Len(q2)
    BY <1>1, <1>2, <1>3, <1>4
  <2> QED BY <1>1, <1>2, <2>1 DEF Matches
<1>8. \A i \in 1 .. Len(reqs) : reqs[i] = q2[Len(lines2) + i]
  <2> TAKE i \in 1 .. Len(reqs)
  <2>1. /\ Len(lines2) + i \in 1 .. Len(q2)
        /\ (Len(lines2) + i) + 1 = Len(lines) + i
    BY <1>1, <1>2, <1>3, <1>4
  <2> QED BY <1>1, <2>1 DEF Matches
<1> QED BY <1>5, <1>6, <1>7, <1>8 DEF Matches, q2, lines2

-----------------------------------------------------------------------------
LEMMA InitIInv == Init => IInv
<1> SUFFICES ASSUME Init PROVE IInv
  OBVIOUS
<1>1. TypeOK
  <2>1. 1 \in Gens /\ respawnsLeft \in 0 .. RespawnBudget
    BY BudgetAssumption DEF Init, Gens
  <2>2. proc \in [Gens -> ProcStates]
    BY DEF Init, ProcStates
  <2>3. /\ queue \in [Gens -> Seq(Requests)]
        /\ inPipe \in [Gens -> Seq(Requests)]
        /\ outPipe \in [Gens -> Seq(Line)]
    BY DEF Init
  <2>4. /\ phase \in [Requests -> Phases]
        /\ wake \in [Requests -> Outcomes \union {"none"}]
        /\ reply \in [Requests -> Requests \union {Nobody}]
    BY DEF Init, Phases
  <2> QED BY <2>1, <2>2, <2>3, <2>4 DEF Init, TypeOK
<1>2. BudgetInv /\ FreshInv /\ SupersededAreReaped
  BY BudgetAssumption DEF Init, BudgetInv, FreshInv, SupersededAreReaped, Gens
<1>3. ClosedInv /\ WakeInv /\ QueueInv /\ MatchInv /\ OwnAnswer
  BY BudgetAssumption DEF Init, ClosedInv, WakeInv, QueueInv, MatchInv, Matches,
    OwnAnswer, Gens, LossReasons
<1> QED BY <1>1, <1>2, <1>3 DEF IInv

\* What Request may change keeps its type.
TypeOKAfterRequest ==
  /\ queue' \in [Gens -> Seq(Requests)]
  /\ inPipe' \in [Gens -> Seq(Requests)]
  /\ wake' \in [Requests -> Outcomes \union {"none"}]

LEMMA RequestType ==
  ASSUME TypeOK, NEW g \in Gens, NEW r \in Requests, Request(g, r)
  PROVE  TypeOKAfterRequest
<1>1. CASE trans[g] = "open"
  <2>1. /\ Append(queue[g], r) \in Seq(Requests)
        /\ Append(inPipe[g], r) \in Seq(Requests)
    BY AppendFacts DEF TypeOK
  <2>2. /\ queue' \in [Gens -> Seq(Requests)]
        /\ inPipe' \in [Gens -> Seq(Requests)]
    <3>1. /\ queue' = [queue EXCEPT ![g] = Append(@, r)]
          /\ inPipe' = [inPipe EXCEPT ![g] = Append(@, r)]
      BY <1>1 DEF Request
    <3>2. queue \in [Gens -> Seq(Requests)] /\ inPipe \in [Gens -> Seq(Requests)]
      BY DEF TypeOK
    <3> QED BY <3>1, <3>2
  <2>3. wake' \in [Requests -> Outcomes \union {"none"}]
    BY <1>1 DEF Request, TypeOK
  <2> QED BY <2>2, <2>3 DEF TypeOKAfterRequest
<1>2. CASE trans[g] # "open"
  BY <1>2 DEF Request, TypeOK, TypeOKAfterRequest, Outcomes, LossReasons
<1> QED BY <1>1, <1>2

LEMMA TypeStep == TypeOK /\ BudgetInv /\ [Next]_vars => TypeOK'
<1> SUFFICES ASSUME TypeOK, BudgetInv, [Next]_vars PROVE TypeOK'
  OBVIOUS
<1> USE BudgetAssumption DEF TypeOK, Gens
<1>1. CASE Close
  BY <1>1 DEF Close, callVars
<1>2. ASSUME NEW r \in Requests, Send(r) PROVE TypeOK'
  <2>1. Request(cur, r)
    BY <1>2 DEF Send
  <2>2. TypeOKAfterRequest
    BY <2>1, RequestType
  <2> QED BY <1>2, <2>2 DEF Send, Phases, TypeOKAfterRequest
<1>3. ASSUME NEW r \in Requests, Finish(r) PROVE TypeOK'
  BY <1>3 DEF Finish, hostVars, procVars, Phases
<1>4. ASSUME NEW r \in Requests, RespawnAndRetry(r) PROVE TypeOK'
  <2>1. cur + 1 \in Gens /\ cur' \in Gens /\ respawnsLeft' \in 0 .. RespawnBudget
    BY <1>4 DEF RespawnAndRetry, CanRespawn, BudgetInv
  <2>2. Request(cur + 1, r)
    BY <1>4 DEF RespawnAndRetry
  <2>3. TypeOKAfterRequest
    BY <2>1, <2>2, RequestType
  <2>4. proc' \in [Gens -> ProcStates]
    BY <1>4 DEF RespawnAndRetry, ProcStates
  <2> QED BY <1>4, <2>1, <2>3, <2>4
          DEF RespawnAndRetry, Phases, TypeOKAfterRequest
<1>5. ASSUME NEW r \in Requests, ReuseAndRetry(r) PROVE TypeOK'
  <2>1. Request(cur, r)
    BY <1>5 DEF ReuseAndRetry
  <2>2. TypeOKAfterRequest
    BY <2>1, RequestType
  <2> QED BY <1>5, <2>2 DEF ReuseAndRetry, Phases, TypeOKAfterRequest
<1>6. ASSUME NEW g \in Gens, ReadLine(g) PROVE TypeOK'
  <2>1. outPipe' \in [Gens -> Seq(Line)]
    <3>1. Tail(outPipe[g]) \in Seq(Line)
      BY <1>6, TailFacts DEF ReadLine
    <3> QED BY <1>6, <3>1, ExceptType DEF ReadLine
  <2>2. CASE queue[g] = <<>>
    BY <1>6, <2>1, <2>2 DEF ReadLine
  <2>3. CASE queue[g] # <<>>
    <3>1. /\ Tail(queue[g]) \in Seq(Requests)
          /\ Head(queue[g]) \in Requests
          /\ Head(outPipe[g]) \in Line
      BY <1>6, <2>3, TailFacts DEF ReadLine
    <3>2. queue' \in [Gens -> Seq(Requests)]
      <4>1. queue' = [queue EXCEPT ![g] = Tail(@)]
        BY <1>6, <2>3 DEF ReadLine
      <4> QED BY <3>1, <4>1
    <3>3. /\ wake' \in [Requests -> Outcomes \union {"none"}]
          /\ reply' \in [Requests -> Requests \union {Nobody}]
      BY <1>6, <2>3, <3>1 DEF ReadLine, Outcomes, Line
    <3>4. /\ trans' \in [Gens -> {"open", "closing", "closed"}]
          /\ killed' \in [Gens -> BOOLEAN]
      BY <1>6, <2>3 DEF ReadLine
    <3> QED BY <1>6, <2>1, <3>2, <3>3, <3>4 DEF ReadLine
  <2> QED BY <2>2, <2>3
<1>7. ASSUME NEW g \in Gens, ChildGone(g) PROVE TypeOK'
  <2>1. queue' \in [Gens -> Seq(Requests)]
    BY <1>7, EmptySeqType, ExceptType DEF ChildGone
  <2>2. wake' \in [Requests -> Outcomes \union {"none"}]
    BY <1>7 DEF ChildGone, Outcomes, LossReasons
  <2> QED BY <1>7, <2>1, <2>2 DEF ChildGone, ProcStates
<1>8. ASSUME NEW g \in Gens, DrainTimeout(g) PROVE TypeOK'
  BY <1>8 DEF DrainTimeout, callVars
<1>9. ASSUME NEW g \in Gens, Serve(g) \/ CrashMidWrite(g) PROVE TypeOK'
  <2>1. inPipe' \in [Gens -> Seq(Requests)]
    <3>1. Tail(inPipe[g]) \in Seq(Requests)
      BY <1>9, TailFacts DEF Serve, CrashMidWrite
    <3>2. inPipe' = [inPipe EXCEPT ![g] = Tail(@)]
      BY <1>9 DEF Serve, CrashMidWrite
    <3> QED BY <3>1, <3>2
  <2>2. outPipe' \in [Gens -> Seq(Line)]
    <3> DEFINE line(w) == [req |-> Head(inPipe[g]), whole |-> w]
    <3>1. \A w \in BOOLEAN : line(w) \in Line
      BY <1>9, TailFacts DEF Serve, CrashMidWrite, Line
    <3>2. \A w \in BOOLEAN : Append(outPipe[g], line(w)) \in Seq(Line)
      BY <3>1, AppendFacts
    <3>3. outPipe' = [outPipe EXCEPT ![g] = Append(outPipe[g], line(TRUE))]
          \/ outPipe' = [outPipe EXCEPT ![g] = Append(outPipe[g], line(FALSE))]
      BY <1>9 DEF Serve, CrashMidWrite
    <3> HIDE DEF line
    <3> QED BY <3>2, <3>3
  <2> QED BY <1>9, <2>1, <2>2 DEF Serve, CrashMidWrite, hostVars, callVars, ProcStates
<1>10. ASSUME NEW g \in Gens, Hang(g) \/ Crash(g) \/ Terminate(g) PROVE TypeOK'
  BY <1>10 DEF Hang, Crash, Terminate, hostVars, callVars, ProcStates
<1>11. CASE UNCHANGED vars
  BY <1>11 DEF vars, hostVars, procVars, callVars
<1> QED BY <1>1, <1>2, <1>3, <1>4, <1>5, <1>6, <1>7, <1>8, <1>9, <1>10, <1>11
        DEF Next

-----------------------------------------------------------------------------
(* The inductive step, action by action.                                   *)

\* A call that is idle, or about to resume, waits in no queue.
LEMMA NotQueued ==
  ASSUME IInv, NEW r \in Requests, phase[r] = "idle" \/ wake[r] # "none",
         NEW g \in Gens, NEW i \in 1 .. Len(queue[g])
  PROVE  queue[g][i] # r
  BY DEF IInv, QueueInv

\* A call that enters the queue of generation g: sent, or retried there.
LEMMA EnterQueue ==
  ASSUME IInv, TypeOK', NEW g \in Gens, NEW r \in Requests, Request(g, r),
         phase[r] = "idle" \/ wake[r] # "none",
         attempt' = [attempt EXCEPT ![r] = g],
         NEW p \in {"first", "second"}, phase' = [phase EXCEPT ![r] = p],
         UNCHANGED <<trans, outPipe, reply>>
  PROVE  QueueInv' /\ MatchInv' /\ OwnAnswer'
<1>a. /\ queue \in [Gens -> Seq(Requests)]
      /\ inPipe \in [Gens -> Seq(Requests)]
      /\ outPipe \in [Gens -> Seq(Line)]
  BY DEF IInv, TypeOK
<1>b. /\ phase \in [Requests -> Phases]
      /\ attempt \in [Requests -> Gens]
      /\ wake \in [Requests -> Outcomes \union {"none"}]
  BY DEF IInv, TypeOK
<1>c. \A h \in Gens : \A i \in 1 .. Len(queue[h]) :
        queue[h][i] # r /\ queue[h][i] \in Requests
  BY <1>a, NotQueued
\* What is said of the calls already waiting still holds of them.
<1>d. \A h \in Gens : \A i \in 1 .. Len(queue[h]) :
        /\ attempt'[queue[h][i]] = h
        /\ wake'[queue[h][i]] = "none"
        /\ phase'[queue[h][i]] \in {"first", "second"}
  <2> TAKE h \in Gens
  <2> TAKE i \in 1 .. Len(queue[h])
  <2>1. queue[h][i] # r /\ queue[h][i] \in Requests
    BY <1>c
  <2>2. /\ attempt[queue[h][i]] = h
        /\ wake[queue[h][i]] = "none"
        /\ phase[queue[h][i]] \in {"first", "second"}
    BY DEF IInv, QueueInv
  <2>3. wake'[queue[h][i]] = wake[queue[h][i]]
    BY <1>b, <2>1 DEF Request
  <2> QED BY <1>b, <2>1, <2>2, <2>3
<1>1. OwnAnswer'
  BY DEF IInv, OwnAnswer
<1>2. CASE trans[g] # "open"
  <2>1. UNCHANGED <<queue, inPipe>>
    BY <1>2 DEF Request
  <2>2. QueueInv'
    <3>1. \A h \in Gens : \A i, j \in 1 .. Len(queue[h]) :
            queue[h][i] = queue[h][j] => i = j
      BY DEF IInv, QueueInv
    <3> QED BY <1>d, <2>1, <3>1 DEF QueueInv
  <2>3. MatchInv'
    BY <2>1 DEF IInv, MatchInv
  <2> QED BY <1>1, <2>2, <2>3
<1>3. CASE trans[g] = "open"
  <2>1. /\ queue' = [queue EXCEPT ![g] = Append(@, r)]
        /\ inPipe' = [inPipe EXCEPT ![g] = Append(@, r)]
        /\ wake' = [wake EXCEPT ![r] = "none"]
    BY <1>3 DEF Request
  <2>2. /\ Len(queue'[g]) = Len(queue[g]) + 1
        /\ \A i \in 1 .. Len(queue[g]) : queue'[g][i] = queue[g][i]
        /\ queue'[g][Len(queue[g]) + 1] = r
        /\ Len(queue[g]) \in Nat
    BY <1>a, <2>1
  <2>3. /\ Len(inPipe'[g]) = Len(inPipe[g]) + 1
        /\ \A i \in 1 .. Len(inPipe[g]) : inPipe'[g][i] = inPipe[g][i]
        /\ inPipe'[g][Len(inPipe[g]) + 1] = r
        /\ Len(inPipe[g]) \in Nat
    BY <1>a, <2>1
  <2>4. \A h \in Gens : h # g => queue'[h] = queue[h] /\ inPipe'[h] = inPipe[h]
    BY <1>a, <2>1
  <2>5. attempt'[r] = g /\ wake'[r] = "none" /\ phase'[r] \in {"first", "second"}
    BY <1>b, <2>1
  <2>6. QueueInv'
    <3> SUFFICES ASSUME NEW h \in Gens
                 PROVE  /\ \A i \in 1 .. Len(queue'[h]) :
                             /\ attempt'[queue'[h][i]] = h
                             /\ wake'[queue'[h][i]] = "none"
                             /\ phase'[queue'[h][i]] \in {"first", "second"}
                        /\ \A i, j \in 1 .. Len(queue'[h]) :
                             queue'[h][i] = queue'[h][j] => i = j
      BY DEF QueueInv
    <3>0. \A i, j \in 1 .. Len(queue[h]) : queue[h][i] = queue[h][j] => i = j
      BY DEF IInv, QueueInv
    <3>1. CASE h # g
      BY <1>d, <2>4, <3>0, <3>1
    <3>2. CASE h = g
      <4>1. \A i \in 1 .. Len(queue'[g]) :
              i \in 1 .. Len(queue[g]) \/ i = Len(queue[g]) + 1
        BY <2>2
      <4>2. \A i \in 1 .. Len(queue'[g]) :
              /\ attempt'[queue'[g][i]] = g
              /\ wake'[queue'[g][i]] = "none"
              /\ phase'[queue'[g][i]] \in {"first", "second"}
        BY <1>d, <2>2, <2>5, <4>1
      <4>3. \A i, j \in 1 .. Len(queue'[g]) :
              queue'[g][i] = queue'[g][j] => i = j
        BY <1>c, <2>2, <3>0, <3>2, <4>1
      <4> QED BY <3>2, <4>2, <4>3
    <3> QED BY <3>1, <3>2
  <2>7. MatchInv'
    <3> SUFFICES ASSUME NEW h \in Gens
                 PROVE  \/ Matches(queue'[h], outPipe'[h], inPipe'[h])
                        \/ trans'[h] = "closed" /\ queue'[h] = <<>>
      BY DEF MatchInv
    <3>0. \/ Matches(queue[h], outPipe[h], inPipe[h])
          \/ trans[h] = "closed" /\ queue[h] = <<>>
      BY DEF IInv, MatchInv
    <3>1. CASE h # g
      BY <2>4, <3>0, <3>1
    <3>2. CASE h = g
      <4>1. Matches(queue[g], outPipe[g], inPipe[g])
        BY <1>3, <3>0, <3>2
      <4>2. Matches(Append(queue[g], r), outPipe[g], Append(inPipe[g], r))
        BY <1>a, <4>1, MatchesAppend
      <4> QED BY <1>a, <2>1, <3>2, <4>2
    <3> QED BY <3>1, <3>2
  <2> QED BY <1>1, <2>6, <2>7
<1> QED BY <1>2, <1>3

LEMMA SendStep ==
  ASSUME IInv, TypeOK', NEW r \in Requests, Send(r)
  PROVE  IInv'
<1>1. QueueInv' /\ MatchInv' /\ OwnAnswer'
  <2>1. cur \in Gens
    BY DEF IInv, TypeOK
  <2> QED BY <2>1, EnterQueue DEF Send
<1>2. queue \in [Gens -> Seq(Requests)] /\ cur \in Gens
  BY DEF IInv, TypeOK
<1>3. \A g \in Gens : g # cur \/ trans[g] # "open" => queue'[g] = queue[g]
  BY <1>2 DEF Send, Request
<1>4. BudgetInv' /\ SupersededAreReaped'
  BY DEF Send, IInv, BudgetInv, SupersededAreReaped
<1>5. FreshInv'
  BY <1>2, <1>3 DEF Send, IInv, FreshInv, Gens
<1>6. ClosedInv'
  BY <1>3 DEF Send, IInv, ClosedInv
<1>7. WakeInv'
  <2>1. /\ attempt \in [Requests -> Gens]
        /\ phase \in [Requests -> Phases]
        /\ wake \in [Requests -> Outcomes \union {"none"}]
    BY DEF IInv, TypeOK
  <2> SUFFICES ASSUME NEW q \in Requests
               PROVE  /\ attempt'[q] <= cur
                      /\ wake'[q] # "none" => phase'[q] \in {"first", "second"}
                      /\ wake'[q] \in LossReasons =>
                           intentionalClose \/ proc[attempt'[q]] = "reaped"
    BY DEF WakeInv, Send
  <2>2. CASE q # r
    <3>1. attempt'[q] = attempt[q] /\ phase'[q] = phase[q] /\ wake'[q] = wake[q]
      BY <2>1, <2>2 DEF Send, Request
    <3> QED BY <3>1 DEF IInv, WakeInv
  <2>3. CASE q = r
    <3>1. attempt'[r] = cur /\ phase'[r] = "first"
      BY <2>1 DEF Send
    <3>2. trans[cur] = "open" => wake'[r] = "none"
      BY <2>1 DEF Send, Request
    <3>3. trans[cur] # "open" => intentionalClose \/ proc[cur] = "reaped"
      BY <1>2 DEF IInv, ClosedInv
    <3>4. attempt'[r] <= cur
      BY <1>2, <3>1, BudgetAssumption DEF Gens
    <3>5. wake'[r] \in LossReasons => intentionalClose \/ proc[cur] = "reaped"
      BY <3>2, <3>3 DEF LossReasons
    <3> QED BY <2>3, <3>1, <3>4, <3>5
  <2> QED BY <2>2, <2>3
<1> QED BY <1>1, <1>4, <1>5, <1>6, <1>7 DEF IInv

LEMMA ReuseStep ==
  ASSUME IInv, TypeOK', NEW r \in Requests, ReuseAndRetry(r)
  PROVE  IInv'
<1>1. QueueInv' /\ MatchInv' /\ OwnAnswer'
  <2>1. cur \in Gens
    BY DEF IInv, TypeOK
  <2>2. wake[r] # "none"
    BY DEF ReuseAndRetry, LossReasons
  <2> QED BY <2>1, <2>2, EnterQueue DEF ReuseAndRetry
<1>2. queue \in [Gens -> Seq(Requests)] /\ cur \in Gens
  BY DEF IInv, TypeOK
<1>3. \A g \in Gens : g # cur \/ trans[g] # "open" => queue'[g] = queue[g]
  BY <1>2 DEF ReuseAndRetry, Request
<1>4. BudgetInv' /\ SupersededAreReaped'
  BY DEF ReuseAndRetry, IInv, BudgetInv, SupersededAreReaped
<1>5. FreshInv'
  BY <1>2, <1>3 DEF ReuseAndRetry, IInv, FreshInv, Gens
<1>6. ClosedInv'
  BY <1>3 DEF ReuseAndRetry, IInv, ClosedInv
<1>7. WakeInv'
  <2>1. /\ attempt \in [Requests -> Gens]
        /\ phase \in [Requests -> Phases]
        /\ wake \in [Requests -> Outcomes \union {"none"}]
    BY DEF IInv, TypeOK
  <2> SUFFICES ASSUME NEW q \in Requests
               PROVE  /\ attempt'[q] <= cur
                      /\ wake'[q] # "none" => phase'[q] \in {"first", "second"}
                      /\ wake'[q] \in LossReasons =>
                           intentionalClose \/ proc[attempt'[q]] = "reaped"
    BY DEF WakeInv, ReuseAndRetry
  <2>2. CASE q # r
    <3>1. attempt'[q] = attempt[q] /\ phase'[q] = phase[q] /\ wake'[q] = wake[q]
      BY <2>1, <2>2 DEF ReuseAndRetry, Request
    <3> QED BY <3>1 DEF IInv, WakeInv
  <2>3. CASE q = r
    <3>1. attempt'[r] = cur /\ phase'[r] = "second"
      BY <2>1 DEF ReuseAndRetry
    <3>2. trans[cur] = "open" => wake'[r] = "none"
      BY <2>1 DEF ReuseAndRetry, Request
    <3>3. trans[cur] # "open" => intentionalClose \/ proc[cur] = "reaped"
      BY <1>2 DEF IInv, ClosedInv
    <3>4. attempt'[r] <= cur
      BY <1>2, <3>1, BudgetAssumption DEF Gens
    <3>5. wake'[r] \in LossReasons => intentionalClose \/ proc[cur] = "reaped"
      BY <3>2, <3>3 DEF LossReasons
    <3> QED BY <2>3, <3>1, <3>4, <3>5
  <2> QED BY <2>2, <2>3
<1> QED BY <1>1, <1>4, <1>5, <1>6, <1>7 DEF IInv

LEMMA RespawnStep ==
  ASSUME IInv, TypeOK', NEW r \in Requests, RespawnAndRetry(r)
  PROVE  IInv'
<1>1. /\ cur \in Gens /\ cur + 1 \in Gens /\ cur' = cur + 1
      /\ respawnsLeft' = respawnsLeft - 1 /\ respawnsLeft \in Nat
      /\ cur \in Nat
  BY BudgetAssumption
     DEF IInv, TypeOK, RespawnAndRetry, CanRespawn, BudgetInv, Gens
<1>2. /\ queue \in [Gens -> Seq(Requests)]
      /\ attempt \in [Requests -> Gens]
      /\ phase \in [Requests -> Phases]
      /\ wake \in [Requests -> Outcomes \union {"none"}]
      /\ proc \in [Gens -> ProcStates]
  BY DEF IInv, TypeOK
<1>3. trans[cur + 1] = "open" /\ queue[cur + 1] = <<>> /\ proc[cur + 1] = "none"
  BY <1>1 DEF IInv, FreshInv
<1>4. QueueInv' /\ MatchInv' /\ OwnAnswer'
  <2>1. wake[r] # "none"
    BY DEF RespawnAndRetry, LossReasons
  <2> QED BY <1>1, <2>1, EnterQueue DEF RespawnAndRetry
<1>5. \A g \in Gens : g # cur + 1 => queue'[g] = queue[g] /\ proc'[g] = proc[g]
  BY <1>2 DEF RespawnAndRetry, Request
<1>6. trans' = trans /\ intentionalClose' = intentionalClose
  BY DEF RespawnAndRetry
\* The generation given up is one whose loss was observed.
<1>7. proc[cur] = "reaped"
  BY DEF RespawnAndRetry, CanRespawn, IInv, WakeInv
<1>8. BudgetInv'
  BY <1>1, BudgetAssumption DEF IInv, BudgetInv
<1>9. SupersededAreReaped'
  <2> SUFFICES ASSUME NEW g \in Gens, g < cur + 1 PROVE proc'[g] = "reaped"
    BY <1>1 DEF SupersededAreReaped
  <2>1. g \in Nat /\ (g < cur \/ g = cur) /\ g # cur + 1
    BY <1>1, BudgetAssumption DEF Gens
  <2> QED BY <1>5, <1>7, <2>1 DEF IInv, SupersededAreReaped
<1>10. FreshInv'
  <2> SUFFICES ASSUME NEW g \in Gens, g > cur + 1
               PROVE  proc'[g] = "none" /\ trans'[g] = "open" /\ queue'[g] = <<>>
    BY <1>1 DEF FreshInv
  <2>1. g > cur /\ g # cur + 1
    BY <1>1, BudgetAssumption DEF Gens
  <2> QED BY <1>5, <1>6, <2>1 DEF IInv, FreshInv
<1>11. ClosedInv'
  <2> SUFFICES ASSUME NEW g \in Gens
               PROVE  /\ trans[g] # "open" => intentionalClose \/ proc'[g] = "reaped"
                      /\ proc'[g] = "reaped" => trans[g] = "closed" /\ queue'[g] = <<>>
    BY <1>6 DEF ClosedInv
  <2>1. CASE g # cur + 1
    BY <1>5, <2>1 DEF IInv, ClosedInv
  <2>2. CASE g = cur + 1
    <3>1. proc'[g] \in {"up", "failed"}
      BY <1>1, <1>2, <2>2 DEF RespawnAndRetry
    <3> QED BY <1>3, <2>2, <3>1
  <2> QED BY <2>1, <2>2
<1>12. WakeInv'
  <2> SUFFICES ASSUME NEW q \in Requests
               PROVE  /\ attempt'[q] <= cur + 1
                      /\ wake'[q] # "none" => phase'[q] \in {"first", "second"}
                      /\ wake'[q] \in LossReasons =>
                           intentionalClose \/ proc'[attempt'[q]] = "reaped"
    BY <1>1, <1>6 DEF WakeInv
  <2>1. CASE q # r
    <3>1. attempt'[q] = attempt[q] /\ phase'[q] = phase[q] /\ wake'[q] = wake[q]
      BY <1>2, <2>1 DEF RespawnAndRetry, Request
    <3>2. attempt[q] <= cur /\ attempt[q] \in Gens /\ attempt[q] \in Nat
      BY <1>2, BudgetAssumption DEF IInv, WakeInv, Gens
    <3>3. attempt[q] # cur + 1 /\ attempt[q] <= cur + 1
      BY <1>1, <3>2
    <3>4. proc'[attempt[q]] = proc[attempt[q]]
      BY <1>5, <3>2, <3>3
    <3>5. /\ wake[q] # "none" => phase[q] \in {"first", "second"}
          /\ wake[q] \in LossReasons =>
               intentionalClose \/ proc[attempt[q]] = "reaped"
      BY DEF IInv, WakeInv
    <3> QED BY <3>1, <3>3, <3>4, <3>5
  <2>2. CASE q = r
    <3>1. attempt'[r] = cur + 1 /\ wake'[r] = "none"
      BY <1>2, <1>3 DEF RespawnAndRetry, Request
    <3>2. cur + 1 <= cur + 1 /\ "none" \notin LossReasons
      BY <1>1 DEF LossReasons
    <3> QED BY <2>2, <3>1, <3>2
  <2> QED BY <2>1, <2>2
<1> QED BY <1>4, <1>8, <1>9, <1>10, <1>11, <1>12 DEF IInv

LEMMA FinishStep ==
  ASSUME IInv, TypeOK', NEW r \in Requests, Finish(r)
  PROVE  IInv'
<1>1. /\ phase \in [Requests -> Phases]
      /\ wake \in [Requests -> Outcomes \union {"none"}]
      /\ queue \in [Gens -> Seq(Requests)]
  BY DEF IInv, TypeOK
<1>2. \A q \in Requests :
        /\ q # r => phase'[q] = phase[q] /\ wake'[q] = wake[q]
        /\ q = r => wake'[q] = "none"
  BY <1>1 DEF Finish
<1>3. UNCHANGED <<hostVars, procVars, attempt, reply>>
  BY DEF Finish
<1>4. BudgetInv' /\ FreshInv' /\ SupersededAreReaped' /\ ClosedInv' /\ OwnAnswer'
  BY <1>3 DEF hostVars, procVars, IInv, BudgetInv, FreshInv,
    SupersededAreReaped, ClosedInv, OwnAnswer
<1>5. MatchInv'
  BY <1>3 DEF hostVars, procVars, IInv, MatchInv
<1>6. WakeInv'
  <2>1. "none" \notin LossReasons
    BY DEF LossReasons
  <2> QED BY <1>2, <1>3, <2>1 DEF hostVars, procVars, IInv, WakeInv
<1>7. QueueInv'
  <2>1. \A g \in Gens : \A i \in 1 .. Len(queue[g]) :
          queue[g][i] # r /\ queue[g][i] \in Requests
    BY <1>1, NotQueued DEF Finish
  <2> QED BY <1>2, <1>3, <2>1 DEF hostVars, procVars, IInv, QueueInv
<1> QED BY <1>4, <1>5, <1>6, <1>7 DEF IInv

LEMMA CloseStep ==
  ASSUME IInv, TypeOK', Close
  PROVE  IInv'
<1>1. trans \in [Gens -> {"open", "closing", "closed"}] /\ cur \in Gens
  BY DEF IInv, TypeOK
<1>2. /\ UNCHANGED <<cur, respawnsLeft, queue, proc, inPipe, outPipe, callVars>>
      /\ intentionalClose'
      /\ \A g \in Gens : g # cur => trans'[g] = trans[g]
  BY <1>1 DEF Close
<1>3. BudgetInv' /\ SupersededAreReaped' /\ OwnAnswer'
  BY <1>2 DEF callVars, IInv, BudgetInv, SupersededAreReaped, OwnAnswer
<1>4. FreshInv'
  <2>1. \A g \in Gens : g > cur => g # cur
    BY <1>1, BudgetAssumption DEF Gens
  <2> QED BY <1>2, <2>1 DEF IInv, FreshInv
<1>5. \A g \in Gens : trans[g] = "closed" => trans'[g] = "closed"
  BY <1>1 DEF Close
<1>6. ClosedInv'
  BY <1>2, <1>5 DEF IInv, ClosedInv
<1>7. WakeInv' /\ QueueInv'
  BY <1>2 DEF callVars, IInv, WakeInv, QueueInv
<1>8. MatchInv'
  BY <1>2, <1>5 DEF IInv, MatchInv
<1> QED BY <1>3, <1>4, <1>6, <1>7, <1>8 DEF IInv

LEMMA ReadLineStep ==
  ASSUME IInv, TypeOK', NEW g \in Gens, ReadLine(g)
  PROVE  IInv'
<1>1. /\ queue \in [Gens -> Seq(Requests)]
      /\ inPipe \in [Gens -> Seq(Requests)]
      /\ outPipe \in [Gens -> Seq(Line)]
      /\ trans \in [Gens -> {"open", "closing", "closed"}]
      /\ wake \in [Requests -> Outcomes \union {"none"}]
      /\ reply \in [Requests -> Requests \union {Nobody}]
  BY DEF IInv, TypeOK
<1>2. /\ UNCHANGED <<serverMode, cur, respawnsLeft, intentionalClose, proc,
                     inPipe, phase, attempt>>
      /\ outPipe' = [outPipe EXCEPT ![g] = Tail(@)]
      /\ outPipe[g] # <<>>
  BY DEF ReadLine
<1>3. BudgetInv' /\ SupersededAreReaped'
  BY <1>2 DEF IInv, BudgetInv, SupersededAreReaped
<1>4. \A h \in Gens : h # g => outPipe'[h] = outPipe[h]
  BY <1>1, <1>2
<1>5. CASE queue[g] = <<>>
  <2>1. UNCHANGED <<queue, trans, killed, wake, reply>>
    BY <1>5 DEF ReadLine
  <2>2. FreshInv' /\ ClosedInv' /\ WakeInv' /\ QueueInv' /\ OwnAnswer'
    BY <1>2, <2>1 DEF IInv, FreshInv, ClosedInv, WakeInv, QueueInv, OwnAnswer
  <2>3. MatchInv'
    <3> SUFFICES ASSUME NEW h \in Gens
                 PROVE  \/ Matches(queue[h], outPipe'[h], inPipe[h])
                        \/ trans[h] = "closed" /\ queue[h] = <<>>
      BY <1>2, <2>1 DEF MatchInv
    <3>1. CASE h # g
      BY <1>4, <3>1 DEF IInv, MatchInv
    <3>2. CASE h = g
      <4>1. ~Matches(queue[g], outPipe[g], inPipe[g])
        <5>1. Len(queue[g]) = 0
          BY <1>5
        <5>2. Len(outPipe[g]) \in Nat \ {0} /\ Len(inPipe[g]) \in Nat
          BY <1>1, <1>2
        <5>3. Matches(queue[g], outPipe[g], inPipe[g]) =>
                Len(queue[g]) = Len(outPipe[g]) + Len(inPipe[g])
          BY DEF Matches
        <5>4. \A m \in Nat \ {0}, n \in Nat : m + n # 0
          OBVIOUS
        <5>5. Len(outPipe[g]) + Len(inPipe[g]) # 0
          BY ONLY <5>2, <5>4
        <5> QED BY <5>1, <5>3, <5>5
      <4> QED BY <3>2, <4>1 DEF IInv, MatchInv
    <3> QED BY <3>1, <3>2
  <2> QED BY <1>3, <2>2, <2>3 DEF IInv
<1>6. CASE queue[g] # <<>>
  <2> DEFINE r == Head(queue[g])
             line == Head(outPipe[g])
             out == IF line.whole THEN "answer" ELSE "parse"
  <2>1. /\ queue' = [queue EXCEPT ![g] = Tail(@)]
        /\ wake' = [wake EXCEPT ![r] = out]
        /\ reply' = [reply EXCEPT ![r] = line.req]
    BY <1>6 DEF ReadLine
  <2>2. /\ r \in Requests /\ r = queue[g][1]
        /\ Len(queue[g]) \in Nat \ {0}
        /\ Len(Tail(queue[g])) = Len(queue[g]) - 1
        /\ \A i \in 1 .. Len(Tail(queue[g])) : Tail(queue[g])[i] = queue[g][i + 1]
    BY <1>1, <1>6
  <2>3. out \in {"answer", "parse"} /\ out \notin LossReasons /\ out # "none"
    BY DEF LossReasons
  <2>4. 1 \in 1 .. Len(queue[g])
    BY <2>2
  <2>5. attempt[r] = g /\ phase[r] \in {"first", "second"} /\ wake[r] = "none"
    BY <2>2, <2>4 DEF IInv, QueueInv
  <2> HIDE DEF r, out
  <2>6. \A h \in Gens : h # g => queue'[h] = queue[h]
    BY <1>1, <2>1
  <2>7. queue'[g] = Tail(queue[g])
    BY <1>1, <2>1
  <2>8. Matches(queue[g], outPipe[g], inPipe[g])
    BY <1>6 DEF IInv, MatchInv
  <2>9. /\ Matches(Tail(queue[g]), Tail(outPipe[g]), inPipe[g])
        /\ line.req = r
    <3>1. queue[g] \in Seq(Requests) /\ outPipe[g] \in Seq(Line) /\ inPipe[g] \in Seq(Requests)
      BY <1>1
    <3> QED BY <1>2, <1>6, <2>8, <3>1, MatchesRead DEF r
  <2>10. OwnAnswer'
    <3>1. reply'[r] = r
      BY <1>1, <2>1, <2>2, <2>9
    <3>2. \A q \in Requests : q # r => reply'[q] = reply[q]
      BY <1>1, <2>1
    <3> QED BY <3>1, <3>2 DEF IInv, OwnAnswer
  <2>11. MatchInv'
    <3> SUFFICES ASSUME NEW h \in Gens
                 PROVE  \/ Matches(queue'[h], outPipe'[h], inPipe[h])
                        \/ trans'[h] = "closed" /\ queue'[h] = <<>>
      BY <1>2 DEF MatchInv
    <3>1. CASE h # g
      <4>1. trans'[h] = trans[h]
        BY <1>1, <1>6, <3>1 DEF ReadLine
      <4> QED BY <1>4, <2>6, <3>1, <4>1 DEF IInv, MatchInv
    <3>2. CASE h = g
      <4>1. outPipe'[g] = Tail(outPipe[g])
        BY <1>1, <1>2
      <4> QED BY <2>7, <2>9, <3>2, <4>1
    <3> QED BY <3>1, <3>2
  <2>12. WakeInv'
    BY <1>1, <1>2, <2>1, <2>3, <2>5 DEF IInv, WakeInv
  <2>13. QueueInv'
    <3>1. \A h \in Gens : \A i, j \in 1 .. Len(queue[h]) :
            queue[h][i] = queue[h][j] => i = j
      BY DEF IInv, QueueInv
    \* The head was r alone, and the others are as they were.
    <3>2. \A i \in 1 .. Len(queue'[g]) :
            i + 1 \in 1 .. Len(queue[g]) /\ queue'[g][i] = queue[g][i + 1]
      BY <2>2, <2>7
    <3>3. \A h \in Gens : \A i \in 1 .. Len(queue'[h]) :
            queue'[h][i] # r /\ queue'[h][i] \in Requests
      <4> SUFFICES ASSUME NEW h \in Gens, NEW i \in 1 .. Len(queue'[h])
                   PROVE  queue'[h][i] # r /\ queue'[h][i] \in Requests
        OBVIOUS
      <4>1. CASE h # g
        <5>1. attempt[queue[h][i]] = h /\ queue[h][i] \in Requests
          BY <1>1, <2>6, <4>1 DEF IInv, QueueInv
        <5> QED BY <2>5, <2>6, <4>1, <5>1
      <4>2. CASE h = g
        <5>1. i + 1 # 1 /\ i + 1 \in 1 .. Len(queue[g]) /\ queue'[g][i] = queue[g][i + 1]
          BY <3>2, <4>2
        <5>2. queue[g][i + 1] # queue[g][1]
          BY <2>4, <3>1, <5>1
        <5>3. queue[g][i + 1] \in Requests
          BY <1>1, <5>1
        <5> QED BY <2>2, <4>2, <5>1, <5>2, <5>3
      <4> QED BY <4>1, <4>2
    <3>4. \A h \in Gens : \A i \in 1 .. Len(queue'[h]) :
            /\ attempt[queue'[h][i]] = h
            /\ wake[queue'[h][i]] = "none"
            /\ phase[queue'[h][i]] \in {"first", "second"}
      BY <2>6, <3>2 DEF IInv, QueueInv
    <3>5. \A h \in Gens : \A i \in 1 .. Len(queue'[h]) :
            wake'[queue'[h][i]] = "none"
      <4>1. \A q \in Requests : q # r => wake'[q] = wake[q]
        BY <1>1, <2>1
      <4> QED BY <3>3, <3>4, <4>1
    <3>6. \A h \in Gens : \A i, j \in 1 .. Len(queue'[h]) :
            queue'[h][i] = queue'[h][j] => i = j
      <4> SUFFICES ASSUME NEW h \in Gens, NEW i \in 1 .. Len(queue'[h]),
                          NEW j \in 1 .. Len(queue'[h]), queue'[h][i] = queue'[h][j]
                   PROVE  i = j
        OBVIOUS
      <4>1. CASE h # g
        BY <2>6, <3>1, <4>1
      <4>2. CASE h = g
        <5>1. i + 1 = j + 1
          BY <3>1, <3>2, <4>2
        <5> QED BY <5>1
      <4> QED BY <4>1, <4>2
    <3> QED BY <1>2, <3>4, <3>5, <3>6 DEF QueueInv
  <2>14. \A h \in Gens : trans'[h] # trans[h] =>
           h = g /\ trans[g] = "closing" /\ trans'[g] = "closed"
    BY <1>1, <1>6 DEF ReadLine
  <2>15. FreshInv'
    <3>1. \A h \in Gens : queue[h] = <<>> => queue'[h] = <<>>
      BY <1>6, <2>6
    <3> QED BY <1>2, <2>14, <3>1 DEF IInv, FreshInv
  <2>16. ClosedInv'
    <3>1. \A h \in Gens : queue[h] = <<>> => queue'[h] = <<>>
      BY <1>6, <2>6
    <3> QED BY <1>2, <2>14, <3>1 DEF IInv, ClosedInv
  <2> QED BY <1>3, <2>10, <2>11, <2>12, <2>13, <2>15, <2>16 DEF IInv
<1> QED BY <1>5, <1>6

LEMMA ChildGoneStep ==
  ASSUME IInv, TypeOK', NEW g \in Gens, ChildGone(g)
  PROVE  IInv'
<1>1. /\ queue \in [Gens -> Seq(Requests)]
      /\ trans \in [Gens -> {"open", "closing", "closed"}]
      /\ proc \in [Gens -> ProcStates]
      /\ wake \in [Requests -> Outcomes \union {"none"}]
  BY DEF IInv, TypeOK
<1>2. /\ UNCHANGED <<cur, respawnsLeft, intentionalClose, inPipe, outPipe,
                     phase, attempt, reply>>
      /\ proc' = [proc EXCEPT ![g] = "reaped"]
      /\ trans' = [trans EXCEPT ![g] = "closed"]
      /\ queue' = [queue EXCEPT ![g] = <<>>]
      /\ proc[g] \in {"dead", "failed"}
  BY DEF ChildGone
<1>3. /\ proc'[g] = "reaped" /\ trans'[g] = "closed" /\ queue'[g] = <<>>
      /\ \A h \in Gens : h # g =>
           /\ proc'[h] = proc[h] /\ trans'[h] = trans[h]
           /\ queue'[h] = queue[h]
  BY <1>1, <1>2
<1>4. ~(g > cur)
  BY <1>2 DEF IInv, FreshInv
<1>5. BudgetInv' /\ FreshInv' /\ SupersededAreReaped' /\ ClosedInv' /\ OwnAnswer'
  BY <1>2, <1>3, <1>4 DEF IInv, BudgetInv, FreshInv, SupersededAreReaped,
    ClosedInv, OwnAnswer
<1>6. MatchInv'
  BY <1>2, <1>3 DEF IInv, MatchInv
<1>7. \A r \in Requests :
        \/ wake'[r] = wake[r]
        \/ \E i \in 1 .. Len(queue[g]) : queue[g][i] = r
  <2>1. DOMAIN queue[g] = 1 .. Len(queue[g])
    BY <1>1
  <2> QED BY <2>1 DEF ChildGone
<1>8. WakeInv'
  <2> SUFFICES ASSUME NEW r \in Requests
               PROVE  /\ attempt[r] <= cur
                      /\ wake'[r] # "none" => phase[r] \in {"first", "second"}
                      /\ wake'[r] \in LossReasons =>
                           intentionalClose \/ proc'[attempt[r]] = "reaped"
    BY <1>2 DEF WakeInv
  <2>1. CASE wake'[r] = wake[r]
    <3>1. proc[attempt[r]] = "reaped" => proc'[attempt[r]] = "reaped"
      <4>1. attempt[r] \in Gens
        BY DEF IInv, TypeOK
      <4> QED BY <1>3, <4>1
    <3> QED BY <2>1, <3>1 DEF IInv, WakeInv
  <2>2. CASE \E i \in 1 .. Len(queue[g]) : queue[g][i] = r
    <3>1. attempt[r] = g /\ phase[r] \in {"first", "second"}
      BY <2>2 DEF IInv, QueueInv
    <3> QED BY <1>3, <3>1 DEF IInv, WakeInv
  <2> QED BY <1>7, <2>1, <2>2
<1>9. QueueInv'
  <2>1. \A h \in Gens : h # g => \A i \in 1 .. Len(queue[h]) :
          wake'[queue[h][i]] = wake[queue[h][i]]
    <3> SUFFICES ASSUME NEW h \in Gens, h # g, NEW i \in 1 .. Len(queue[h])
                 PROVE  wake'[queue[h][i]] = wake[queue[h][i]]
      OBVIOUS
    <3>1. queue[h][i] \in Requests /\ attempt[queue[h][i]] = h
      BY <1>1 DEF IInv, QueueInv
    <3>2. \A j \in 1 .. Len(queue[g]) : attempt[queue[g][j]] = g
      BY DEF IInv, QueueInv
    <3> QED BY <1>7, <3>1, <3>2
  <2>2. Len(queue'[g]) = 0 /\ \A i : i \notin 1 .. Len(queue'[g])
    BY <1>3
  <2> SUFFICES ASSUME NEW h \in Gens
               PROVE  /\ \A i \in 1 .. Len(queue'[h]) :
                           /\ attempt'[queue'[h][i]] = h
                           /\ wake'[queue'[h][i]] = "none"
                           /\ phase'[queue'[h][i]] \in {"first", "second"}
                      /\ \A i, j \in 1 .. Len(queue'[h]) :
                           queue'[h][i] = queue'[h][j] => i = j
    BY DEF QueueInv
  <2>3. CASE h = g
    BY <2>2, <2>3
  <2>4. CASE h # g
    BY <1>2, <1>3, <2>1, <2>4 DEF IInv, QueueInv
  <2> QED BY <2>3, <2>4
<1> QED BY <1>5, <1>6, <1>8, <1>9 DEF IInv

LEMMA DrainTimeoutStep ==
  ASSUME IInv, TypeOK', NEW g \in Gens, DrainTimeout(g)
  PROVE  IInv'
<1>1. /\ UNCHANGED <<cur, respawnsLeft, intentionalClose, queue, proc, inPipe,
                     outPipe, callVars>>
      /\ trans' = [trans EXCEPT ![g] = "closed"]
      /\ trans[g] = "closing"
      /\ trans \in [Gens -> {"open", "closing", "closed"}]
  BY DEF DrainTimeout, IInv, TypeOK
<1>2. BudgetInv' /\ FreshInv' /\ SupersededAreReaped' /\ ClosedInv'
  BY <1>1 DEF IInv, BudgetInv, FreshInv, SupersededAreReaped, ClosedInv
<1>3. WakeInv' /\ QueueInv' /\ OwnAnswer'
  BY <1>1 DEF callVars, IInv, WakeInv, QueueInv, OwnAnswer
<1>4. MatchInv'
  BY <1>1 DEF IInv, MatchInv
<1> QED BY <1>2, <1>3, <1>4 DEF IInv

\* A child only moves a request from one pipe to the other, or dies; a child
\* already observed dead does neither.
LEMMA ChildStep ==
  ASSUME IInv, TypeOK', NEW g \in Gens,
         Serve(g) \/ Hang(g) \/ Crash(g) \/ CrashMidWrite(g) \/ Terminate(g)
  PROVE  IInv'
<1>1. /\ queue \in [Gens -> Seq(Requests)]
      /\ inPipe \in [Gens -> Seq(Requests)]
      /\ outPipe \in [Gens -> Seq(Line)]
      /\ proc \in [Gens -> ProcStates]
  BY DEF IInv, TypeOK
<1>2. UNCHANGED <<hostVars, callVars>>
  BY DEF Serve, Hang, Crash, CrashMidWrite, Terminate
<1>3. /\ proc[g] \in {"up", "hung"}
      /\ \A h \in Gens : h # g => proc'[h] = proc[h]
      /\ proc'[g] # "reaped"
  BY <1>1 DEF Serve, Hang, Crash, CrashMidWrite, Terminate
<1>4. ~(g > cur) /\ proc[g] # "reaped" /\ ~(g < cur)
  BY <1>3 DEF IInv, FreshInv, SupersededAreReaped
<1>5. BudgetInv' /\ FreshInv' /\ SupersededAreReaped' /\ ClosedInv'
  BY <1>2, <1>3, <1>4 DEF hostVars, IInv, BudgetInv, FreshInv,
    SupersededAreReaped, ClosedInv
<1>6. WakeInv'
  <2>1. \A r \in Requests :
          proc[attempt[r]] = "reaped" => proc'[attempt[r]] = "reaped"
    <3>1. \A r \in Requests : attempt[r] \in Gens
      BY DEF IInv, TypeOK
    <3> QED BY <1>3, <1>4, <3>1
  <2> QED BY <1>2, <2>1 DEF hostVars, callVars, IInv, WakeInv
<1>7. QueueInv' /\ OwnAnswer'
  BY <1>2 DEF hostVars, callVars, IInv, QueueInv, OwnAnswer
<1>8. MatchInv'
  <2>1. CASE Hang(g) \/ Crash(g) \/ Terminate(g)
    BY <1>2, <2>1 DEF Hang, Crash, Terminate, hostVars, IInv, MatchInv
  <2>2. CASE Serve(g) \/ CrashMidWrite(g)
    <3>1. PICK w \in BOOLEAN :
            outPipe' = [outPipe EXCEPT
              ![g] = Append(@, [req |-> Head(inPipe[g]), whole |-> w])]
      BY <2>2 DEF Serve, CrashMidWrite
    <3>2. inPipe[g] # <<>> /\ inPipe' = [inPipe EXCEPT ![g] = Tail(@)]
      BY <2>2 DEF Serve, CrashMidWrite
    <3>3. \A h \in Gens : h # g => outPipe'[h] = outPipe[h] /\ inPipe'[h] = inPipe[h]
      BY <1>1, <3>1, <3>2
    <3>4. /\ outPipe'[g] = Append(outPipe[g], [req |-> Head(inPipe[g]), whole |-> w])
          /\ inPipe'[g] = Tail(inPipe[g])
      BY <1>1, <3>1, <3>2
    <3>5. Matches(queue[g], outPipe[g], inPipe[g]) =>
            Matches(queue[g], outPipe'[g], inPipe'[g])
      <4>1. queue[g] \in Seq(Requests) /\ outPipe[g] \in Seq(Line) /\ inPipe[g] \in Seq(Requests)
        BY <1>1
      <4> QED BY <3>2, <3>4, <4>1, MatchesServe
    <3> QED BY <1>2, <3>3, <3>5 DEF hostVars, IInv, MatchInv
  <2> QED BY <2>1, <2>2
<1> QED BY <1>5, <1>6, <1>7, <1>8 DEF IInv

LEMMA Inductive == IInv /\ [Next]_vars => IInv'
<1> SUFFICES ASSUME IInv, [Next]_vars PROVE IInv'
  OBVIOUS
<1>1. TypeOK'
  BY TypeStep DEF IInv
<1>2. CASE Close
  BY <1>1, <1>2, CloseStep
<1>3. ASSUME NEW r \in Requests,
             Send(r) \/ Finish(r) \/ RespawnAndRetry(r) \/ ReuseAndRetry(r)
      PROVE  IInv'
  BY <1>1, <1>3, SendStep, FinishStep, RespawnStep, ReuseStep
<1>4. ASSUME NEW g \in Gens, ReadLine(g) \/ ChildGone(g) \/ DrainTimeout(g)
      PROVE  IInv'
  BY <1>1, <1>4, ReadLineStep, ChildGoneStep, DrainTimeoutStep
<1>5. ASSUME NEW g \in Gens,
             Serve(g) \/ Hang(g) \/ Crash(g) \/ CrashMidWrite(g) \/ Terminate(g)
      PROVE  IInv'
  BY <1>1, <1>5, ChildStep
<1>6. CASE UNCHANGED vars
  <2>1. UNCHANGED <<hostVars, procVars, callVars>>
    BY <1>6 DEF vars
  <2>2. BudgetInv' /\ FreshInv' /\ SupersededAreReaped' /\ ClosedInv'
    BY <2>1 DEF hostVars, procVars, IInv, BudgetInv, FreshInv,
      SupersededAreReaped, ClosedInv
  <2>3. WakeInv' /\ QueueInv' /\ MatchInv' /\ OwnAnswer'
    BY <2>1 DEF hostVars, procVars, callVars, IInv, WakeInv, QueueInv,
      MatchInv, OwnAnswer
  <2> QED BY <1>1, <2>2, <2>3 DEF IInv
<1> QED BY <1>2, <1>3, <1>4, <1>5, <1>6 DEF Next

-----------------------------------------------------------------------------
(* The theorems.                                                           *)

\* The inductive invariant holds throughout: types, budget, and the order of
\* the pipes against the queue of waiting calls.
THEOREM InvariantHolds == Spec => []IInv
<1>1. Init => IInv
  BY InitIInv
<1>2. IInv /\ [Next]_vars => IInv'
  BY Inductive
<1> QED BY <1>1, <1>2, PTL DEF Spec

\* The variables keep their types: in particular the current generation never
\* outruns the respawn budget.
THEOREM TypeCorrect == Spec => []TypeOK
<1>1. IInv => TypeOK
  BY DEF IInv
<1> QED BY <1>1, InvariantHolds, PTL

\* Whatever the interleaving of losses, retries and closes, a call is never
\* handed the response of another one.
THEOREM ResponsesAreOwn == Spec => []OwnAnswer
<1>1. IInv => OwnAnswer
  BY DEF IInv
<1> QED BY <1>1, InvariantHolds, PTL

\* A child is replaced only once it is known to be gone.
THEOREM NoChildBesideTheCurrent == Spec => []SupersededAreReaped
<1>1. IInv => SupersededAreReaped
  BY DEF IInv
<1> QED BY <1>1, InvariantHolds, PTL

\* A child that still owes responses is signalled only by the drain timer.
THEOREM DrainsBeforeKilling == Spec => DrainBeforeKill
<1> DEFINE Drains ==
      \A g \in Gens :
        (~killed[g] /\ killed'[g] /\ queue'[g] # <<>>) => trans[g] = "closing"
<1>1. IInv /\ [Next]_vars => [Drains]_vars
  <2> SUFFICES ASSUME IInv, Next, NEW g \in Gens,
                      ~killed[g], killed'[g], queue'[g] # <<>>
               PROVE  trans[g] = "closing"
    OBVIOUS
  <2>1. /\ killed \in [Gens -> BOOLEAN] /\ cur \in Gens
        /\ queue \in [Gens -> Seq(Requests)]
    BY DEF IInv, TypeOK
  <2>2. CASE Close
    BY <2>1, <2>2 DEF Close
  <2>3. ASSUME NEW r \in Requests, RespawnAndRetry(r) PROVE trans[g] = "closing"
    <3>1. g = cur
      BY <2>1, <2>3 DEF RespawnAndRetry
    <3>2. proc[cur] = "reaped"
      BY <2>3 DEF RespawnAndRetry, CanRespawn, IInv, WakeInv
    <3>3. queue[cur] = <<>> /\ trans[cur] = "closed"
      BY <2>1, <3>2 DEF IInv, ClosedInv
    <3>4. cur # cur + 1
      BY <2>1, BudgetAssumption DEF Gens
    <3>5. queue'[cur] = queue[cur]
      BY <2>1, <2>3, <3>4 DEF RespawnAndRetry, Request
    <3> QED BY <3>1, <3>3, <3>5
  <2>4. ASSUME NEW h \in Gens, ReadLine(h) \/ DrainTimeout(h)
        PROVE  trans[g] = "closing"
    BY <2>1, <2>4 DEF ReadLine, DrainTimeout
  <2>5. ASSUME NEW r \in Requests, Send(r) \/ Finish(r) \/ ReuseAndRetry(r)
        PROVE  FALSE
    BY <2>5 DEF Send, Finish, ReuseAndRetry, procVars
  <2>6. ASSUME NEW h \in Gens,
               \/ ChildGone(h) \/ Serve(h) \/ Hang(h) \/ Crash(h)
               \/ CrashMidWrite(h) \/ Terminate(h)
        PROVE  FALSE
    BY <2>6 DEF ChildGone, Serve, Hang, Crash, CrashMidWrite, Terminate
  <2> QED BY <2>2, <2>3, <2>4, <2>5, <2>6 DEF Next
<1> QED BY <1>1, InvariantHolds, PTL DEF Spec, DrainBeforeKill

-----------------------------------------------------------------------------
(* The client implements RequestService.                                   *)

\* An answer is the call's own.
AnswerInv ==
  \A r \in Requests : wake[r] = "answer" \/ phase[r] = "answer" => reply[r] = r

\* A line is unfinished only where the child was lost.
PartialInv ==
  /\ \A g \in Gens : \A i \in 1 .. Len(outPipe[g]) :
       ~outPipe[g][i].whole => proc[g] \in {"dead", "reaped"}
  /\ \A r \in Requests : wake[r] = "parse" => Faulty

ServeInv == AnswerInv /\ PartialInv

\* What went wrong stays so: a loss is noticed, and its child is not reused.
LEMMA FaultyLasts ==
  ASSUME IInv, Next, Faulty
  PROVE  Faulty'
<1>1. /\ proc \in [Gens -> ProcStates] /\ cur \in Gens
      /\ \A r \in Requests : RespawnAndRetry(r) => cur + 1 \notin Gens \/ proc[cur + 1] = "none"
  <2>1. ASSUME cur + 1 \in Gens
        PROVE  proc[cur + 1] = "none"
    <3>1. cur + 1 > cur
      BY BudgetAssumption DEF IInv, TypeOK, Gens
    <3> QED BY <2>1, <3>1 DEF IInv, FreshInv
  <2> QED BY <2>1 DEF IInv, TypeOK
<1>2. CASE intentionalClose
  <2>1. intentionalClose'
    BY <1>2 DEF Next, Close, Send, Finish, RespawnAndRetry, ReuseAndRetry, ReadLine, ChildGone,
                DrainTimeout, Serve, Hang, Crash, CrashMidWrite, Terminate, hostVars
  <2> QED BY <2>1 DEF Faulty
<1>3. ASSUME NEW g \in Gens, proc[g] \in {"failed", "dead", "reaped"}
      PROVE  proc'[g] \in {"failed", "dead", "reaped"}
  BY <1>1, <1>3 DEF Next, Close, Send, Finish, RespawnAndRetry, ReuseAndRetry, ReadLine, ChildGone,
             DrainTimeout, Serve, Hang, Crash, CrashMidWrite, Terminate, procVars
<1> QED BY <1>2, <1>3 DEF Faulty

\* A request moves a call only, and never to an answer.
LEMMA RequestWakes ==
  ASSUME IInv, NEW g, NEW r \in Requests, Request(g, r)
  PROVE  /\ wake'[r] \in {"none", "resolver is closed"}
         /\ \A q \in Requests : q # r => wake'[q] = wake[q]
BY DEF Request, IInv, TypeOK

LEMMA AnswerStep ==
  ASSUME IInv, AnswerInv, Next
  PROVE  AnswerInv'
<1>1. /\ wake \in [Requests -> Outcomes \union {"none"}]
      /\ phase \in [Requests -> Phases]
      /\ reply \in [Requests -> Requests \union {Nobody}]
  BY DEF IInv, TypeOK
<1>2. ASSUME NEW r \in Requests, reply' = reply, wake'[r] \in {"none", "resolver is closed"},
             \A q \in Requests : q # r => wake'[q] = wake[q],
             NEW p, p # "answer" \/ wake[r] = "answer", phase' = [phase EXCEPT ![r] = p]
      PROVE  AnswerInv'
  <2>1. wake'[r] # "answer"
    BY <1>2
  <2>2. \A q \in Requests : q # r => phase'[q] = phase[q] /\ wake'[q] = wake[q]
    BY <1>1, <1>2
  <2>3. phase'[r] = p
    BY <1>1, <1>2
  <2> QED BY <1>2, <2>1, <2>2, <2>3 DEF AnswerInv
<1>3. ASSUME NEW r \in Requests, Send(r) \/ RespawnAndRetry(r) \/ ReuseAndRetry(r)
      PROVE  AnswerInv'
  <2>1. \E p \in {"first", "second"} : phase' = [phase EXCEPT ![r] = p]
    BY <1>3 DEF Send, RespawnAndRetry, ReuseAndRetry
  <2>2. reply' = reply /\ \E g : Request(g, r)
    BY <1>3 DEF Send, RespawnAndRetry, ReuseAndRetry
  <2> QED BY <1>2, <2>1, <2>2, RequestWakes
<1>4. ASSUME NEW r \in Requests, Finish(r)
      PROVE  AnswerInv'
  BY <1>1, <1>2, <1>4 DEF Finish
<1>5. ASSUME NEW g \in Gens, ReadLine(g)
      PROVE  AnswerInv'
  <2>1. CASE queue[g] = <<>>
    BY <1>5, <2>1 DEF ReadLine, AnswerInv
  <2>2. CASE queue[g] # <<>>
    <3> DEFINE r == Head(queue[g])
               line == Head(outPipe[g])
    <3>1. /\ queue[g] \in Seq(Requests) /\ outPipe[g] \in Seq(Line) /\ inPipe[g] \in Seq(Requests)
          /\ outPipe[g] # <<>> /\ phase' = phase
          /\ reply' = [reply EXCEPT ![r] = line.req]
          /\ wake' = [wake EXCEPT ![r] = IF line.whole THEN "answer" ELSE "parse"]
      BY <1>5, <2>2 DEF ReadLine, IInv, TypeOK
    <3>2. line.req = r /\ r \in Requests
      <4>1. Matches(queue[g], outPipe[g], inPipe[g])
        BY <2>2 DEF IInv, MatchInv
      <4> QED BY <2>2, <3>1, <4>1, MatchesRead, TailFacts
    <3> HIDE DEF r, line
    <3> QED BY <1>1, <3>1, <3>2 DEF AnswerInv
  <2> QED BY <2>1, <2>2
<1>6. ASSUME NEW g \in Gens, ChildGone(g)
      PROVE  AnswerInv'
  <2>1. UNCHANGED <<phase, reply>> /\ \A r \in Requests : wake'[r] = "answer" => wake[r] = "answer"
    BY <1>6 DEF ChildGone
  <2> QED BY <2>1 DEF AnswerInv
<1>7. CASE UNCHANGED <<phase, wake, reply>>
  BY <1>7 DEF AnswerInv
<1> QED BY <1>3, <1>4, <1>5, <1>6, <1>7
        DEF Next, Close, DrainTimeout, Serve, Hang, Crash, CrashMidWrite, Terminate, callVars

LEMMA PartialStep ==
  ASSUME IInv, PartialInv, Next
  PROVE  PartialInv'
<1>1. /\ wake \in [Requests -> Outcomes \union {"none"}] /\ proc \in [Gens -> ProcStates]
      /\ outPipe \in [Gens -> Seq(Line)] /\ inPipe \in [Gens -> Seq(Requests)] /\ cur \in Gens
  BY DEF IInv, TypeOK
<1> DEFINE Lost(g) == proc[g] \in {"dead", "reaped"}
           Lines == \A g \in Gens : \A i \in 1 .. Len(outPipe[g]) : ~outPipe[g][i].whole => Lost(g)
<1>2. \A g \in Gens : Lost(g) => Lost(g)'
  <2>1. \A r \in Requests : RespawnAndRetry(r) => cur + 1 \notin Gens \/ proc[cur + 1] = "none"
    <3>1. ASSUME cur + 1 \in Gens
          PROVE  proc[cur + 1] = "none"
      <4>1. cur + 1 > cur
        BY <1>1, BudgetAssumption DEF Gens
      <4> QED BY <3>1, <4>1 DEF IInv, FreshInv
    <3> QED BY <3>1
  <2> QED BY <1>1, <2>1
          DEF Next, Close, Send, Finish, RespawnAndRetry, ReuseAndRetry, ReadLine, ChildGone,
              DrainTimeout, Serve, Hang, Crash, CrashMidWrite, Terminate, procVars
<1>3. Lines'
  <2>1. CASE UNCHANGED outPipe
    BY <1>2, <2>1 DEF PartialInv
  <2>2. ASSUME NEW g \in Gens, ReadLine(g)
        PROVE  Lines'
    <3>1. outPipe' = [outPipe EXCEPT ![g] = Tail(@)] /\ outPipe[g] # <<>>
      BY <2>2 DEF ReadLine
    <3>2. \A i \in 1 .. Len(outPipe'[g]) : i + 1 \in 1 .. Len(outPipe[g]) /\ outPipe'[g][i] = outPipe[g][i + 1]
      BY <1>1, <3>1, TailFacts
    <3>3. \A h \in Gens : h # g => outPipe'[h] = outPipe[h]
      BY <1>1, <3>1
    <3> QED BY <1>2, <3>2, <3>3 DEF PartialInv
  <2>3. ASSUME NEW g \in Gens, NEW w \in BOOLEAN, w \/ Lost(g)', inPipe[g] # <<>>,
               outPipe' = [outPipe EXCEPT ![g] = Append(@, [req |-> Head(inPipe[g]), whole |-> w])]
        PROVE  Lines'
    <3>1. PICK line : line = [req |-> Head(inPipe[g]), whole |-> w]
      OBVIOUS
    <3>2. line \in Line /\ line.whole = w
      <4>1. Head(inPipe[g]) \in Requests
        BY <1>1, <2>3, TailFacts
      <4> QED BY <3>1, <4>1 DEF Line
    <3>3. outPipe'[g] = Append(outPipe[g], line)
      BY <1>1, <2>3, <3>1
    <3>4. \A i \in 1 .. Len(outPipe'[g]) : \/ i \in 1 .. Len(outPipe[g]) /\ outPipe'[g][i] = outPipe[g][i]
                                           \/ outPipe'[g][i] = line
      BY <1>1, <3>2, <3>3, AppendFacts
    <3>5. \A h \in Gens : h # g => outPipe'[h] = outPipe[h]
      BY <1>1, <2>3
    <3> QED BY <1>2, <2>3, <3>2, <3>4, <3>5 DEF PartialInv
  <2>4. ASSUME NEW g \in Gens, Serve(g)
        PROVE  Lines'
    BY <2>3, <2>4 DEF Serve
  <2>5. ASSUME NEW g \in Gens, CrashMidWrite(g)
        PROVE  Lines'
    <3>1. Lost(g)'
      BY <1>1, <2>5 DEF CrashMidWrite
    <3> QED BY <2>3, <2>5, <3>1 DEF CrashMidWrite
  <2> QED BY <2>1, <2>2, <2>4, <2>5
          DEF Next, Close, Send, Finish, RespawnAndRetry, ReuseAndRetry, ChildGone, DrainTimeout,
              Hang, Crash, Terminate, procVars
<1>4. ASSUME NEW r \in Requests, wake'[r] = "parse"
      PROVE  Faulty'
  <2>1. CASE wake[r] = "parse"
    BY <2>1, FaultyLasts DEF PartialInv
  <2>2. CASE wake[r] # "parse"
    <3>1. ASSUME NEW g \in Gens, ReadLine(g)
          PROVE  Faulty'
      <4>1. outPipe[g] # <<>> /\ ~Head(outPipe[g]).whole
        BY <1>1, <1>4, <2>2, <3>1 DEF ReadLine
      <4>2. 1 \in 1 .. Len(outPipe[g]) /\ Head(outPipe[g]) = outPipe[g][1]
        BY <1>1, <4>1, TailFacts
      <4>3. Faulty
        BY <4>1, <4>2 DEF PartialInv, Faulty
      <4> QED BY <4>3, FaultyLasts
    <3>2. ASSUME NEW q \in Requests, NEW g, Request(g, q)
          PROVE  FALSE
      BY <1>4, <2>2, <3>2, RequestWakes
    <3>3. ASSUME NEW g \in Gens, ChildGone(g)
          PROVE  FALSE
      BY <1>4, <2>2, <3>3 DEF ChildGone
    <3>4. ASSUME NEW q \in Requests, Finish(q)
          PROVE  FALSE
      BY <1>1, <1>4, <2>2, <3>4 DEF Finish
    <3>5. wake' # wake
      BY <1>4, <2>2
    <3> QED BY <3>1, <3>2, <3>3, <3>4, <3>5
            DEF Next, Close, Send, RespawnAndRetry, ReuseAndRetry, DrainTimeout, Serve, Hang, Crash,
                CrashMidWrite, Terminate, callVars
  <2> QED BY <2>1, <2>2
<1> QED BY <1>3, <1>4 DEF PartialInv

LEMMA ServeInvHolds == Spec => [](IInv /\ ServeInv)
<1>1. ASSUME Init
      PROVE  ServeInv
  BY <1>1, BudgetAssumption DEF Init, ServeInv, AnswerInv, PartialInv, Gens
<1>2. ASSUME IInv, ServeInv, [Next]_vars
      PROVE  ServeInv'
  <2>1. CASE Next
    BY <1>2, <2>1, AnswerStep, PartialStep DEF ServeInv
  <2>2. CASE UNCHANGED vars
    BY <1>2, <2>2
    DEF vars, hostVars, procVars, callVars, ServeInv, AnswerInv, PartialInv, Faulty
  <2> QED BY <1>2, <2>1, <2>2
<1> QED BY <1>1, <1>2, InvariantHolds, PTL DEF Spec

\* What the owner of the client sees of a call, and was told.
Seen(r) ==
  IF phase[r] = "idle" THEN "idle"
  ELSE IF phase[r] \in {"first", "second"} THEN "pending"
  ELSE IF phase[r] = "answer" THEN "answered"
  ELSE "failed"

Told(r) == IF phase[r] = "answer" THEN reply[r] ELSE Nobody

\* A step that no call sees is a fault, or nothing to the service.
LEMMA UnseenStep ==
  ASSUME IInv, Next, \A r \in Requests : Seen(r)' = Seen(r) /\ Told(r)' = Told(r)
  PROVE  Service!Next \/ UNCHANGED Service!svars
<1>1. UNCHANGED <<[r \in Requests |-> Seen(r)], [r \in Requests |-> Told(r)]>>
  OBVIOUS
<1>2. Faulty => Faulty'
  BY FaultyLasts
<1> QED BY <1>1, <1>2 DEF Service!Next, Service!Fault, Service!svars, Seen, Told, Faulty

\* The steps of the service, in terms of what is seen of one call.
LEMMA SeenStep ==
  ASSUME NEW r \in Requests, \A q \in Requests : q # r => Seen(q)' = Seen(q) /\ Told(q)' = Told(q),
         Faulty' <=> Faulty
  PROVE  /\ Seen(r) = "idle" /\ Seen(r)' = "pending" /\ Told(r)' = Told(r) => Service!Next
         /\ Seen(r) = "pending" /\ Seen(r)' = "answered" /\ Told(r)' = r => Service!Next
         /\ Seen(r) = "pending" /\ Seen(r)' = "failed" /\ Told(r)' = Told(r) /\ Faulty => Service!Next
<1> DEFINE status == [q \in Requests |-> Seen(q)]
           answer == [q \in Requests |-> Told(q)]
<1>1. status' = [status EXCEPT ![r] = Seen(r)'] /\ answer' = [answer EXCEPT ![r] = Told(r)']
  OBVIOUS
<1>2. Told(r)' = Told(r) => answer' = answer
  OBVIOUS
<1>3. status[r] = Seen(r)
  OBVIOUS
<1>4. Seen(r) = "idle" /\ Seen(r)' = "pending" /\ Told(r)' = Told(r) => Service!Submit(r)
  BY <1>1, <1>2, <1>3 DEF Service!Submit, Seen, Told, Faulty
<1>5. Seen(r) = "pending" /\ Seen(r)' = "answered" /\ Told(r)' = r => Service!Answer(r)
  BY <1>1, <1>3 DEF Service!Answer, Seen, Told, Faulty
<1>6. Seen(r) = "pending" /\ Seen(r)' = "failed" /\ Told(r)' = Told(r) /\ Faulty => Service!Fail(r)
  BY <1>1, <1>2, <1>3 DEF Service!Fail, Seen, Told, Faulty
<1> QED BY <1>4, <1>5, <1>6 DEF Service!Next

LEMMA ServiceStep ==
  ASSUME IInv, ServeInv, Next
  PROVE  Service!Next \/ UNCHANGED Service!svars
<1>1. /\ wake \in [Requests -> Outcomes \union {"none"}]
      /\ phase \in [Requests -> Phases]
      /\ reply \in [Requests -> Requests \union {Nobody}]
  BY DEF IInv, TypeOK
<1>2. ASSUME NEW r \in Requests, NEW p, phase' = [phase EXCEPT ![r] = p], reply' = reply
      PROVE  phase'[r] = p /\ \A q \in Requests : q # r => Seen(q)' = Seen(q) /\ Told(q)' = Told(q)
  BY <1>1, <1>2 DEF Seen, Told
<1>3. ASSUME NEW r \in Requests, Send(r)
      PROVE  Service!Next
  <2>1. /\ phase[r] = "idle" /\ phase' = [phase EXCEPT ![r] = "first"]
        /\ UNCHANGED <<proc, intentionalClose, reply>>
    BY <1>3 DEF Send
  <2>2. Seen(r) = "idle" /\ Seen(r)' = "pending" /\ Told(r)' = Told(r) /\ (Faulty' <=> Faulty)
    BY <1>1, <2>1 DEF Seen, Told, Faulty
  <2> QED BY <1>2, <2>1, <2>2, SeenStep
<1>4. ASSUME NEW r \in Requests, Finish(r)
      PROVE  Service!Next
  <2>1. /\ wake[r] # "none" /\ phase' = [phase EXCEPT ![r] = wake[r]]
        /\ UNCHANGED <<proc, intentionalClose, reply>> /\ phase'[r] = wake[r]
    BY <1>1, <1>4 DEF Finish, hostVars, procVars
  <2>2. phase[r] \in {"first", "second"} /\ (Faulty' <=> Faulty)
    BY <2>1 DEF IInv, WakeInv, Faulty
  <2>3. CASE wake[r] = "answer"
    <3>1. Seen(r) = "pending" /\ Seen(r)' = "answered" /\ Told(r)' = r
      BY <2>1, <2>2, <2>3 DEF Seen, Told, ServeInv, AnswerInv
    <3> QED BY <1>2, <2>1, <2>2, <3>1, SeenStep
  <2>4. CASE wake[r] # "answer"
    <3>1. wake[r] \in LossReasons \union {"parse"}
      BY <1>1, <2>1, <2>4 DEF Outcomes
    <3>2. Faulty
      <4>1. attempt[r] \in Gens
        BY DEF IInv, TypeOK
      <4> QED BY <3>1, <4>1 DEF IInv, WakeInv, ServeInv, PartialInv, Faulty
    <3>3. Seen(r) = "pending" /\ Seen(r)' = "failed" /\ Told(r)' = Told(r)
      BY <2>1, <2>2, <3>1 DEF Seen, Told, LossReasons
    <3> QED BY <1>2, <2>1, <2>2, <3>2, <3>3, SeenStep
  <2> QED BY <2>3, <2>4
<1>5. ASSUME NEW r \in Requests, RespawnAndRetry(r) \/ ReuseAndRetry(r)
      PROVE  \A q \in Requests : Seen(q)' = Seen(q) /\ Told(q)' = Told(q)
  <2>1. phase[r] = "first" /\ phase' = [phase EXCEPT ![r] = "second"] /\ reply' = reply
    BY <1>5 DEF RespawnAndRetry, ReuseAndRetry
  <2>2. Seen(r)' = Seen(r) /\ Told(r)' = Told(r)
    BY <1>1, <2>1 DEF Seen, Told
  <2> QED BY <1>2, <2>1, <2>2
<1>6. ASSUME NEW g \in Gens, ReadLine(g)
      PROVE  \A q \in Requests : Seen(q)' = Seen(q) /\ Told(q)' = Told(q)
  <2>1. CASE queue[g] = <<>>
    BY <1>6, <2>1 DEF ReadLine, Seen, Told
  <2>2. CASE queue[g] # <<>>
    <3>1. queue[g] \in Seq(Requests)
      BY DEF IInv, TypeOK
    <3>2. 1 \in 1 .. Len(queue[g]) /\ Head(queue[g]) = queue[g][1]
      BY <2>2, <3>1, TailFacts
    <3>3. phase[Head(queue[g])] # "answer"
      BY <3>2 DEF IInv, QueueInv
    <3>4. phase' = phase /\ \A q \in Requests : q # Head(queue[g]) => reply'[q] = reply[q]
      BY <1>1, <1>6, <2>2 DEF ReadLine
    <3> QED BY <3>3, <3>4 DEF Seen, Told
  <2> QED BY <2>1, <2>2
<1>7. CASE UNCHANGED <<phase, reply>>
  <2>1. \A q \in Requests : Seen(q)' = Seen(q) /\ Told(q)' = Told(q)
    BY <1>7 DEF Seen, Told
  <2> QED BY <2>1, UnseenStep
<1> QED BY <1>3, <1>4, <1>5, <1>6, <1>7, UnseenStep
        DEF Next, Close, ChildGone, DrainTimeout, Serve, Hang, Crash, CrashMidWrite, Terminate,
            callVars

\* resolver-client.ts: with its pipes, retries and children, the client is a
\* service that settles a call at most once, with the response to that very
\* call or, after a loss or a close, with an error.
THEOREM ClientServes == Spec => ServiceSpec
<1>1. Init => Service!Init
  BY DEF Init, Service!Init, Faulty
<1>2. ASSUME UNCHANGED vars
      PROVE  UNCHANGED Service!svars
  BY <1>2 DEF vars, hostVars, procVars, callVars, Service!svars, Faulty
<1>3. IInv /\ ServeInv /\ [Next]_vars => [Service!Next]_Service!svars
  BY <1>2, ServiceStep
<1> QED BY <1>1, <1>3, ServeInvHolds, PTL DEF Spec, ServiceSpec, Service!Spec
=============================================================================
