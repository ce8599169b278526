--------------------------- MODULE RequestService ---------------------------
(***************************************************************************)
(* What a caller of ResolverClientBase.send may rely on: a call settles at *)
(* most once, with the response to that very call or with an error, and an *)
(* error is possible only once something went wrong (a child was lost or   *)
(* never started) or the client was closed.                                *)
(***************************************************************************)
CONSTANTS
  Requests,  \* the calls
  Nobody     \* no response

VARIABLES
  status,    \* status[r]: idle, pending, answered or failed
  answer,    \* answer[r]: the request whose response r received
  faulty     \* a loss or a close has happened

svars == <<status, answer, faulty>>

Init ==
  /\ status = [r \in Requests |-> "idle"]
  /\ answer = [r \in Requests |-> Nobody]
  /\ faulty \in BOOLEAN

Submit(r) ==
  /\ status[r] = "idle"
  /\ status' = [status EXCEPT ![r] = "pending"]
  /\ UNCHANGED <<answer, faulty>>

Answer(r) ==
  /\ status[r] = "pending"
  /\ status' = [status EXCEPT ![r] = "answered"]
  /\ answer' = [answer EXCEPT ![r] = r]
  /\ UNCHANGED faulty

Fail(r) ==
  /\ status[r] = "pending"
  /\ faulty
  /\ status' = [status EXCEPT ![r] = "failed"]
  /\ UNCHANGED <<answer, faulty>>

Fault ==
  /\ ~faulty
  /\ faulty' = TRUE
  /\ UNCHANGED <<status, answer>>

Next ==
  \/ Fault
  \/ \E r \in Requests : Submit(r) \/ Answer(r) \/ Fail(r)

Spec == Init /\ [][Next]_svars
=============================================================================
