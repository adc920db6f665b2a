------------------------------ MODULE OrderApi ------------------------------
(***************************************************************************)
(* The webhook of src/agent_service/order_api.py: a ThreadingHTTPServer    *)
(* gives each connection a handler thread; the handler parses a request,   *)
(* serializes fulfilment behind run_lock, replies, and waits for the next  *)
(* request on the connection (keep-alive).  The runner is make_runner's:   *)
(* it builds a verifier for the order and calls fulfill_order, whose steps *)
(* are those of FulfillOrder, a handler thread being its caller.           *)
(*                                                                         *)
(* A client sends one request at a time, may repeat an order, and may go   *)
(* away at any time; the handler notices when it writes.                   *)
(***************************************************************************)
EXTENDS FulfillOrder

CONSTANT MaxRequests   \* bound: the requests all clients make

\* The webhook has no --perceive: its runner passes no resolver, and the pick
\* is always the pose table's.
ASSUME WebhookAssumption == MaxRequests \in Nat /\ Perceiving = FALSE

VARIABLES
  lock,     \* run_lock: the thread that holds it, or None
  phase,    \* per thread: where its handler is
  request,  \* per thread: what the request was
  wanted,   \* per thread: the order of a POST /orders
  code,     \* per thread: the HTTP status it is to reply with
  spoiled,  \* the connections with an unread body in front of the next request
  served,   \* how many requests have been read
  runs      \* history: how often the runner was called for the request

connection == <<spoiled, served>>
http == <<lock, phase, request, wanted, code, connection, runs>>
apiVars == <<vars, http>>

Phases == {"idle", "wait", "locked", "run", "crash", "reply", "done", "dropped"}
Requests == {"none", "order", "invalid", "unread", "health"}

\* The statuses that need no runner.  A body of which the length is not known
\* (411) is left unread like one that is too long; a wrong route (404) or
\* method (405) is answered like a body that is no order.
CodeOf(r) == CASE r = "invalid" -> 422
               [] r = "unread" -> 413
               [] r = "health" -> 200

\* Mutant: a failed order is answered like a fulfilled one.
OutcomeCodeAlwaysOk(status) == 200

\* The status of an order that was run.
OutcomeCode(status) == IF status = "fulfilled" THEN 200 ELSE 409

ApiInit ==
  /\ Init
  /\ lock = None
  /\ phase = [t \in Callers |-> "idle"]
  /\ request = [t \in Callers |-> "none"]
  /\ wanted = [t \in Callers |-> None]
  /\ code = [t \in Callers |-> 0]
  /\ spoiled = {}
  /\ served = 0
  /\ runs = [t \in Callers |-> 0]

\* A request is read, if the client makes another one; what the handler knew
\* of the one before is gone.
Read(t, r, o) ==
  /\ phase[t] \in {"idle", "done"}
  /\ served < MaxRequests
  /\ served' = served + 1
  /\ request' = [request EXCEPT ![t] = r]
  /\ wanted' = [wanted EXCEPT ![t] = o]
  /\ runs' = [runs EXCEPT ![t] = 0]
  /\ call' = [call EXCEPT ![t] = NoCall]
  /\ alerts' = [alerts EXCEPT ![t] = {}]
  /\ UNCHANGED <<world, sent, lock>>

\* A well-formed order arrives: its handler goes for the lock.
ReceiveOrder(t, o) ==
  /\ t \notin spoiled
  /\ Read(t, "order", o)
  /\ phase' = [phase EXCEPT ![t] = "wait"]
  /\ code' = [code EXCEPT ![t] = 0]
  /\ UNCHANGED spoiled

\* Anything else is answered without the lock.  A 411 or 413 leaves the body
\* on the connection.
ReceiveOther(t, r) ==
  /\ t \notin spoiled
  /\ Read(t, r, None)
  /\ phase' = [phase EXCEPT ![t] = "reply"]
  /\ code' = [code EXCEPT ![t] = CodeOf(r)]
  /\ spoiled' = IF r = "unread" THEN spoiled \cup {t} ELSE spoiled

\* Behind an unread body a request cannot be told from the rest of the body,
\* and is refused by the library whatever it was (external): bodies are taken
\* to be JSON, no line of which reads as a request line.
Misread(t) ==
  /\ t \in spoiled
  /\ Read(t, "invalid", None)
  /\ phase' = [phase EXCEPT ![t] = "reply"]
  /\ code' = [code EXCEPT ![t] = 400]
  /\ UNCHANGED spoiled

\* Mutant: no lock.
AcquireFreely(t) ==
  /\ phase[t] = "wait"
  /\ lock' = t
  /\ phase' = [phase EXCEPT ![t] = "locked"]
  /\ UNCHANGED <<vars, request, wanted, code, connection, runs>>

\* with run_lock.
Acquire(t) ==
  /\ phase[t] = "wait"
  /\ lock = None
  /\ lock' = t
  /\ phase' = [phase EXCEPT ![t] = "locked"]
  /\ UNCHANGED <<vars, request, wanted, code, connection, runs>>

\* The runner builds a verifier and enters fulfill_order.
CallRunner(t) ==
  /\ phase[t] = "locked"
  /\ Start(t, wanted[t])
  /\ phase' = [phase EXCEPT ![t] = "run"]
  /\ runs' = [runs EXCEPT ![t] = @ + 1]
  /\ UNCHANGED <<lock, request, wanted, code, connection>>

\* Building the verifier raises (unreadable bin regions, say): the handler
\* is to reply 500, inside the with block.
RunnerRaises(t) ==
  /\ phase[t] = "locked"
  /\ Verifying
  /\ phase' = [phase EXCEPT ![t] = "crash"]
  /\ code' = [code EXCEPT ![t] = 500]
  /\ runs' = [runs EXCEPT ![t] = @ + 1]
  /\ UNCHANGED <<vars, lock, request, wanted, connection>>

\* fulfill_order takes a step.
RunnerStep(t) ==
  /\ phase[t] = "run"
  /\ Step(t)
  /\ UNCHANGED http

\* The runner returns: the lock is released and the reply made up.
RunnerReturns(t) ==
  /\ phase[t] = "run"
  /\ call[t].pc = "returned"
  /\ lock' = None
  /\ phase' = [phase EXCEPT ![t] = "reply"]
  /\ code' = [code EXCEPT ![t] = OutcomeCode(call[t].status)]
  /\ UNCHANGED <<vars, request, wanted, connection, runs>>

\* Mutant: acquire() and release() for the with block.
WriteHolding(t) ==
  /\ phase[t] \in {"reply", "crash"}
  /\ \E p \in {"done", "dropped"} : phase' = [phase EXCEPT ![t] = p]
  /\ UNCHANGED <<vars, lock, request, wanted, code, connection, runs>>

\* The reply is written, or the write raises because the client has gone.
\* A 500 leaves the with block only then.
Write(t) ==
  /\ phase[t] \in {"reply", "crash"}
  /\ \E p \in {"done", "dropped"} : phase' = [phase EXCEPT ![t] = p]
  /\ lock' = IF phase[t] = "crash" THEN None ELSE lock
  /\ UNCHANGED <<vars, request, wanted, code, connection, runs>>

Handle(t) ==
  \/ Acquire(t)
  \/ CallRunner(t)
  \/ RunnerRaises(t)
  \/ RunnerReturns(t)
  \/ Write(t)

ApiNext ==
  \E t \in Callers :
    \/ \E o \in Orders : ReceiveOrder(t, o)
    \/ \E r \in Requests \ {"none", "order"} : ReceiveOther(t, r)
    \/ Misread(t)
    \/ Handle(t)
    \/ RunnerStep(t)

ApiSpec == ApiInit /\ [][ApiNext]_apiVars

\* Handler threads run.  The lock is not fair, but with finitely many requests
\* (MaxRequests) a thread that waits for it finds it free for good in the end.
\* Nothing makes a runner go on: it may hang in an SDK call.
FairApiSpec == ApiSpec /\ \A t \in Callers : WF_apiVars(Handle(t))
---------------------------------------------------------------------------
ApiTypeOK ==
  /\ TypeOK
  /\ lock \in Callers \cup {None}
  /\ phase \in [Callers -> Phases]
  /\ request \in [Callers -> Requests]
  /\ wanted \in [Callers -> Orders \cup {None}]
  /\ code \in [Callers -> {0, 200, 400, 409, 413, 422, 500}]
  /\ spoiled \subseteq Callers
  /\ served \in 0..MaxRequests
  /\ runs \in [Callers -> Nat]

\* There is exactly one physical arm: two orders are never fulfilled at the
\* same time, so their joint commands cannot interleave.
OneArm ==
  \A t, u \in Callers : Busy(t) /\ Busy(u) => t = u

\* A reply says what happened: 200 only to an order that was fulfilled and (if
\* it could be verified) whose bin holds what the verifier took for its item,
\* 409 to one that was run and failed; 4xx and 500 only to requests that moved
\* nothing.  An order is run at most once, and once if it gets a 200 or 409.
ReplyIsTrue ==
  \A t \in Callers :
    /\ request[t] # "order" => runs[t] = 0
    /\ runs[t] <= 1
    /\ code[t] = 200 /\ request[t] = "order" =>
         /\ runs[t] = 1 /\ call[t].order = wanted[t]
         /\ call[t].status = "fulfilled"
         /\ call[t].verify =>
              call[t].seen \in Items /\ where[call[t].seen] = wanted[t].bin
    /\ code[t] = 409 => runs[t] = 1 /\ call[t].status = "failed"
    /\ code[t] \in {400, 413, 422, 500} => call[t] = NoCall

\* What the warehouse sees is SerialCell: the request being worked on, and
\* what has come of every client's last one.
SeenBusy == IF lock # None /\ phase[lock] = "run" THEN lock ELSE None

FateOf(n) == CASE n = 0 -> "none"
               [] n = 200 -> "fulfilled"
               [] n = 409 -> "failed"
               [] n = 500 -> "crashed"

SeenFate ==
  [t \in Callers |->
     IF request[t] # "order" THEN "none"
     ELSE IF phase[t] = "run" THEN "working" ELSE FateOf(code[t])]

Cell == INSTANCE SerialCell WITH
  Requests <- Callers, busy <- SeenBusy, want <- wanted, fate <- SeenFate
IsSerialCell == Cell!CellSpec

\* /health and error replies never block behind a running order, not even
\* one that hangs.
OthersAreAnswered ==
  \A t \in Callers :
    request[t] \notin {"none", "order"} ~> phase[t] \in {"done", "dropped"}

\* Unless a runner hangs every order is answered in the end (or its client
\* is gone), and the lock is given back.
OrdersAreAnswered ==
  (\A t \in Callers : []<>(phase[t] # "run"))
    => \A t \in Callers :
         request[t] = "order" ~> phase[t] \in {"done", "dropped"} /\ lock # t

\* Every request is answered in the end: what needs no arm even while an order
\* hangs, and the orders unless one does.
RequestsAreAnswered == OthersAreAnswered /\ OrdersAreAnswered
============================================================================
