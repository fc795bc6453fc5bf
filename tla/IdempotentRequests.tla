------------------------- MODULE IdempotentRequests -------------------------
(***************************************************************************)
(* Idempotency-Key handling (_idempotent in transport/http.py) over the    *)
(* in-memory idempotency store, for the operations that create something:  *)
(* createVectorCollection and provisionVectorCollectionGeneration, each of *)
(* whose executions makes a generation under an id of its own.             *)
(*                                                                         *)
(* Each await is a step: the call to begin, the operation itself, and the  *)
(* call to complete or abandon.  A key stands for a (scope, key) pair and  *)
(* a body for the hash of the canonical request.  The ttl given to begin   *)
(* is ignored, as the store ignores it.                                    *)
(***************************************************************************)

CONSTANTS
  Key,          \* (scope, Idempotency-Key) pairs
  Body,         \* request hashes
  Work,         \* the supply of things executions can make: the only bound
  Handler,      \* request slots that may be busy at the same time
  None,         \* no key, no record, no response
  Restarts      \* may the process restart?

ASSUME IdempotencyAssumption ==
  /\ None \notin Key \cup Body \cup Work
  /\ Restarts \in BOOLEAN

VARIABLES
  records,      \* InMemoryIdempotencyStore._records
  work,         \* who made what: outlives the process
  pc,           \* where each handler is in _idempotent
  req           \* its key, request hash and response

vars == <<records, work, pc, req>>

Unbound == [hash |-> None, response |-> None]

Reserved(body) == [hash |-> body, response |-> None]

Record == [hash : Body \cup {None}, response : Work \cup {None}]

\* The origin of a piece of work: the request an execution of which made it.
Origin == [key : Key \cup {None}, body : Body \cup {None}]

Unmade == [key |-> None, body |-> None]

Idle == [key |-> None, body |-> None, response |-> None]

Request == [key : Key \cup {None}, body : Body \cup {None}, response : Work \cup {None}]

Label == {"idle", "execute", "complete", "abandon", "replayed", "conflict", "succeeded"}

Init ==
  /\ records = [k \in Key |-> Unbound]
  /\ work = [w \in Work |-> Unmade]
  /\ pc = [h \in Handler |-> "idle"]
  /\ req = [h \in Handler |-> Idle]

----------------------------------------------------------------------------
Goto(h, label) == pc' = [pc EXCEPT ![h] = label]

Answer(h) == Goto(h, "idle") /\ req' = [req EXCEPT ![h] = Idle]

Accept(h, key, body, response) ==
  req' = [req EXCEPT ![h] = [key |-> key, body |-> body, response |-> response]]

\* A request without a key is executed and nothing is recorded.
BeginUnkeyed(h) ==
  /\ pc[h] = "idle"
  /\ \E b \in Body : Accept(h, None, b, None)
  /\ Goto(h, "execute")
  /\ UNCHANGED <<records, work>>

Reserve(h, k, b) ==
  /\ records[k].hash = None
  /\ records' = [records EXCEPT ![k] = Reserved(b)]
  /\ Accept(h, k, b, None)
  /\ Goto(h, "execute")

\* Slip: the stored hash is not compared with the request's.
ReplayUnmatched(h, k, b) ==
  /\ records[k].response # None
  /\ Accept(h, k, b, records[k].response)
  /\ Goto(h, "replayed")
  /\ UNCHANGED records

Replay(h, k, b) ==
  /\ records[k].hash = b
  /\ records[k].response # None
  /\ Accept(h, k, b, records[k].response)
  /\ Goto(h, "replayed")
  /\ UNCHANGED records

\* Slip: a retry takes over the reservation of a request that is under way.
TakeOver(h, k, b) ==
  /\ records[k].hash # None
  /\ Accept(h, k, b, None)
  /\ IF records[k].hash = b /\ records[k].response = None
     THEN Goto(h, "execute")
     ELSE records[k].hash # b /\ Goto(h, "conflict")
  /\ UNCHANGED records

\* A conflict is a key bound to another request, or to the same one while it
\* is still being executed.
Conflict(h, k, b) ==
  /\ records[k].hash # None
  /\ records[k].hash # b \/ records[k].response = None
  /\ Accept(h, k, b, None)
  /\ Goto(h, "conflict")
  /\ UNCHANGED records

\* InMemoryIdempotencyStore.begin.
BeginKeyed(h) ==
  /\ pc[h] = "idle"
  /\ \E k \in Key, b \in Body : Reserve(h, k, b) \/ Replay(h, k, b) \/ Conflict(h, k, b)
  /\ UNCHANGED work

Make(h, w) ==
  /\ work[w] = Unmade
  /\ work' = [work EXCEPT ![w] = [key |-> req[h].key, body |-> req[h].body]]

Succeed(h) ==
  /\ \E w \in Work : Make(h, w) /\ req' = [req EXCEPT ![h].response = w]
  /\ Goto(h, IF req[h].key = None THEN "succeeded" ELSE "complete")

\* The operation raises: before it made anything, or after, for instance when
\* the collection cannot be read back for the answer.
Fail(h) ==
  /\ UNCHANGED work \/ \E w \in Work : Make(h, w)
  /\ IF req[h].key = None THEN Answer(h) ELSE Goto(h, "abandon") /\ UNCHANGED req

Execute(h) ==
  /\ pc[h] = "execute"
  /\ Succeed(h) \/ Fail(h)
  /\ UNCHANGED records

\* complete keeps the hash of the reservation and adds the response.
Complete(h) ==
  /\ pc[h] = "complete"
  /\ records' = [records EXCEPT ![req[h].key].response = req[h].response]
  /\ Goto(h, "succeeded")
  /\ UNCHANGED <<work, req>>

\* Slip: an exception leaves the reservation in place.
AbandonNothing(h) ==
  /\ pc[h] = "abandon"
  /\ Answer(h)
  /\ UNCHANGED <<records, work>>

\* An error is never kept: the key is free again.
Abandon(h) ==
  /\ pc[h] = "abandon"
  /\ records' = [records EXCEPT ![req[h].key] = Unbound]
  /\ Answer(h)
  /\ UNCHANGED work

Reply(h) ==
  /\ pc[h] \in {"replayed", "conflict", "succeeded"}
  /\ Answer(h)
  /\ UNCHANGED <<records, work>>

\* The process restarts: the store is empty and every request is gone.
Restart ==
  /\ Restarts
  /\ records' = [k \in Key |-> Unbound]
  /\ pc' = [h \in Handler |-> "idle"]
  /\ req' = [h \in Handler |-> Idle]
  /\ UNCHANGED work

Begin(h) == BeginUnkeyed(h) \/ BeginKeyed(h)

Continue(h) == Execute(h) \/ Complete(h) \/ Abandon(h) \/ Reply(h)

Next ==
  \/ \E h \in Handler : Begin(h)
  \/ \E h \in Handler : Continue(h)
  \/ Restart

Spec == Init /\ [][Next]_vars

\* An operation ends within its deadline, and nothing in _idempotent waits for
\* another request: a request that is under way always moves on.
FairSpec == Spec /\ \A h \in Handler : WF_vars(Continue(h))
----------------------------------------------------------------------------
TypeOK ==
  /\ records \in [Key -> Record]
  /\ work \in [Work -> Origin]
  /\ pc \in [Handler -> Label]
  /\ req \in [Handler -> Request]

Executing(h) == pc[h] \in {"execute", "complete", "abandon"}

\* Concurrent requests with the same key never execute at the same time, not
\* even when one is the retry of another that is still under way.
OneExecutionPerKey ==
  \A h, k \in Handler :
    Executing(h) /\ Executing(k) /\ req[h].key = req[k].key /\ req[h].key # None => h = k

\* A successful answer under a key, fresh or replayed, was made by an execution
\* of that very body under that very key, and is what the next retry gets.
AnswersAreFaithful ==
  \A h \in Handler :
    pc[h] \in {"replayed", "succeeded"} /\ req[h].key # None =>
      /\ req[h].response \in Work
      /\ work[req[h].response] = [key |-> req[h].key, body |-> req[h].body]
      /\ records[req[h].key] = [hash |-> req[h].body, response |-> req[h].response]

Completed(k) == records[k].response # None

\* What an execution answered stays the answer of its key: until a restart
\* empties the whole store, no request executes under the key again, and no
\* complete or abandon of another request changes the record.
SuccessIsFinal ==
  [][\A k \in Key :
       Completed(k) /\ records'[k] # records[k] => \A x \in Key : records'[x] = Unbound]_vars

\* A key is not lost to a request that failed: every reservation is resolved,
\* into a recorded success or a key that is free again.
ReservationsAreResolved ==
  \A k \in Key : records[k].hash # None ~> (records[k].hash = None \/ Completed(k))

----------------------------------------------------------------------------
(* The inductive invariant.                                                *)

\* A keyed request that executes holds the reservation of its key.
HoldsReservation(h) ==
  Executing(h) =>
    /\ req[h].body \in Body
    /\ pc[h] = "abandon" => req[h].key # None
    /\ req[h].key # None => records[req[h].key] = Reserved(req[h].body)

\* What is about to be recorded was made by this request.
MadeItself(h) ==
  pc[h] = "complete" =>
    /\ req[h].key # None
    /\ req[h].response \in Work
    /\ work[req[h].response] = [key |-> req[h].key, body |-> req[h].body]

\* What is on record was made by a request with the recorded hash.
RecordsAreFaithful ==
  \A k \in Key :
    Completed(k) =>
      /\ records[k].hash \in Body
      /\ work[records[k].response] = [key |-> k, body |-> records[k].hash]

IInv ==
  /\ TypeOK
  /\ OneExecutionPerKey
  /\ RecordsAreFaithful
  /\ AnswersAreFaithful
  /\ \A h \in Handler : HoldsReservation(h) /\ MadeItself(h)
=============================================================================
