----------------------------- MODULE Readiness -----------------------------
(***************************************************************************)
(* GET /health/ready beside the requests of CatalogAccess.                 *)
(*                                                                         *)
(* The route asks the embedding service, the vector store and the catalog  *)
(* at the same time, each with a bound of its own, under a bound on the    *)
(* whole.  Asking the catalog is the probe of CatalogAccess, which may     *)
(* create the private collection and hold the lock that other requests     *)
(* wait for; the bounds cancel it wherever it is.                          *)
(***************************************************************************)
EXTENDS CatalogAccess

VARIABLES
  checks,   \* of each request: what the embedding service and the store have answered
  claimed   \* has each process, since it started, called itself ready?

readinessVars == <<vars, checks, claimed>>

Dependency == {"embedding", "vector_store"}

\* The states of a check: not asked, asked, answered.
All(status) == [d \in Dependency |-> status]

ReadinessInit ==
  /\ Init
  /\ checks = [h \in Handler |-> All("none")]
  /\ claimed = [r \in Replica |-> FALSE]

\* A readiness request whose answer has not been given.
Asked(h) == checks[h] # All("none")

\* The three are asked at once.
BeginReady(h) ==
  /\ BeginProbe(h)
  /\ checks' = [checks EXCEPT ![h] = All("pending")]
  /\ UNCHANGED claimed

Answers(h, d) ==
  /\ checks[h][d] = "pending"
  /\ \E status \in {"ready", "unavailable"} : checks' = [checks EXCEPT ![h][d] = status]
  /\ UNCHANGED <<vars, claimed>>

\* A batch of one text; a failure, another dimension or revision is unavailable.
EmbeddingReady(h) == Answers(h, "embedding")

\* Qdrant's own probe under a timeout.
StoreReady(h) == Answers(h, "vector_store")

\* Slip: one that is ready is enough.
IsAnyReady(h) == "ready" \in {checks[h][d] : d \in Dependency} \/ pc[h] = "prepared"

\* The service is ready when all three are.
IsReady(h) == checks[h] = All("ready") /\ pc[h] = "prepared"

\* When all three have answered, so does the route.
Respond(h) ==
  /\ Asked(h)
  /\ \A d \in Dependency : checks[h][d] # "pending"
  /\ claimed' = [claimed EXCEPT ![Home[h]] = @ \/ IsReady(h)]
  /\ checks' = [checks EXCEPT ![h] = All("none")]
  /\ pc[h] \in {"prepared", "unavailable"} /\ Return(h)

\* Slip: the probe is left where it is, with the lock.
Abandon(h) ==
  /\ Goto(h, "unavailable")
  /\ req' = [req EXCEPT ![h] = Remains(h)]
  /\ UNCHANGED <<store, process, views>>

\* The probe that has not come to its end is cancelled.
Stop(h) == Cancel(h)

\* The bound on the whole: what has been answered is forgotten.
TotalTimeout(h) ==
  /\ Asked(h)
  /\ checks' = [checks EXCEPT ![h] = All("unavailable")]
  /\ UNCHANGED claimed
  /\ \/ Busy(h) /\ Stop(h)
     \/ ~Busy(h) /\ "pending" \in {checks[h][d] : d \in Dependency} /\ UNCHANGED vars

\* The other requests, and the way of the probe.
Access(h) ==
  /\ UNCHANGED <<checks, claimed>>
  /\ \/ Begin(h) \/ EnterLock(h) \/ Continue(h) \/ Cancel(h)
     \/ ~Asked(h) /\ Return(h)

ReplicaRestarts(r) ==
  /\ Crash(r)
  /\ checks' = [h \in Handler |-> IF Home[h] = r THEN All("none") ELSE checks[h]]
  /\ claimed' = [claimed EXCEPT ![r] = FALSE]

ReadinessNext ==
  \/ \E h \in Handler : BeginReady(h) \/ EmbeddingReady(h) \/ StoreReady(h)
  \/ \E h \in Handler : Respond(h) \/ TotalTimeout(h) \/ Access(h)
  \/ LateCallLands /\ UNCHANGED <<checks, claimed>>
  \/ \E r \in Replica : ReplicaRestarts(r)

ReadinessSpec == ReadinessInit /\ [][ReadinessNext]_readinessVars

\* What a request does that does not wait for the lock.
Proceed(h) == Respond(h) \/ TotalTimeout(h) \/ (Continue(h) /\ UNCHANGED <<checks, claimed>>)

\* Every call to Qdrant ends, by its timeout at the latest, asyncio.Lock wakes
\* those who wait for it in turn, and the event loop runs what is due.  Neither
\* the embedding service nor the store need answer.
ReadinessFairness ==
  \A h \in Handler :
    /\ WF_readinessVars(Proceed(h))
    /\ SF_readinessVars(EnterLock(h) /\ UNCHANGED <<checks, claimed>>)
----------------------------------------------------------------------------
ReadinessTypeOK ==
  /\ checks \in [Handler -> [Dependency -> {"none", "pending", "ready", "unavailable"}]]
  /\ claimed \in [Replica -> BOOLEAN]

\* A process that has called itself ready serves the catalog at once: the
\* collection has its schema and all its indexes, whoever created them, and no
\* request of that process has to create them or wait for the lock.  The answer
\* stays true for as long as the process runs.
ReadinessIsTruthful ==
  \A r \in Replica : claimed[r] => /\ Prepared
                                  /\ \A h \in Handler : Home[h] = r => pc[h] \notin Locking

\* Readiness adds nothing to what requests do to the catalog: whatever it starts
\* and cuts off is a course of CatalogAccess, so all that is shown there holds.
ImplementsAccess == Spec

\* No failure, conflict, cancellation or silent dependency keeps a request
\* waiting, neither one that is sent to Qdrant nor one that waits for the lock.
Waiting(h) == Busy(h) \/ Asked(h)

RequestsEnd == \A h \in Handler : Waiting(h) ~> ~Waiting(h)
=============================================================================
