---------------------- MODULE IdempotentRequestsProofs ----------------------
(***************************************************************************)
(* What IdempotentRequests keeps true for any number of keys, requests and *)
(* handlers, with or without restarts of the process.                      *)
(***************************************************************************)
EXTENDS IdempotentRequests, TLAPS

\* A successful answer, ready to be sent.
Answers(h) == pc[h] \in {"replayed", "succeeded"} /\ req[h].key # None

\* The initial store is empty and no request is under way.
LEMMA InitInvariant ==
  ASSUME Init
  PROVE  IInv
<1> USE IdempotencyAssumption
<1>1. TypeOK
  BY DEF Init, TypeOK, Record, Unbound, Origin, Unmade, Label, Request, Idle
<1>2. OneExecutionPerKey /\ AnswersAreFaithful
  BY DEF Init, OneExecutionPerKey, AnswersAreFaithful, Executing
<1>3. RecordsAreFaithful
  BY DEF Init, RecordsAreFaithful, Completed, Unbound
<1>4. \A h \in Handler : HoldsReservation(h) /\ MadeItself(h)
  BY DEF Init, HoldsReservation, MadeItself, Executing
<1> QED
  BY <1>1, <1>2, <1>3, <1>4 DEF IInv

\* What a request that executes under a key knows about the store: the key is
\* reserved, so no answer and no other execution depends on its record.
LEMMA ReservationIsPrivate ==
  ASSUME IInv, NEW h \in Handler, Executing(h), req[h].key # None
  PROVE  /\ req[h].key \in Key /\ req[h].body \in Body
         /\ records[req[h].key] = Reserved(req[h].body)
         /\ ~Completed(req[h].key)
         /\ \A k \in Handler \ {h} : (Executing(k) \/ Answers(k)) => req[k].key # req[h].key
<1> USE IdempotencyAssumption
<1>1. req[h] \in Request /\ HoldsReservation(h)
  BY DEF IInv, TypeOK
<1>2. /\ req[h].key \in Key /\ req[h].body \in Body
      /\ records[req[h].key] = Reserved(req[h].body)
  BY <1>1 DEF Request, HoldsReservation
<1>3. ~Completed(req[h].key)
  BY <1>2 DEF Completed, Reserved
<1>4. ASSUME NEW k \in Handler \ {h}, Executing(k)
      PROVE  req[k].key # req[h].key
  BY <1>4 DEF IInv, OneExecutionPerKey
<1>5. ASSUME NEW k \in Handler \ {h}, Answers(k)
      PROVE  req[k].key # req[h].key
  <2>1. /\ req[k].response \in Work
        /\ records[req[k].key] = [hash |-> req[k].body, response |-> req[k].response]
    BY <1>5 DEF IInv, AnswersAreFaithful, Answers
  <2>2. records[req[k].key].response \in Work
    BY <2>1
  <2> QED
    BY <2>2, <1>3 DEF Completed
<1> QED
  BY <1>2, <1>3, <1>4, <1>5

\* Every step preserves the invariant: a reservation has one owner, and only
\* its owner changes the record it stands for.
LEMMA NextInvariant ==
  ASSUME IInv, [Next]_vars
  PROVE  IInv'
<1> USE IdempotencyAssumption
<1>0. /\ records \in [Key -> Record] /\ work \in [Work -> Origin]
      /\ pc \in [Handler -> Label] /\ req \in [Handler -> Request]
      /\ OneExecutionPerKey /\ RecordsAreFaithful /\ AnswersAreFaithful
      /\ \A h \in Handler : HoldsReservation(h) /\ MadeItself(h)
  BY DEF IInv, TypeOK
<1>1. ASSUME NEW h \in Handler, NEW b \in Body, pc[h] = "idle",
             Accept(h, None, b, None), Goto(h, "execute"), UNCHANGED <<records, work>>
      PROVE  IInv'
  <2>1. /\ req' \in [Handler -> Request] /\ pc' \in [Handler -> Label]
        /\ req'[h] = [key |-> None, body |-> b, response |-> None] /\ pc'[h] = "execute"
        /\ \A k \in Handler \ {h} : req'[k] = req[k] /\ pc'[k] = pc[k]
    BY <1>0, <1>1 DEF Accept, Goto, Request, Label
  <2>2. TypeOK' /\ RecordsAreFaithful'
    BY <1>0, <1>1, <2>1 DEF TypeOK, RecordsAreFaithful, Completed
  <2>3. OneExecutionPerKey'
    BY <1>0, <2>1 DEF OneExecutionPerKey, Executing
  <2>4. AnswersAreFaithful'
    BY <1>0, <1>1, <2>1 DEF AnswersAreFaithful
  <2>5. \A k \in Handler : HoldsReservation(k)' /\ MadeItself(k)'
    BY <1>0, <1>1, <2>1 DEF HoldsReservation, MadeItself, Executing
  <2> QED
    BY <2>2, <2>3, <2>4, <2>5 DEF IInv
<1>2. ASSUME NEW h \in Handler, NEW k \in Key, NEW b \in Body, pc[h] = "idle",
             Reserve(h, k, b), UNCHANGED work
      PROVE  IInv'
  <2>1. /\ req' \in [Handler -> Request] /\ pc' \in [Handler -> Label]
        /\ req'[h] = [key |-> k, body |-> b, response |-> None] /\ pc'[h] = "execute"
        /\ \A x \in Handler \ {h} : req'[x] = req[x] /\ pc'[x] = pc[x]
        /\ records' \in [Key -> Record] /\ records'[k] = Reserved(b)
        /\ \A x \in Key \ {k} : records'[x] = records[x]
        /\ records[k].hash = None
    BY <1>0, <1>2 DEF Reserve, Accept, Goto, Request, Label, Record, Reserved
  \* The key was free: nothing executes under it and nothing answers from it.
  <2>2. ASSUME NEW x \in Handler, Executing(x) \/ Answers(x)
        PROVE  req[x].key # k
    <3>1. CASE Executing(x)
      <4>1. req[x].body \in Body
        BY <1>0, <3>1 DEF HoldsReservation
      <4>2. req[x].key # None => records[req[x].key] = Reserved(req[x].body)
        BY <1>0, <3>1 DEF HoldsReservation
      <4> QED
        BY <2>1, <4>1, <4>2 DEF Reserved
    <3>2. CASE Answers(x)
      <4>1. /\ req[x].response \in Work
            /\ records[req[x].key] = [hash |-> req[x].body, response |-> req[x].response]
        BY <1>0, <3>2 DEF AnswersAreFaithful, Answers
      <4>2. Completed(req[x].key)
        BY <4>1 DEF Completed
      <4> QED
        BY <1>0, <2>1, <4>2 DEF RecordsAreFaithful
    <3> QED
      BY <2>2, <3>1, <3>2
  <2>3. TypeOK'
    BY <1>0, <1>2, <2>1 DEF TypeOK
  <2>4. RecordsAreFaithful'
    BY <1>0, <1>2, <2>1 DEF RecordsAreFaithful, Completed, Reserved
  <2>5. OneExecutionPerKey'
    BY <1>0, <2>1, <2>2 DEF OneExecutionPerKey, Executing
  <2>6. AnswersAreFaithful'
    BY <1>0, <1>2, <2>1, <2>2 DEF AnswersAreFaithful, Answers, Request
  <2>7. \A x \in Handler : HoldsReservation(x)' /\ MadeItself(x)'
    BY <1>0, <1>2, <2>1, <2>2 DEF HoldsReservation, MadeItself, Executing, Request
  <2> QED
    BY <2>3, <2>4, <2>5, <2>6, <2>7 DEF IInv
<1>3. ASSUME NEW h \in Handler, NEW k \in Key, NEW b \in Body, pc[h] = "idle",
             NEW r \in Work \cup {None}, NEW label \in {"replayed", "conflict"},
             Accept(h, k, b, r), Goto(h, label), UNCHANGED <<records, work>>,
             label = "replayed" => r \in Work /\ records[k] = [hash |-> b, response |-> r]
      PROVE  IInv'
  <2>1. /\ req' \in [Handler -> Request] /\ pc' \in [Handler -> Label]
        /\ req'[h] = [key |-> k, body |-> b, response |-> r] /\ pc'[h] = label
        /\ \A x \in Handler \ {h} : req'[x] = req[x] /\ pc'[x] = pc[x]
    BY <1>0, <1>3 DEF Accept, Goto, Request, Label
  <2>2. TypeOK' /\ RecordsAreFaithful'
    BY <1>0, <1>3, <2>1 DEF TypeOK, RecordsAreFaithful, Completed
  <2>3. OneExecutionPerKey'
    BY <1>0, <1>3, <2>1 DEF OneExecutionPerKey, Executing
  <2>4. ASSUME label = "replayed"
        PROVE  work[r] = [key |-> k, body |-> b]
    <3>1. records[k].hash = b /\ records[k].response = r /\ r \in Work
      BY <1>3, <2>4
    <3> QED
      BY <1>0, <3>1 DEF RecordsAreFaithful, Completed
  <2>5. AnswersAreFaithful'
    BY <1>0, <1>3, <2>1, <2>4 DEF AnswersAreFaithful
  <2>6. \A x \in Handler : HoldsReservation(x)' /\ MadeItself(x)'
    BY <1>0, <1>3, <2>1 DEF HoldsReservation, MadeItself, Executing
  <2> QED
    BY <2>2, <2>3, <2>5, <2>6 DEF IInv
<1>4. ASSUME NEW h \in Handler, pc[h] = "idle", BeginKeyed(h)
      PROVE  IInv'
  <2>1. PICK k \in Key, b \in Body : Reserve(h, k, b) \/ Replay(h, k, b) \/ Conflict(h, k, b)
    BY <1>4 DEF BeginKeyed
  <2>2. CASE Reserve(h, k, b)
    BY <1>2, <1>4, <2>2 DEF BeginKeyed
  <2>3. CASE Replay(h, k, b)
    <3>1. /\ records[k].response \in Work
          /\ records[k] = [hash |-> b, response |-> records[k].response]
      BY <1>0, <2>3 DEF Replay, Record
    <3> QED
      BY <1>3, <1>4, <2>3, <3>1 DEF Replay, BeginKeyed
  <2>4. CASE Conflict(h, k, b)
    BY <1>3, <1>4, <2>4 DEF Conflict, BeginKeyed
  <2> QED
    BY <2>1, <2>2, <2>3, <2>4
\* Making something changes no work that anything refers to.
<1>5. ASSUME NEW h \in Handler, NEW w \in Work, Executing(h), Make(h, w)
      PROVE  /\ work' \in [Work -> Origin]
             /\ work'[w] = [key |-> req[h].key, body |-> req[h].body]
             /\ \A v \in Work : work[v].body \in Body => work'[v] = work[v]
  <2>1. req[h].key \in Key \cup {None} /\ req[h].body \in Body
    BY <1>0, <1>5 DEF Request, HoldsReservation
  <2>2. [key |-> req[h].key, body |-> req[h].body] \in Origin
    BY <2>1 DEF Origin
  <2>3. work[w].body \notin Body
    BY <1>5 DEF Make, Unmade
  <2> QED
    BY <1>0, <1>5, <2>2, <2>3 DEF Make
<1>6. ASSUME NEW h \in Handler, pc[h] = "execute", UNCHANGED records,
             req' \in [Handler -> Request], pc' \in [Handler -> Label],
             \A x \in Handler \ {h} : req'[x] = req[x] /\ pc'[x] = pc[x],
             work' \in [Work -> Origin],
             \A v \in Work : work[v].body \in Body => work'[v] = work[v],
             \/ pc'[h] = "idle"
             \/ pc'[h] = "succeeded" /\ req'[h].key = None
             \/ /\ pc'[h] \in {"complete", "abandon"}
                /\ req'[h].key = req[h].key /\ req'[h].body = req[h].body /\ req[h].key # None
                /\ pc'[h] = "complete" =>
                     /\ req'[h].response \in Work
                     /\ work'[req'[h].response] = [key |-> req[h].key, body |-> req[h].body]
      PROVE  IInv'
  <2>1. TypeOK'
    BY <1>0, <1>6 DEF TypeOK
  <2>2. RecordsAreFaithful'
    <3>1. ASSUME NEW k \in Key, Completed(k)
          PROVE  work'[records[k].response] = work[records[k].response]
      <4>1. records[k].response \in Work
        BY <1>0, <3>1 DEF Completed, Record
      <4>2. records[k].hash \in Body /\ work[records[k].response] = [key |-> k, body |-> records[k].hash]
        BY <1>0, <3>1 DEF RecordsAreFaithful
      <4>3. work[records[k].response].body \in Body
        BY <4>2
      <4> QED
        BY <1>6, <4>1, <4>3
    <3> QED
      BY <1>0, <1>6, <3>1 DEF RecordsAreFaithful, Completed
  <2>3. OneExecutionPerKey'
    BY <1>0, <1>6 DEF OneExecutionPerKey, Executing
  <2>4. ASSUME NEW x \in Handler \ {h}, pc[x] \in {"replayed", "succeeded", "complete"}, req[x].key # None
        PROVE  work'[req[x].response] = work[req[x].response]
    <3>0. /\ req[x].response \in Work
          /\ work[req[x].response] = [key |-> req[x].key, body |-> req[x].body]
      BY <1>0, <2>4 DEF AnswersAreFaithful, MadeItself
    <3>1. req[x].response \in Work /\ work[req[x].response].body = req[x].body
      BY <3>0
    <3>2. req[x].body \in Body
      <4>1. CASE pc[x] = "complete"
        BY <1>0, <4>1 DEF HoldsReservation, Executing
      <4>2. CASE pc[x] \in {"replayed", "succeeded"}
        <5>1. req[x].key \in Key /\ records[req[x].key] = [hash |-> req[x].body, response |-> req[x].response]
          BY <1>0, <2>4, <4>2 DEF AnswersAreFaithful, Request
        <5>2. Completed(req[x].key)
          BY <3>1, <5>1 DEF Completed
        <5> QED
          <6>1. records[req[x].key].hash \in Body
            BY <1>0, <5>1, <5>2 DEF RecordsAreFaithful
          <6> QED
            BY <5>1, <6>1
      <4> QED
        BY <2>4, <4>1, <4>2
    <3> QED
      BY <1>6, <3>1, <3>2
  <2>5. AnswersAreFaithful'
    BY <1>0, <1>6, <2>4 DEF AnswersAreFaithful
  <2>6. \A x \in Handler : HoldsReservation(x)' /\ MadeItself(x)'
    BY <1>0, <1>6, <2>4 DEF HoldsReservation, MadeItself, Executing
  <2> QED
    BY <2>1, <2>2, <2>3, <2>5, <2>6 DEF IInv
<1>7. ASSUME NEW h \in Handler, Execute(h)
      PROVE  IInv'
  <2>1. Executing(h) /\ pc[h] = "execute" /\ UNCHANGED records /\ req[h] \in Request
    BY <1>0, <1>7 DEF Execute, Executing
  <2>2. CASE Succeed(h)
    <3>1. PICK w \in Work : Make(h, w) /\ req' = [req EXCEPT ![h].response = w]
      BY <2>2 DEF Succeed
    <3>2. /\ req' \in [Handler -> Request]
          /\ req'[h] = [key |-> req[h].key, body |-> req[h].body, response |-> w]
          /\ \A x \in Handler \ {h} : req'[x] = req[x]
      BY <1>0, <2>1, <3>1 DEF Request
    <3>3. /\ pc' \in [Handler -> Label]
          /\ pc'[h] = (IF req[h].key = None THEN "succeeded" ELSE "complete")
          /\ \A x \in Handler \ {h} : pc'[x] = pc[x]
      BY <1>0, <2>2 DEF Succeed, Goto, Label
    <3>4. /\ work' \in [Work -> Origin]
          /\ work'[w] = [key |-> req[h].key, body |-> req[h].body]
          /\ \A v \in Work : work[v].body \in Body => work'[v] = work[v]
      BY <1>5, <2>1, <3>1
    <3>5. req'[h].key = req[h].key /\ req'[h].body = req[h].body /\ req'[h].response = w
      BY <3>2
    <3>6. CASE req[h].key = None
      BY <1>6, <2>1, <3>2, <3>3, <3>4, <3>5, <3>6
    <3>7. CASE req[h].key # None
      BY <1>6, <2>1, <3>2, <3>3, <3>4, <3>5, <3>7
    <3> QED
      BY <3>6, <3>7
  <2>3. CASE Fail(h)
    <3>1. /\ work' \in [Work -> Origin]
          /\ \A v \in Work : work[v].body \in Body => work'[v] = work[v]
      BY <1>0, <1>5, <2>1, <2>3 DEF Fail
    <3>2. CASE req[h].key = None
      <4>1. /\ req' \in [Handler -> Request] /\ pc' \in [Handler -> Label] /\ pc'[h] = "idle"
            /\ \A x \in Handler \ {h} : req'[x] = req[x] /\ pc'[x] = pc[x]
        BY <1>0, <2>3, <3>2 DEF Fail, Answer, Goto, Label, Idle, Request
      <4> QED
        BY <1>6, <2>1, <3>1, <4>1
    <3>3. CASE req[h].key # None
      <4>1. /\ req' = req /\ pc' \in [Handler -> Label] /\ pc'[h] = "abandon"
            /\ \A x \in Handler \ {h} : pc'[x] = pc[x]
        BY <1>0, <2>3, <3>3 DEF Fail, Goto, Label
      <4> QED
        BY <1>0, <1>6, <2>1, <3>1, <3>3, <4>1
    <3> QED
      BY <3>2, <3>3
  <2> QED
    BY <1>7, <2>2, <2>3 DEF Execute
\* A handler that holds a reservation resolves it.
<1>8. ASSUME NEW h \in Handler, Complete(h)
      PROVE  IInv'
  <2>1. Executing(h) /\ req[h].key # None /\ req[h].response \in Work /\ req[h] \in Request
    BY <1>0, <1>8 DEF Complete, Executing, MadeItself
  <2>2. /\ req[h].key \in Key /\ req[h].body \in Body
        /\ records[req[h].key] = Reserved(req[h].body)
        /\ \A k \in Handler \ {h} : (Executing(k) \/ Answers(k)) => req[k].key # req[h].key
    BY <2>1, ReservationIsPrivate
  <2>3. /\ records' \in [Key -> Record]
        /\ records'[req[h].key] = [hash |-> req[h].body, response |-> req[h].response]
        /\ \A k \in Key \ {req[h].key} : records'[k] = records[k]
    BY <1>0, <1>8, <2>1, <2>2 DEF Complete, Record, Reserved
  <2>4. /\ work' = work /\ req' = req
        /\ pc' \in [Handler -> Label] /\ pc'[h] = "succeeded"
        /\ \A k \in Handler \ {h} : pc'[k] = pc[k]
    BY <1>0, <1>8 DEF Complete, Goto, Label
  <2>5. TypeOK'
    BY <1>0, <2>3, <2>4 DEF TypeOK
  <2>6. work[req[h].response] = [key |-> req[h].key, body |-> req[h].body]
    BY <1>0, <1>8 DEF Complete, MadeItself
  <2>7. RecordsAreFaithful'
    BY <1>0, <2>2, <2>3, <2>4, <2>6 DEF RecordsAreFaithful, Completed
  <2>8. OneExecutionPerKey'
    BY <1>0, <2>4 DEF OneExecutionPerKey, Executing
  <2>9. AnswersAreFaithful'
    BY <1>0, <2>1, <2>2, <2>3, <2>4, <2>6 DEF AnswersAreFaithful, Answers, Request
  <2>10. \A k \in Handler : HoldsReservation(k)' /\ MadeItself(k)'
    BY <1>0, <2>2, <2>3, <2>4 DEF HoldsReservation, MadeItself, Executing, Request
  <2> QED
    BY <2>5, <2>7, <2>8, <2>9, <2>10 DEF IInv
<1>9. ASSUME NEW h \in Handler, Abandon(h)
      PROVE  IInv'
  <2>1. Executing(h) /\ req[h].key # None /\ req[h] \in Request
    BY <1>0, <1>9 DEF Abandon, Executing, HoldsReservation
  <2>2. /\ req[h].key \in Key
        /\ \A k \in Handler \ {h} : (Executing(k) \/ Answers(k)) => req[k].key # req[h].key
    BY <2>1, ReservationIsPrivate
  <2>3. /\ records' \in [Key -> Record]
        /\ records'[req[h].key] = Unbound
        /\ \A k \in Key \ {req[h].key} : records'[k] = records[k]
    BY <1>0, <1>9, <2>2 DEF Abandon, Record, Unbound
  <2>4. /\ work' = work
        /\ req' \in [Handler -> Request] /\ pc' \in [Handler -> Label] /\ pc'[h] = "idle"
        /\ \A k \in Handler \ {h} : req'[k] = req[k] /\ pc'[k] = pc[k]
    BY <1>0, <1>9 DEF Abandon, Answer, Goto, Label, Idle, Request
  <2>5. TypeOK'
    BY <1>0, <2>3, <2>4 DEF TypeOK
  <2>6. RecordsAreFaithful'
    BY <1>0, <2>3, <2>4 DEF RecordsAreFaithful, Completed, Unbound
  <2>7. OneExecutionPerKey'
    BY <1>0, <2>4 DEF OneExecutionPerKey, Executing
  <2>8. AnswersAreFaithful'
    BY <1>0, <2>2, <2>3, <2>4 DEF AnswersAreFaithful, Answers, Request
  <2>9. \A k \in Handler : HoldsReservation(k)' /\ MadeItself(k)'
    BY <1>0, <2>2, <2>3, <2>4 DEF HoldsReservation, MadeItself, Executing, Request
  <2> QED
    BY <2>5, <2>6, <2>7, <2>8, <2>9 DEF IInv
<1>10. ASSUME NEW h \in Handler, Reply(h)
       PROVE  IInv'
  <2>1. /\ records' = records /\ work' = work
        /\ req' \in [Handler -> Request] /\ pc' \in [Handler -> Label] /\ pc'[h] = "idle"
        /\ \A k \in Handler \ {h} : req'[k] = req[k] /\ pc'[k] = pc[k]
    BY <1>0, <1>10 DEF Reply, Answer, Goto, Label, Idle, Request
  <2>2. TypeOK' /\ RecordsAreFaithful'
    BY <1>0, <2>1 DEF TypeOK, RecordsAreFaithful, Completed
  <2>3. OneExecutionPerKey' /\ AnswersAreFaithful'
    BY <1>0, <2>1 DEF OneExecutionPerKey, AnswersAreFaithful, Executing
  <2>4. \A k \in Handler : HoldsReservation(k)' /\ MadeItself(k)'
    BY <1>0, <2>1 DEF HoldsReservation, MadeItself, Executing
  <2> QED
    BY <2>2, <2>3, <2>4 DEF IInv
<1>11. CASE Restart
  <2>1. /\ records' = [k \in Key |-> Unbound] /\ work' = work
        /\ pc' = [h \in Handler |-> "idle"] /\ req' = [h \in Handler |-> Idle]
    BY <1>11 DEF Restart
  <2>2. TypeOK'
    BY <1>0, <2>1 DEF TypeOK, Record, Unbound, Label, Request, Idle
  <2>3. RecordsAreFaithful' /\ OneExecutionPerKey' /\ AnswersAreFaithful'
    BY <2>1 DEF RecordsAreFaithful, Completed, Unbound, OneExecutionPerKey, AnswersAreFaithful, Executing
  <2>4. \A h \in Handler : HoldsReservation(h)' /\ MadeItself(h)'
    BY <2>1 DEF HoldsReservation, MadeItself, Executing
  <2> QED
    BY <2>2, <2>3, <2>4 DEF IInv
<1>12. CASE UNCHANGED vars
  BY <1>0, <1>12 DEF vars, IInv, TypeOK, OneExecutionPerKey, RecordsAreFaithful, AnswersAreFaithful,
                     HoldsReservation, MadeItself, Executing, Completed
<1>13. ASSUME NEW h \in Handler, Begin(h)
       PROVE  IInv'
  BY <1>1, <1>4, <1>13 DEF Begin, BeginUnkeyed, BeginKeyed
<1>14. ASSUME NEW h \in Handler, Continue(h)
       PROVE  IInv'
  BY <1>7, <1>8, <1>9, <1>10, <1>14 DEF Continue
<1> QED
  BY <1>11, <1>12, <1>13, <1>14 DEF Next

\* The invariant of the whole module, for every number of keys and handlers.
THEOREM IdempotencyInvariant == Spec => []IInv
<1>1. Init => IInv
  BY InitInvariant
<1>2. IInv /\ [Next]_vars => IInv'
  BY NextInvariant
<1> QED
  BY <1>1, <1>2, PTL DEF Spec

\* Requests with the same key never execute concurrently: the reservation
\* _idempotent makes before it executes has one owner.
THEOREM OneExecution == Spec => []OneExecutionPerKey
<1>1. IInv => OneExecutionPerKey
  BY DEF IInv
<1> QED
  BY <1>1, IdempotencyInvariant, PTL

\* A success, fresh or replayed, is the outcome of that very request and is
\* what the store replays to the next one.
THEOREM FaithfulAnswers == Spec => []AnswersAreFaithful
<1>1. IInv => AnswersAreFaithful
  BY DEF IInv
<1> QED
  BY <1>1, IdempotencyInvariant, PTL

\* A recorded success is never changed, short of a restart.
THEOREM RecordedSuccess == Spec => SuccessIsFinal
<1>1. ASSUME IInv, [Next]_vars, NEW k \in Key, Completed(k), records'[k] # records[k]
      PROVE  \A x \in Key : records'[x] = Unbound
  <2> USE IdempotencyAssumption
  <2>1. records \in [Key -> Record] /\ RecordsAreFaithful
    BY <1>1 DEF IInv, TypeOK
  <2>2. records[k].hash # None
    BY <1>1, <2>1 DEF RecordsAreFaithful
  <2>3. ASSUME NEW h \in Handler, NEW x \in Key, NEW b \in Body, Reserve(h, x, b)
        PROVE  FALSE
    BY <1>1, <2>1, <2>2, <2>3 DEF Reserve
  <2>4. ASSUME NEW h \in Handler, Executing(h), req[h].key # None,
               \A x \in Key \ {req[h].key} : records'[x] = records[x]
        PROVE  FALSE
    BY <1>1, <2>4, ReservationIsPrivate
  <2>5. ASSUME NEW h \in Handler, Begin(h)
        PROVE  FALSE
    BY <1>1, <2>3, <2>5 DEF Begin, BeginUnkeyed, BeginKeyed, Replay, Conflict
  <2>6. ASSUME NEW h \in Handler, Complete(h)
        PROVE  FALSE
    <3>1. Executing(h) /\ req[h].key # None
      BY <1>1, <2>6 DEF IInv, MadeItself, Complete, Executing
    <3>2. \A x \in Key \ {req[h].key} : records'[x] = records[x]
      BY <2>1, <2>6 DEF Complete
    <3> QED
      BY <2>4, <3>1, <3>2
  <2>7. ASSUME NEW h \in Handler, Abandon(h)
        PROVE  FALSE
    <3>1. Executing(h) /\ req[h].key # None
      BY <1>1, <2>7 DEF IInv, HoldsReservation, Abandon, Executing
    <3>2. \A x \in Key \ {req[h].key} : records'[x] = records[x]
      BY <2>1, <2>7 DEF Abandon
    <3> QED
      BY <2>4, <3>1, <3>2
  <2>8. ASSUME NEW h \in Handler, Execute(h) \/ Reply(h)
        PROVE  FALSE
    BY <1>1, <2>8 DEF Execute, Reply
  <2>9. CASE Restart
    BY <2>9 DEF Restart
  <2>10. CASE UNCHANGED vars
    BY <1>1, <2>10 DEF vars
  <2> QED
    BY <1>1, <2>5, <2>6, <2>7, <2>8, <2>9, <2>10 DEF Next, Continue
<1>2. IInv /\ [Next]_vars =>
        [\A k \in Key : Completed(k) /\ records'[k] # records[k]
                         => \A x \in Key : records'[x] = Unbound]_vars
  BY <1>1
<1> QED
  BY <1>2, IdempotencyInvariant, PTL DEF Spec, SuccessIsFinal
=============================================================================
