--------------------------- MODULE WebServer_proofs ---------------------------
(***************************************************************************)
(* Proofs about WebServer, for any sets of requests and workers: no worker *)
(* sleeps beside a queued request, and Stop returns only when every        *)
(* request that was queued before it has been answered.                    *)
(***************************************************************************)
EXTENDS WebServer, FiniteSetTheorems, TLAPS

USE DEF threadVars, listenerVars, endVars, historyVars, Handled

\* What Append and Tail do to the requests of a queue.
LEMMA QueueElements ==
  ASSUME NEW S, NEW q \in Seq(S)
  PROVE  /\ \A e \in S : /\ Append(q, e) \in Seq(S)
                         /\ Append(q, e) # <<>>
                         /\ {Append(q, e)[i] : i \in DOMAIN Append(q, e)}
                              = {q[i] : i \in DOMAIN q} \union {e}
         /\ q # <<>> => /\ Head(q) \in S
                        /\ Tail(q) \in Seq(S)
                        /\ {q[i] : i \in DOMAIN q}
                             = {Tail(q)[i] : i \in DOMAIN Tail(q)} \union {Head(q)}
<1>1. ASSUME NEW e \in S
      PROVE  /\ Append(q, e) \in Seq(S)
             /\ Append(q, e) # <<>>
             /\ {Append(q, e)[i] : i \in DOMAIN Append(q, e)}
                  = {q[i] : i \in DOMAIN q} \union {e}
  <2> DEFINE a == Append(q, e)
  <2>0. Append(q, e) \in Seq(S) /\ Len(Append(q, e)) = Len(q) + 1
    OBVIOUS
  <2>1. a \in Seq(S) /\ a # <<>> /\ Len(a) = Len(q) + 1
    <3>1. Len(q) + 1 # 0 /\ Len(<<>>) = 0
      OBVIOUS
    <3> QED
      BY <2>0, <3>1
  <2>2. DOMAIN a = 1..(Len(q) + 1) /\ DOMAIN q = 1..Len(q) /\ Len(q) \in Nat
    BY <2>1
  <2>3. Append(q, e)[Len(q) + 1] = e
    OBVIOUS
  <2>4. \A i \in 1..Len(q) : Append(q, e)[i] = q[i]
    OBVIOUS
  <2>5. \A x \in {a[i] : i \in DOMAIN a} : x \in {q[i] : i \in DOMAIN q} \union {e}
    <3>1. \A i \in DOMAIN a : i = Len(q) + 1 \/ i \in DOMAIN q
      BY <2>2
    <3> QED
      BY <3>1, <2>2, <2>3, <2>4
  <2>6. \A x \in {q[i] : i \in DOMAIN q} \union {e} : x \in {a[i] : i \in DOMAIN a}
    <3>1. Len(q) + 1 \in DOMAIN a /\ \A i \in DOMAIN q : i \in DOMAIN a
      BY <2>2
    <3> QED
      BY <3>1, <2>2, <2>3, <2>4
  <2> QED
    BY <2>1, <2>5, <2>6
<1>2. ASSUME q # <<>>
      PROVE  /\ Head(q) \in S
             /\ Tail(q) \in Seq(S)
             /\ {q[i] : i \in DOMAIN q}
                  = {Tail(q)[i] : i \in DOMAIN Tail(q)} \union {Head(q)}
  <2> DEFINE t == Tail(q)
  <2>1. t \in Seq(S) /\ Len(t) = Len(q) - 1 /\ Len(q) \in Nat \ {0}
    BY <1>2
  <2>2. DOMAIN t = 1..(Len(q) - 1) /\ DOMAIN q = 1..Len(q)
    BY <2>1
  <2>3. q[1] = Head(q) /\ Head(q) \in S /\ \A i \in 1..(Len(q) - 1) : t[i] = q[i + 1]
    BY <1>2
  <2>4. \A i \in DOMAIN q : i = 1 \/ (i - 1 \in DOMAIN t /\ q[i] = t[i - 1])
    BY <2>1, <2>2, <2>3
  <2>5. \A i \in DOMAIN t : i + 1 \in DOMAIN q /\ t[i] = q[i + 1]
    BY <2>1, <2>2, <2>3
  <2>6. 1 \in DOMAIN q
    BY <2>1, <2>2
  <2>7. \A x \in {q[i] : i \in DOMAIN q} : x \in {t[i] : i \in DOMAIN t} \union {Head(q)}
    BY <2>3, <2>4
  <2>8. \A x \in {t[i] : i \in DOMAIN t} \union {Head(q)} : x \in {q[i] : i \in DOMAIN q}
    BY <2>3, <2>5, <2>6
  <2> QED
    BY <2>1, <2>3, <2>7, <2>8
<1> QED
  BY <1>1, <1>2
-----------------------------------------------------------------------------
(***************************************************************************)
(* Types.                                                                  *)
(***************************************************************************)
LEMMA TypeStep == TypeOK /\ [Next]_vars => TypeOK'
<1> SUFFICES ASSUME TypeOK, [Next]_vars PROVE TypeOK'
  OBVIOUS
<1> USE RequestAssumption DEF TypeOK
<1>1. CASE OwnerStep
  BY <1>1 DEF OwnerStep, Start, StartWorker, StopListener
<1>2. CASE Stop
  BY <1>2 DEF Stop
<1>3. CASE DisposeStep
  <2>1. Queued \subseteq Request /\ <<>> \in Seq(Request)
    BY DEF Queued
  <2> QED
    BY <1>3, <2>1 DEF DisposeStep, ClearQueue, DisposeReady
<1>4. CASE ListenerStep
  BY <1>4 DEF ListenerStep, BeginGetContext, ListenerWakes
<1>5. CASE ClientStep
  BY <1>5 DEF ClientStep, Connect, AcceptRequest
<1>6. CASE CallbackStep
  <2>1. \A r \in Request : Append(queue, r) \in Seq(Request)
    BY QueueElements
  <2> QED
    BY <1>6, <2>1 DEF CallbackStep, ContextReady, ContextFails, NothingEnqueued
<1>7. ASSUME NEW w \in Worker, WorkerStep(w) PROVE TypeOK'
  <2>1. CASE WorkerWakes(w)
    BY <2>1 DEF WorkerWakes, ManualReset
  <2>2. CASE WorkerStops(w)
    BY <2>2 DEF WorkerStops
  <2>3. CASE TakeRequest(w)
    <3>1. Head(queue) \in Request /\ Tail(queue) \in Seq(Request)
      BY <2>3, QueueElements DEF TakeRequest
    <3> QED
      BY <2>3, <3>1 DEF TakeRequest, Dequeued
  <2>4. CASE FindEmpty(w)
    BY <2>4 DEF FindEmpty, Reset
  <2>5. CASE ServeRequest(w)
    BY <2>5 DEF ServeRequest
  <2>6. CASE ServeFails(w)
    BY <2>6 DEF ServeFails
  <2> QED
    BY <1>7, <2>1, <2>2, <2>3, <2>4, <2>5, <2>6 DEF WorkerStep
<1>8. CASE UNCHANGED vars
  BY <1>8 DEF vars
<1> QED
  BY <1>1, <1>2, <1>3, <1>4, <1>5, <1>6, <1>7, <1>8 DEF Next, Quiescent

\* Every variable has its type in every reachable state.
THEOREM TypeCorrect == Spec => []TypeOK
<1>1. Init => TypeOK
  <2>1. <<>> \in Seq(Request)
    OBVIOUS
  <2> QED
    BY <2>1 DEF Init, TypeOK
<1> QED
  BY <1>1, TypeStep, PTL DEF Spec
-----------------------------------------------------------------------------
(***************************************************************************)
(* A queued request keeps "ready" set.                                     *)
(***************************************************************************)
LEMMA ReadyStep == TypeOK /\ ReadyWhileQueued /\ [Next]_vars => ReadyWhileQueued'
<1> SUFFICES ASSUME TypeOK, ReadyWhileQueued, [Next]_vars PROVE ReadyWhileQueued'
  OBVIOUS
<1> USE DEF ReadyWhileQueued
<1>1. CASE OwnerStep
  BY <1>1 DEF OwnerStep, Start, StartWorker, StopListener
<1>2. CASE Stop
  BY <1>2 DEF Stop
<1>3. CASE DisposeStep
  BY <1>3 DEF DisposeStep, ClearQueue, DisposeReady
<1>4. CASE ListenerStep
  BY <1>4 DEF ListenerStep, BeginGetContext, ListenerWakes
<1>5. CASE ClientStep
  BY <1>5 DEF ClientStep, Connect, AcceptRequest
<1>6. CASE CallbackStep
  <2>1. ASSUME NEW r \in Request, ContextReady(r) PROVE ReadyWhileQueued'
    <3>1. owner # "disposed" => ready' = TRUE
      BY <2>1 DEF ContextReady
    <3>2. owner' = owner
      BY <2>1 DEF ContextReady
    <3> QED
      BY <3>1, <3>2
  <2>2. ASSUME NEW r \in Request, ContextFails(r) PROVE ReadyWhileQueued'
    BY <2>2 DEF ContextFails, NothingEnqueued
  <2> QED
    BY <1>6, <2>1, <2>2 DEF CallbackStep
<1>7. ASSUME NEW w \in Worker, WorkerStep(w) PROVE ReadyWhileQueued'
  BY <1>7 DEF WorkerStep, WorkerWakes, ManualReset, WorkerStops, TakeRequest, FindEmpty,
              ServeRequest, ServeFails
<1>8. CASE UNCHANGED vars
  BY <1>8 DEF vars
<1> QED
  BY <1>1, <1>2, <1>3, <1>4, <1>5, <1>6, <1>7, <1>8 DEF Next, Quiescent

\* ContextReady and Worker never leave a request in the queue with "ready" reset.
THEOREM ReadyCorrect == Spec => []ReadyWhileQueued
<1>1. Init => ReadyWhileQueued
  BY DEF Init, ReadyWhileQueued
<1> QED
  BY <1>1, ReadyStep, TypeCorrect, PTL DEF Spec
-----------------------------------------------------------------------------
(***************************************************************************)
(* Stop drains the queue.                                                  *)
(***************************************************************************)
LEMMA DrainStep ==
  TypeOK /\ ReadyWhileQueued /\ DrainInv /\ [Next]_vars => DrainInv'
<1> SUFFICES ASSUME TypeOK, ReadyWhileQueued, DrainInv, [Next]_vars PROVE DrainInv'
  OBVIOUS
<1> USE RequestAssumption DEF DrainInv
<1>1. CASE OwnerStep
  BY <1>1, WorkerAssumption
  DEF OwnerStep, Start, StartWorker, StopListener, AllJoined, TypeOK, Queued
<1>2. CASE Stop
  BY <1>2 DEF Stop, Queued
<1>3. CASE DisposeStep
  <2>1. CASE ClearQueue
    <3>1. Queued' = {}
      BY <2>1 DEF ClearQueue, Queued
    <3>2. early \intersect Queued = {}
      BY <2>1, WorkerAssumption DEF ClearQueue
    <3> QED
      BY <2>1, <3>1, <3>2 DEF ClearQueue
  <2>2. CASE DisposeReady
    BY <2>2 DEF DisposeReady, Queued
  <2> QED
    BY <1>3, <2>1, <2>2 DEF DisposeStep
<1>4. CASE ListenerStep
  BY <1>4 DEF ListenerStep, BeginGetContext, ListenerWakes, Queued
<1>5. CASE ClientStep
  BY <1>5 DEF ClientStep, Connect, AcceptRequest, Queued
<1>6. CASE CallbackStep
  <2>1. ASSUME NEW r \in Request, ContextReady(r) PROVE DrainInv'
    <3>1. Queued' = Queued \union {r}
      BY <2>1, QueueElements DEF ContextReady, Queued, TypeOK
    <3>2. r \notin early /\ r \notin backlog
      BY <2>1 DEF ContextReady
    <3> QED
      BY <2>1, <3>1, <3>2 DEF ContextReady
  <2>2. ASSUME NEW r \in Request, ContextFails(r) PROVE DrainInv'
    BY <2>2 DEF ContextFails, NothingEnqueued, Queued
  <2> QED
    BY <1>6, <2>1, <2>2 DEF CallbackStep
<1>7. ASSUME NEW w \in Worker, WorkerStep(w) PROVE DrainInv'
  <2>1. CASE WorkerWakes(w)
    BY <2>1 DEF WorkerWakes, Queued, TypeOK
  <2>2. CASE WorkerStops(w)
    <3>1. owner # "disposed"
      BY <2>2 DEF WorkerStops
    <3>2. Queued = {} /\ Queued' = {}
      BY <2>2, <3>1 DEF WorkerStops, ReadyFirst, ReadyWhileQueued, Queued
    <3> QED
      BY <2>2, <3>2 DEF WorkerStops, ReadyFirst, TypeOK
  <2>3. CASE TakeRequest(w)
    <3>1. Queued = Queued' \union {Head(queue)} /\ Head(queue) \in Request
      <4>1. queue \in Seq(Request) /\ queue # <<>> /\ queue' = Tail(queue)
        BY <2>3 DEF TakeRequest, Dequeued, TypeOK
      <4>2. /\ Head(queue) \in Request
            /\ {queue[i] : i \in DOMAIN queue}
                 = {Tail(queue)[i] : i \in DOMAIN Tail(queue)} \union {Head(queue)}
        BY <4>1, QueueElements
      <4>3. Queued' = {Tail(queue)[i] : i \in DOMAIN Tail(queue)}
        BY <4>1 DEF Queued
      <4> QED
        BY <4>2, <4>3 DEF Queued
    <3>2. serving'[w] = Head(queue) /\ \A v \in Worker \ {w} : serving'[v] = serving[v]
      BY <2>3 DEF TakeRequest, TypeOK
    <3>3. serving[w] = NoRequest
      BY <2>3 DEF TakeRequest, TypeOK
    <3>4. /\ early' = early /\ served' = served /\ failed' = failed
          /\ owner' = owner /\ stop' = stop
          /\ backlog' = backlog /\ callbacks' = callbacks /\ arrived' = arrived
      BY <2>3 DEF TakeRequest
    <3>5. \A v \in Worker : worker'[v] = "done" <=> worker[v] = "done"
      BY <2>3 DEF TakeRequest, TypeOK
    <3> QED
      BY <3>1, <3>2, <3>3, <3>4, <3>5 DEF TypeOK
  <2>4. CASE FindEmpty(w)
    BY <2>4 DEF FindEmpty, Queued, TypeOK
  <2>5. CASE ServeRequest(w)
    <3>1. served' = served \union {serving[w]}
      BY <2>5 DEF ServeRequest
    <3>2. \A v \in Worker \ {w} : serving'[v] = serving[v]
      BY <2>5 DEF ServeRequest, TypeOK
    <3>3. \A v \in Worker : worker'[v] = "done" <=> worker[v] = "done"
      BY <2>5 DEF ServeRequest, TypeOK
    <3>4. /\ early' = early /\ failed' = failed /\ Queued' = Queued /\ owner' = owner /\ stop' = stop
          /\ backlog' = backlog /\ callbacks' = callbacks /\ arrived' = arrived
      BY <2>5 DEF ServeRequest, Queued
    <3> QED
      BY <3>1, <3>2, <3>3, <3>4
  <2>6. CASE ServeFails(w)
    <3>1. failed' = failed \union {serving[w]}
      BY <2>6 DEF ServeFails
    <3>2. \A v \in Worker \ {w} : serving'[v] = serving[v]
      BY <2>6 DEF ServeFails, TypeOK
    <3>3. \A v \in Worker : worker'[v] = "done" <=> worker[v] = "done"
      BY <2>6 DEF ServeFails, TypeOK
    <3>4. /\ early' = early /\ served' = served /\ Queued' = Queued /\ owner' = owner /\ stop' = stop
          /\ backlog' = backlog /\ callbacks' = callbacks /\ arrived' = arrived
      BY <2>6 DEF ServeFails, Queued
    <3> QED
      BY <3>1, <3>2, <3>3, <3>4
  <2> QED
    BY <1>7, <2>1, <2>2, <2>3, <2>4, <2>5, <2>6 DEF WorkerStep
<1>8. CASE UNCHANGED vars
  BY <1>8 DEF vars, Queued
<1> QED
  BY <1>1, <1>2, <1>3, <1>4, <1>5, <1>6, <1>7, <1>8 DEF Next, Quiescent

\* A request queued before Stop is in the queue, served or being served, and not
\* in the queue any more once a worker has ended.
THEOREM DrainCorrect == Spec => []DrainInv
<1>1. Init => DrainInv
  BY DEF Init, DrainInv, Queued
<1> QED
  BY <1>1, DrainStep, TypeCorrect, ReadyCorrect, PTL DEF Spec

\* When Stop returns, every request that was queued before it was called has
\* been answered, and no worker serves one.
THEOREM StopDrains == Spec => []DrainedAtStop
<1>1. TypeOK /\ DrainInv => DrainedAtStop
  <2> SUFFICES ASSUME TypeOK, DrainInv, owner \in {"stopped", "cleared", "disposed"}
               PROVE  early \subseteq Handled /\ \A w \in Worker : serving[w] = NoRequest
    BY DEF DrainedAtStop
  <2>1. \A w \in Worker : worker[w] = "done" /\ serving[w] = NoRequest
    BY DEF TypeOK, DrainInv
  <2>2. early \intersect Queued = {}
    BY <2>1, WorkerAssumption DEF DrainInv
  <2>3. NoRequest \notin early
    BY RequestAssumption DEF TypeOK
  <2> QED
    BY <2>1, <2>2, <2>3 DEF DrainInv
<1> QED
  BY <1>1, DrainCorrect, TypeCorrect, PTL
-----------------------------------------------------------------------------
(***************************************************************************)
(* A request is at one place.                                              *)
(***************************************************************************)
Distinct(q) == \A i, j \in DOMAIN q : q[i] = q[j] => i = j
Elsewhere == backlog \union callbacks \union served \union failed \union dropped

OnceInv ==
  /\ \A r \in Request : r \in arrived <=>
       r \in Queued \union Elsewhere \/ \E w \in Worker : serving[w] = r
  /\ Distinct(queue)
  /\ Queued \intersect Elsewhere = {}
  /\ \A w \in Worker : serving[w] \notin Queued \union Elsewhere
  /\ \A v, w \in Worker : serving[v] = serving[w] /\ serving[w] # NoRequest => v = w
  /\ backlog \intersect (callbacks \union served \union failed \union dropped) = {}
  /\ callbacks \intersect (served \union failed \union dropped) = {}
  /\ served \intersect (failed \union dropped) = {}
  /\ failed \intersect dropped = {}

\* A new element at the end, or the first one taken, leaves the rest distinct.
LEMMA DistinctQueue ==
  ASSUME NEW S, NEW q \in Seq(S), Distinct(q)
  PROVE  /\ \A e \in S : e \notin {q[i] : i \in DOMAIN q} => Distinct(Append(q, e))
         /\ q # <<>> => /\ Distinct(Tail(q))
                        /\ Head(q) \notin {Tail(q)[i] : i \in DOMAIN Tail(q)}
<1>1. ASSUME NEW e \in S, e \notin {q[i] : i \in DOMAIN q}
      PROVE  Distinct(Append(q, e))
  <2> DEFINE a == Append(q, e)
  <2>1. DOMAIN a = 1..(Len(q) + 1) /\ DOMAIN q = 1..Len(q) /\ Len(q) \in Nat
    <3>1. Append(q, e) \in Seq(S) /\ Len(Append(q, e)) = Len(q) + 1
      OBVIOUS
    <3> QED
      BY <3>1
  <2>2. Append(q, e)[Len(q) + 1] = e /\ \A i \in 1..Len(q) : Append(q, e)[i] = q[i]
    OBVIOUS
  <2>3. \A i \in DOMAIN a : i = Len(q) + 1 \/ i \in DOMAIN q
    BY <2>1
  <2>4. \A i \in DOMAIN q : a[i] = q[i] /\ q[i] # e
    BY <1>1, <2>1, <2>2
  <2> QED
    BY <2>2, <2>3, <2>4 DEF Distinct
<1>2. ASSUME q # <<>>
      PROVE  Distinct(Tail(q)) /\ Head(q) \notin {Tail(q)[i] : i \in DOMAIN Tail(q)}
  <2> DEFINE t == Tail(q)
  <2>1. t \in Seq(S) /\ Len(t) = Len(q) - 1 /\ Len(q) \in Nat \ {0}
    BY <1>2
  <2>2. DOMAIN t = 1..(Len(q) - 1) /\ DOMAIN q = 1..Len(q)
    BY <2>1
  <2>3. q[1] = Head(q) /\ \A i \in 1..(Len(q) - 1) : t[i] = q[i + 1]
    BY <1>2
  <2>4. \A i \in DOMAIN t : i + 1 \in DOMAIN q /\ i + 1 # 1 /\ t[i] = q[i + 1]
    BY <2>1, <2>2, <2>3
  <2>5. 1 \in DOMAIN q
    BY <2>1, <2>2
  <2>6. \A i, j \in DOMAIN t : i + 1 = j + 1 => i = j
    BY <2>2
  <2>7. Distinct(t)
    BY <2>4, <2>6 DEF Distinct
  <2>8. \A i \in DOMAIN t : t[i] # Head(q)
    BY <2>3, <2>4, <2>5 DEF Distinct
  <2> QED
    BY <2>7, <2>8
<1> QED
  BY <1>1, <1>2

\* Each step moves a request from one place to the next, or leaves it where it is.
LEMMA OnceStep == TypeOK /\ OnceInv /\ [Next]_vars => OnceInv'
<1> SUFFICES ASSUME TypeOK, OnceInv, [Next]_vars PROVE OnceInv'
  OBVIOUS
<1> USE RequestAssumption DEF OnceInv, Elsewhere
<1>1. CASE OwnerStep
  BY <1>1 DEF OwnerStep, Start, StartWorker, StopListener, Queued
<1>2. CASE Stop
  BY <1>2 DEF Stop, Queued
<1>3. CASE DisposeStep
  <2>1. CASE ClearQueue
    <3>1. Queued' = {} /\ Distinct(queue')
      BY <2>1 DEF ClearQueue, Queued, Distinct
    <3>2. /\ dropped' = dropped \union Queued
          /\ UNCHANGED <<backlog, callbacks, served, failed, serving, arrived>>
      BY <2>1 DEF ClearQueue
    <3> QED
      BY <3>1, <3>2
  <2>2. CASE DisposeReady
    BY <2>2 DEF DisposeReady, Queued
  <2> QED
    BY <1>3, <2>1, <2>2 DEF DisposeStep
<1>4. CASE ListenerStep
  BY <1>4 DEF ListenerStep, BeginGetContext, ListenerWakes, Queued
<1>5. CASE ClientStep
  BY <1>5 DEF ClientStep, Connect, AcceptRequest, Queued
<1>6. ASSUME NEW r \in Request, ContextReady(r) PROVE OnceInv'
  <2>1. r \notin Queued /\ queue \in Seq(Request) /\ queue' = Append(queue, r)
    BY <1>6 DEF ContextReady, TypeOK
  <2>2. Distinct(queue') /\ Queued' = Queued \union {r}
    BY <2>1, DistinctQueue, QueueElements DEF Queued
  <2>3. /\ callbacks' = callbacks \ {r} /\ r \in callbacks
        /\ UNCHANGED <<backlog, served, failed, dropped, serving, arrived>>
    BY <1>6 DEF ContextReady
  <2> QED
    BY <2>2, <2>3
<1>7. ASSUME NEW r \in Request, ContextFails(r) PROVE OnceInv'
  BY <1>7 DEF ContextFails, NothingEnqueued, Queued
<1>8. ASSUME NEW w \in Worker, TakeRequest(w) PROVE OnceInv'
  <2>1. queue \in Seq(Request) /\ queue # <<>> /\ queue' = Tail(queue)
    BY <1>8 DEF TakeRequest, Dequeued, TypeOK
  <2>2. /\ Head(queue) \in Request /\ Distinct(queue')
        /\ Queued = Queued' \union {Head(queue)} /\ Head(queue) \notin Queued'
    <3>1. Distinct(Tail(queue)) /\ Head(queue) \notin {Tail(queue)[i] : i \in DOMAIN Tail(queue)}
      BY <2>1, DistinctQueue
    <3>2. /\ Head(queue) \in Request
          /\ {queue[i] : i \in DOMAIN queue}
               = {Tail(queue)[i] : i \in DOMAIN Tail(queue)} \union {Head(queue)}
      BY <2>1, QueueElements
    <3>3. /\ Queued' = {Tail(queue)[i] : i \in DOMAIN Tail(queue)}
          /\ Distinct(queue') <=> Distinct(Tail(queue))
      BY <2>1 DEF Queued, Distinct
    <3> QED
      BY <3>1, <3>2, <3>3 DEF Queued
  <2>3. /\ serving'[w] = Head(queue) /\ \A v \in Worker \ {w} : serving'[v] = serving[v]
        /\ UNCHANGED <<backlog, callbacks, served, failed, dropped, arrived>>
    BY <1>8 DEF TakeRequest, TypeOK
  <2>4. serving[w] = NoRequest
    BY <1>8 DEF TakeRequest, TypeOK
  <2>5. \A r \in Request : r \in arrived' <=>
          r \in Queued' \union Elsewhere' \/ \E v \in Worker : serving'[v] = r
    BY <2>2, <2>3, <2>4
  <2> QED
    BY <2>2, <2>3, <2>5
<1>9. ASSUME NEW w \in Worker, ServeRequest(w) PROVE OnceInv'
  <2>1. /\ served' = served \union {serving[w]} /\ serving[w] # NoRequest
        /\ UNCHANGED <<queue, backlog, callbacks, failed, dropped, arrived>>
    BY <1>9 DEF ServeRequest, TypeOK
  <2>2. serving'[w] = NoRequest /\ \A v \in Worker \ {w} : serving'[v] = serving[v]
    BY <1>9 DEF ServeRequest, TypeOK
  <2>3. NoRequest \notin Queued \union Elsewhere
    BY QueueElements DEF TypeOK, Queued
  <2>4. Queued' = Queued /\ NoRequest \notin Queued' \union Elsewhere'
    BY <2>1, <2>3, RequestAssumption DEF Queued, TypeOK
  <2> QED
    BY <2>1, <2>2, <2>4
<1>12. ASSUME NEW w \in Worker, ServeFails(w) PROVE OnceInv'
  <2>1. /\ failed' = failed \union {serving[w]} /\ serving[w] # NoRequest
        /\ UNCHANGED <<queue, backlog, callbacks, served, dropped, arrived>>
    BY <1>12 DEF ServeFails, TypeOK
  <2>2. serving'[w] = NoRequest /\ \A v \in Worker \ {w} : serving'[v] = serving[v]
    BY <1>12 DEF ServeFails, TypeOK
  <2>3. NoRequest \notin Queued \union Elsewhere
    BY QueueElements DEF TypeOK, Queued
  <2>4. Queued' = Queued /\ NoRequest \notin Queued' \union Elsewhere'
    BY <2>1, <2>3, RequestAssumption DEF Queued, TypeOK
  <2> QED
    BY <2>1, <2>2, <2>4
<1>10. ASSUME NEW w \in Worker, WorkerWakes(w) \/ WorkerStops(w) \/ FindEmpty(w)
       PROVE  OnceInv'
  BY <1>10 DEF WorkerWakes, WorkerStops, FindEmpty, Queued
<1>11. CASE UNCHANGED vars
  BY <1>11 DEF vars, Queued
<1> QED
  BY <1>1, <1>2, <1>3, <1>4, <1>5, <1>6, <1>7, <1>8, <1>9, <1>10, <1>11,
     <1>12
     DEF Next, Quiescent, CallbackStep, WorkerStep

\* A set without two different elements has at most one.
LEMMA AtMostOne ==
  ASSUME NEW S, \A x, y \in S : x = y
  PROVE  Cardinality(S) \in {0, 1} /\ (S = {} <=> Cardinality(S) = 0)
<1>1. CASE S = {}
  BY <1>1, FS_EmptySet
<1>2. CASE S # {}
  <2>1. PICK x \in S : S = {x}
    BY <1>2
  <2>2. Cardinality(S) = 1
    BY <2>1, FS_Singleton
  <2> QED
    BY <1>2, <2>2
<1> QED
  BY <1>1, <1>2

\* From the moment it arrives a request is at exactly one place: none is served
\* twice or lost on the way (ContextReady, Worker).
THEOREM OncePlaced == Spec => []ServedOnce
<1>1. Init => OnceInv
  <2> SUFFICES ASSUME Init PROVE OnceInv
    OBVIOUS
  <2>1. Distinct(queue) /\ Queued = {}
    BY DEF Init, Distinct, Queued
  <2> QED
    BY <2>1, RequestAssumption DEF Init, OnceInv, Elsewhere
<1>2. TypeOK /\ OnceInv => ServedOnce
  <2> SUFFICES ASSUME TypeOK, OnceInv, NEW r \in Request
               PROVE  PlacesOf(r) = IF r \in arrived THEN 1 ELSE 0
    BY DEF ServedOnce
  <2> DEFINE A == {i \in DOMAIN queue : queue[i] = r}
             B == {w \in Worker : serving[w] = r}
             C == {i \in 1..5 : r \in <<backlog, callbacks, served, failed, dropped>>[i]}
  <2>1. \A x, y \in A : x = y
    BY DEF OnceInv, Distinct
  <2>2. \A x, y \in B : x = y
    BY RequestAssumption DEF OnceInv
  <2>3. \A x, y \in C : x = y
    BY DEF OnceInv
  <2>4. /\ A # {} <=> r \in Queued
        /\ B # {} <=> \E w \in Worker : serving[w] = r
    BY DEF Queued
  <2>5. C # {} <=> r \in Elsewhere
    <3>1. ASSUME r \in Elsewhere PROVE C # {}
      <4>1. \/ 1 \in C \/ 2 \in C \/ 3 \in C \/ 4 \in C \/ 5 \in C
        BY <3>1 DEF Elsewhere
      <4> QED
        BY <4>1
    <3>2. ASSUME NEW i \in C PROVE r \in Elsewhere
      BY DEF Elsewhere
    <3> QED
      BY <3>1, <3>2
  <2>6. /\ A # {} => B = {} /\ C = {}
        /\ B # {} => A = {} /\ C = {}
        /\ r \in arrived <=> A # {} \/ B # {} \/ C # {}
    BY <2>4, <2>5 DEF OnceInv
  <2>7. /\ Cardinality(A) \in {0, 1} /\ (A = {} <=> Cardinality(A) = 0)
        /\ Cardinality(B) \in {0, 1} /\ (B = {} <=> Cardinality(B) = 0)
        /\ Cardinality(C) \in {0, 1} /\ (C = {} <=> Cardinality(C) = 0)
    BY <2>1, <2>2, <2>3, AtMostOne, Zenon
  <2> HIDE DEF A, B, C
  <2>8. Cardinality(A) + Cardinality(B) + Cardinality(C) = IF r \in arrived THEN 1 ELSE 0
    BY <2>6, <2>7
  <2> QED
    BY <2>8 DEF A, B, C, PlacesOf
<1> QED
  BY <1>1, <1>2, OnceStep, TypeCorrect, PTL DEF Spec
=============================================================================
