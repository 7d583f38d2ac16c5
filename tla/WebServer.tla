------------------------------ MODULE WebServer ------------------------------
(***************************************************************************)
(* The web server's threads: FroggyAutomation/WebServer.cs.                *)
(*                                                                         *)
(* A listener thread keeps one BeginGetContext outstanding.  The HTTP      *)
(* listener (external) completes it when a request arrives, which signals  *)
(* its wait handle at once and has ContextReady called on a pool thread    *)
(* some time later.  Workers take the requests from the queue.  The owner  *)
(* calls Start, Stop and Dispose, in this order.                           *)
(***************************************************************************)
EXTENDS Naturals, Sequences, FiniteSets

CONSTANTS
  Request,    \* each client's request; one is sent at most once
  Worker,     \* the worker threads
  NoRequest   \* what a worker that serves nothing serves

ASSUME RequestAssumption == NoRequest \notin Request
ASSUME WorkerAssumption  == Worker # {}

VARIABLES
  owner,      \* where the thread is that starts and stops the server
  listener,   \* where the listener thread is
  worker,     \* where each worker is
  stop,       \* the event "stop"
  ready,      \* the event "ready"
  queue,
  listening,  \* listener.IsListening
  accepting,  \* a BeginGetContext is outstanding
  backlog,    \* requests that reached the HTTP listener
  callbacks,  \* requests whose ContextReady has yet to run
  serving,    \* the request each worker serves
  served,     \* requests whose response was closed
  failed,     \* requests whose worker threw, their response left open
  dropped,    \* requests that nobody will serve
  arrived,    \* history: requests that reached the HTTP listener
  early       \* history: requests queued before the event "stop" was set

threadVars   == <<owner, listener, worker>>
listenerVars == <<listening, accepting, backlog>>
endVars      == <<served, failed, dropped>>
historyVars  == <<arrived, early>>
vars == <<threadVars, stop, ready, queue, listenerVars, callbacks, serving,
          endVars, historyVars>>

Init ==
  /\ owner = "new"
  /\ listener = "off"
  /\ worker = [w \in Worker |-> "off"]
  /\ stop = FALSE
  /\ ready = FALSE
  /\ queue = <<>>
  /\ listening = FALSE
  /\ accepting = FALSE
  /\ backlog = {}
  /\ callbacks = {}
  /\ serving = [w \in Worker |-> NoRequest]
  /\ served = {}
  /\ failed = {}
  /\ dropped = {}
  /\ arrived = {}
  /\ early = {}

Queued == {queue[i] : i \in DOMAIN queue}
-----------------------------------------------------------------------------
(***************************************************************************)
(* The owner.                                                              *)
(***************************************************************************)
Start ==
  /\ owner = "new"
  /\ listening' = TRUE
  /\ listener' = "accept"
  /\ owner' = "starting"
  /\ UNCHANGED <<worker, stop, ready, queue, accepting, backlog, callbacks,
                 serving, endVars, historyVars>>

StartWorker(w) ==
  /\ owner = "starting"
  /\ worker[w] = "off"
  /\ worker' = [worker EXCEPT ![w] = "wait"]
  /\ owner' = IF \E v \in Worker \ {w} : worker[v] = "off" THEN "starting" ELSE "running"
  /\ UNCHANGED <<listener, stop, ready, queue, listenerVars, callbacks, serving,
                 endVars, historyVars>>

Stop ==
  /\ owner = "running"
  /\ stop' = TRUE
  /\ owner' = "joining"
  /\ UNCHANGED <<listener, worker, ready, queue, listenerVars, callbacks, serving,
                 endVars, historyVars>>

\* The threads Stop waits for before it stops the listener.
OnlyListenerJoined == listener = "done"  \* mutant: the workers are not joined
AllJoined == listener = "done" /\ \A w \in Worker : worker[w] = "done"

\* listener.Stop: the outstanding BeginGetContext ends with an exception, which
\* ContextReady swallows; clients that were not accepted are disconnected.
StopListener ==
  /\ owner = "joining"
  /\ AllJoined
  /\ listening' = FALSE
  /\ accepting' = FALSE
  /\ dropped' = dropped \union backlog
  /\ backlog' = {}
  /\ owner' = "stopped"
  /\ UNCHANGED <<listener, worker, stop, ready, queue, callbacks, serving, served,
                 failed, historyVars>>

\* Dispose, after Stop: the queue is cleared without its lock.
ClearQueue ==
  /\ owner = "stopped"
  /\ dropped' = dropped \union Queued
  /\ queue' = <<>>
  /\ owner' = "cleared"
  /\ UNCHANGED <<listener, worker, stop, ready, listenerVars, callbacks, serving,
                 served, failed, historyVars>>

DisposeReady ==
  /\ owner = "cleared"
  /\ owner' = "disposed"
  /\ UNCHANGED <<listener, worker, stop, ready, queue, listenerVars, callbacks,
                 serving, endVars, historyVars>>
-----------------------------------------------------------------------------
(***************************************************************************)
(* HandleRequests and the HTTP listener.                                   *)
(***************************************************************************)
BeginGetContext ==
  /\ listener = "accept"
  /\ listening
  /\ accepting' = TRUE
  /\ listener' = "wait"
  /\ UNCHANGED <<owner, worker, stop, ready, queue, listening, backlog, callbacks,
                 serving, endVars, historyVars>>

\* WaitAny prefers "stop"; the listener's own handle is set by AcceptRequest.
ListenerWakes ==
  /\ listener = "wait"
  /\ stop \/ ~accepting
  /\ listener' = IF stop THEN "done" ELSE "accept"
  /\ UNCHANGED <<owner, worker, stop, ready, queue, listenerVars, callbacks,
                 serving, endVars, historyVars>>

\* A client connects (external).
Connect(r) ==
  /\ listening
  /\ r \notin arrived
  /\ arrived' = arrived \union {r}
  /\ backlog' = backlog \union {r}
  /\ UNCHANGED <<threadVars, stop, ready, queue, listening, accepting, callbacks,
                 serving, endVars, early>>

\* The outstanding BeginGetContext completes (external).
AcceptRequest(r) ==
  /\ accepting
  /\ r \in backlog
  /\ backlog' = backlog \ {r}
  /\ callbacks' = callbacks \union {r}
  /\ accepting' = FALSE
  /\ UNCHANGED <<threadVars, stop, ready, queue, listening, serving, endVars,
                 historyVars>>

\* ContextReady.  Once "ready" is disposed Set throws, after the Enqueue.
ContextReady(r) ==
  /\ r \in callbacks
  /\ callbacks' = callbacks \ {r}
  /\ queue' = Append(queue, r)
  /\ ready' = IF owner = "disposed" THEN ready ELSE TRUE
  /\ early' = IF stop THEN early ELSE early \union {r}
  /\ UNCHANGED <<threadVars, stop, listenerVars, serving, endVars, arrived>>

\* The queue after an EndGetContext that threw.
NullEnqueued    == Append(queue, NoRequest)  \* mutant: null is enqueued
NothingEnqueued == queue

\* EndGetContext throws once the listener is stopped (external); the request is
\* dropped.
ContextFails(r) ==
  /\ r \in callbacks
  /\ ~listening
  /\ callbacks' = callbacks \ {r}
  /\ dropped' = dropped \union {r}
  /\ queue' = NothingEnqueued
  /\ UNCHANGED <<threadVars, stop, ready, listenerVars, serving, served, failed,
                 historyVars>>
-----------------------------------------------------------------------------
(***************************************************************************)
(* Worker.                                                                 *)
(***************************************************************************)
\* "ready" after a wait that it ended.
AutoReset   == FALSE  \* mutant: an AutoResetEvent
ManualReset == ready

\* WaitAny prefers "ready".
WorkerWakes(w) ==
  /\ worker[w] = "wait"
  /\ ready
  /\ ready' = ManualReset
  /\ worker' = [worker EXCEPT ![w] = "take"]
  /\ UNCHANGED <<owner, listener, stop, queue, listenerVars, callbacks, serving,
                 endVars, historyVars>>

\* When "stop" ends the wait.
StopFirst  == stop            \* mutant: wait = { stop, ready }
ReadyFirst == stop /\ ~ready

WorkerStops(w) ==
  /\ worker[w] = "wait"
  /\ ReadyFirst
  /\ worker' = [worker EXCEPT ![w] = "done"]
  /\ UNCHANGED <<owner, listener, stop, ready, queue, listenerVars, callbacks,
                 serving, endVars, historyVars>>

\* The queue after the worker has read its first request.
Peeked   == queue             \* mutant: Peek for Dequeue
Dequeued == Tail(queue)

TakeRequest(w) ==
  /\ worker[w] = "take"
  /\ queue # <<>>
  /\ serving' = [serving EXCEPT ![w] = Head(queue)]
  /\ queue' = Dequeued
  /\ worker' = [worker EXCEPT ![w] = "serve"]
  /\ UNCHANGED <<owner, listener, stop, ready, listenerVars, callbacks, endVars,
                 historyVars>>

\* "ready" once a worker found the queue empty.
NotReset == ready             \* mutant: without ready.Reset
Reset    == FALSE

FindEmpty(w) ==
  /\ worker[w] = "take"
  /\ queue = <<>>
  /\ ready' = Reset
  /\ worker' = [worker EXCEPT ![w] = "wait"]
  /\ UNCHANGED <<owner, listener, stop, queue, listenerVars, callbacks, serving,
                 endVars, historyVars>>

\* The file, a 404 or an exception in the inner block: the response is closed.
ServeRequest(w) ==
  /\ worker[w] = "serve"
  /\ served' = served \union {serving[w]}
  /\ serving' = [serving EXCEPT ![w] = NoRequest]
  /\ worker' = [worker EXCEPT ![w] = "wait"]
  /\ UNCHANGED <<owner, listener, stop, ready, queue, listenerVars, callbacks,
                 failed, dropped, historyVars>>

\* An exception that only the outer handler catches, before the inner block or in
\* the last Close: the response stays open, and the worker goes on.
ServeFails(w) ==
  /\ worker[w] = "serve"
  /\ failed' = failed \union {serving[w]}
  /\ serving' = [serving EXCEPT ![w] = NoRequest]
  /\ worker' = [worker EXCEPT ![w] = "wait"]
  /\ UNCHANGED <<owner, listener, stop, ready, queue, listenerVars, callbacks,
                 served, dropped, historyVars>>
-----------------------------------------------------------------------------
OwnerStep    == Start \/ (\E w \in Worker : StartWorker(w)) \/ StopListener
DisposeStep  == ClearQueue \/ DisposeReady
ListenerStep == BeginGetContext \/ ListenerWakes
ClientStep   == \E r \in Request : Connect(r) \/ AcceptRequest(r)
CallbackStep == \E r \in Request : ContextReady(r) \/ ContextFails(r)
WorkerStep(w) ==
  \/ WorkerWakes(w) \/ WorkerStops(w) \/ TakeRequest(w) \/ FindEmpty(w)
  \/ ServeRequest(w) \/ ServeFails(w)

\* The owner may leave the server running; a stopped one need not be disposed.
Quiescent ==
  /\ owner \in {"running", "stopped", "disposed"}
  /\ UNCHANGED vars

Next ==
  \/ OwnerStep
  \/ Stop
  \/ DisposeStep
  \/ ListenerStep
  \/ ClientStep
  \/ CallbackStep
  \/ \E w \in Worker : WorkerStep(w)
  \/ Quiescent

Spec == Init /\ [][Next]_vars

\* Threads and callbacks run.  Clients need not connect, nor the owner call Stop
\* or Dispose.
Fairness ==
  /\ WF_vars(OwnerStep)
  /\ WF_vars(ListenerStep)
  /\ WF_vars(CallbackStep)
  /\ \A w \in Worker : WF_vars(WorkerStep(w))

FairSpec == Spec /\ Fairness
-----------------------------------------------------------------------------
(***************************************************************************)
(* Correctness.                                                            *)
(***************************************************************************)
TypeOK ==
  /\ owner \in {"new", "starting", "running", "joining", "stopped", "cleared",
                "disposed"}
  /\ listener \in {"off", "accept", "wait", "done"}
  /\ worker \in [Worker -> {"off", "wait", "take", "serve", "done"}]
  /\ stop \in BOOLEAN
  /\ ready \in BOOLEAN
  /\ queue \in Seq(Request)
  /\ listening \in BOOLEAN
  /\ accepting \in BOOLEAN
  /\ backlog \subseteq Request
  /\ callbacks \subseteq Request
  /\ serving \in [Worker -> Request \union {NoRequest}]
  /\ \A w \in Worker : worker[w] = "serve" <=> serving[w] # NoRequest
  /\ served \subseteq Request
  /\ failed \subseteq Request
  /\ dropped \subseteq Request
  /\ arrived \subseteq Request
  /\ early \subseteq Request

\* ContextReady (128-132) and Worker (146-155): "ready" is never reset while a
\* request is queued, so that no worker sleeps beside a request, however
\* callbacks and workers interleave.
ReadyWhileQueued == queue # <<>> /\ owner # "disposed" => ready

\* Requests a worker is done with: their response was closed, or it threw.
Handled == served \union failed

\* Stop (94-104): a request that was queued before Stop was called has been
\* handled when Stop returns; no worker is left that serves one on a listener
\* that is stopped.
DrainedAtStop ==
  owner \in {"stopped", "cleared", "disposed"} =>
    /\ early \subseteq Handled
    /\ \A w \in Worker : serving[w] = NoRequest

\* How many places request r is at.
PlacesOf(r) ==
  Cardinality({i \in DOMAIN queue : queue[i] = r})
    + Cardinality({w \in Worker : serving[w] = r})
    + Cardinality({i \in 1..5 : r \in <<backlog, callbacks, served, failed, dropped>>[i]})

\* ContextReady (121-134) and Worker (140-207): from the moment it reaches the
\* HTTP listener a request is at exactly one place, with the listener, a
\* callback, the queue, a worker, or handled or dropped: none is served twice, and
\* none gets lost between two of them.
ServedOnce ==
  \A r \in Request : PlacesOf(r) = IF r \in arrived THEN 1 ELSE 0

\* Worker (140-207): a request that is queued while some worker has not ended,
\* Stop or not, is handled: answered, unless its worker throws.
QueuedServed ==
  \A r \in Request :
    (r \in Queued /\ \E w \in Worker : worker[w] \notin {"off", "done"})
      ~> r \in Handled

\* Stop returns: neither the listener thread nor a worker misses it.
StopReturns == owner = "joining" ~> owner \in {"stopped", "cleared", "disposed"}

\* Why DrainedAtStop holds: a queued request keeps "ready" set, so a worker ends
\* only after the last early request has left the queue, and no early request
\* comes back.
DrainInv ==
  /\ early \union backlog \union callbacks \subseteq arrived
  /\ early \intersect (backlog \union callbacks) = {}
  /\ backlog \intersect callbacks = {}
  /\ owner \in {"stopped", "cleared", "disposed"} => \A w \in Worker : worker[w] = "done"
  /\ \A r \in early : \/ r \in Queued \/ r \in Handled
                      \/ \E w \in Worker : serving[w] = r
  /\ (\E w \in Worker : worker[w] = "done") => stop /\ early \intersect Queued = {}
=============================================================================
