---------------------------- MODULE EventStream ----------------------------
(***************************************************************************)
(* The live event stream of one run: the run's thread publishes to the     *)
(* queues that are registered when it looks, through callbacks it posts to *)
(* the server's event loop; the loop runs these callbacks in order, and in *)
(* between the GET /runs/{id}/stream handlers, which read the run's row,   *)
(* register a queue, greet the watcher and pass on what arrives until the  *)
(* watcher leaves, or lose it before that.  The thread and the loop        *)
(* interleave at every lock.                                               *)
(***************************************************************************)
EXTENDS Integers, FiniteSets, Sequences, SequencesExt

CONSTANTS
  Watcher,    \* stream requests, one each
  MaxEvents,  \* bound: events the run publishes before "done"
  Capacity    \* _QUEUE_MAX

ASSUME EventStreamAssumption == MaxEvents \in Nat /\ Capacity \in Nat \ {0}

VARIABLES
  named,        \* the event whose step is named "done", or 0 (never changes)
  finished,     \* whether the run's row is terminal
  published,    \* events for which the thread has copied the registry
  targets,      \* publish_from_thread: copied queues not yet posted to
  thread,       \* "working", "closed" (the registry was popped)
  subscribers,  \* EventStream._subscribers[run_id]
  ready,        \* the loop's callbacks, oldest first: <<queue, event>>
  queue,        \* each request's asyncio.Queue
  dropped,      \* events that met a full queue
  wpc,          \* where each request stands
  row,          \* "finished" as each request has read it
  since,        \* published, when its queue was registered
  sent          \* events each request has passed on, in order

loop == <<ready, queue, dropped>>
watch == <<wpc, row, since, sent>>
vars == <<named, finished, published, targets, thread, subscribers, loop, watch>>

Done == MaxEvents + 1   \* the event close_run publishes
Event == 1..Done

Init ==
  /\ named \in 0..MaxEvents
  /\ finished = FALSE /\ published = 0 /\ targets = {} /\ thread = "working"
  /\ subscribers = {}
  /\ ready = <<>>
  /\ queue = [w \in Watcher |-> <<>>]
  /\ dropped = [w \in Watcher |-> {}]
  /\ wpc = [w \in Watcher |-> "away"]
  /\ row = [w \in Watcher |-> FALSE]
  /\ since = [w \in Watcher |-> 0]
  /\ sent = [w \in Watcher |-> <<>>]

-----------------------------------------------------------------------------
(* The run's thread                                                         *)

\* _finalize_run and the except branch write the row before the last events; a
\* DELETE may have done so earlier.
FinishRow ==
  /\ thread = "working" /\ ~finished /\ targets = {} /\ published < Done
  /\ finished' = TRUE
  /\ UNCHANGED <<named, published, targets, thread, subscribers, loop, watch>>

\* publish_from_thread, under the lock: the registered queues are copied.  The
\* "done" of close_run comes last, with the row written or its UPDATE failed.
Publish ==
  /\ thread = "working" /\ targets = {} /\ published < Done
  /\ published' = published + 1
  /\ targets' = subscribers
  /\ UNCHANGED <<named, finished, thread, subscribers, loop, watch>>

\* call_soon_threadsafe, for one queue of the copy after the other.
Post(w) ==
  /\ w \in targets
  /\ targets' = targets \ {w}
  /\ ready' = Append(ready, <<w, published>>)
  /\ UNCHANGED <<named, finished, published, thread, subscribers, queue, dropped, watch>>

\* Mutant: the registry is popped before "done" is published.
PopRunEarly ==
  /\ thread = "working" /\ targets = {} /\ published = MaxEvents
  /\ thread' = "closed" /\ subscribers' = {} /\ published' = Done
  /\ UNCHANGED <<named, finished, targets, loop, watch>>

\* close_run, after its "done" has been posted.
PopRun ==
  /\ thread = "working" /\ targets = {} /\ published = Done
  /\ thread' = "closed" /\ subscribers' = {}
  /\ UNCHANGED <<named, finished, published, targets, loop, watch>>

-----------------------------------------------------------------------------
(* The event loop                                                           *)

\* Mutants: a queue without its limit; a full one loses its oldest event.
RunCallbackUnbounded ==
  /\ ready # <<>> /\ ready' = Tail(ready)
  /\ queue' = [queue EXCEPT ![Head(ready)[1]] = Append(@, Head(ready)[2])]
  /\ UNCHANGED <<named, finished, published, targets, thread, subscribers, dropped, watch>>
RunCallbackEvicts ==
  LET w == Head(ready)[1]
      q == queue[w]
  IN
  /\ ready # <<>> /\ ready' = Tail(ready)
  /\ queue' = [queue EXCEPT ![w] = Append(IF Len(q) < Capacity THEN q ELSE Tail(q), Head(ready)[2])]
  /\ UNCHANGED <<named, finished, published, targets, thread, subscribers, dropped, watch>>

\* _put_nowait_safe
RunCallback ==
  /\ ready # <<>> /\ ready' = Tail(ready)
  /\ LET w == Head(ready)[1]
         e == Head(ready)[2]
     IN \/ /\ Len(queue[w]) < Capacity
           /\ queue' = [queue EXCEPT ![w] = Append(@, e)] /\ UNCHANGED dropped
        \/ /\ Len(queue[w]) >= Capacity
           /\ dropped' = [dropped EXCEPT ![w] = @ \cup {e}] /\ UNCHANGED queue
  /\ UNCHANGED <<named, finished, published, targets, thread, subscribers, watch>>

-----------------------------------------------------------------------------
(* GET /runs/{id}/stream                                                    *)

ReadRow(w) ==
  /\ wpc[w] = "away" /\ wpc' = [wpc EXCEPT ![w] = "read"]
  /\ row' = [row EXCEPT ![w] = finished]
  /\ UNCHANGED <<named, finished, published, targets, thread, subscribers, loop, since, sent>>

Subscribe(w) ==
  /\ wpc[w] = "read" /\ wpc' = [wpc EXCEPT ![w] = "subscribed"]
  /\ subscribers' = subscribers \cup {w}
  /\ since' = [since EXCEPT ![w] = published]
  /\ UNCHANGED <<named, finished, published, targets, thread, loop, row, sent>>

\* Mutants: the handler's finally branch does not unsubscribe; a finished run
\* is waited for like any other.
UnsubscribeNot(w) == UNCHANGED subscribers

Unsubscribe(w) == subscribers' = subscribers \ {w}

\* "connected"; a run whose row was already finished is "done" at once.
Greet(w) ==
  /\ wpc[w] = "subscribed"
  /\ \/ ~row[w] /\ wpc' = [wpc EXCEPT ![w] = "watching"] /\ UNCHANGED subscribers
     \/ row[w] /\ wpc' = [wpc EXCEPT ![w] = "ended"] /\ Unsubscribe(w)
  /\ UNCHANGED <<named, finished, published, targets, thread, loop, row, since, sent>>

\* Mutant: the newest event is passed on first.
ReceiveNewest(w) ==
  /\ wpc[w] = "watching" /\ queue[w] # <<>>
  /\ sent' = [sent EXCEPT ![w] = Append(@, Last(queue[w]))]
  /\ queue' = [queue EXCEPT ![w] = Front(@)]
  /\ UNCHANGED <<named, finished, published, targets, thread, subscribers, ready, dropped, wpc, row, since>>

\* What arrives is passed on, and the loop is left on a text that contains
\* "done" in quotes (its test for errors never holds).  In "event: done" there
\* are none; the JSON of a step of that name has them.  (The heartbeats of an
\* empty queue change nothing.)
Receive(w) ==
  /\ wpc[w] = "watching" /\ queue[w] # <<>>
  /\ sent' = [sent EXCEPT ![w] = Append(@, Head(queue[w]))]
  /\ queue' = [queue EXCEPT ![w] = Tail(@)]
  /\ \/ Head(queue[w]) = named /\ wpc' = [wpc EXCEPT ![w] = "ended"] /\ Unsubscribe(w)
     \/ Head(queue[w]) # named /\ UNCHANGED <<wpc, subscribers>>
  /\ UNCHANGED <<named, finished, published, targets, thread, ready, dropped, row, since>>

\* The client is lost before the response asks its generator for anything: the
\* generator's body, with the finally that unsubscribes, never runs.
LoseClient(w) ==
  /\ wpc[w] = "subscribed" /\ wpc' = [wpc EXCEPT ![w] = "lost"]
  /\ UNCHANGED <<named, finished, published, targets, thread, subscribers, loop, row, since, sent>>

\* The client goes away.
Leave(w) ==
  /\ wpc[w] = "watching" /\ wpc' = [wpc EXCEPT ![w] = "left"]
  /\ Unsubscribe(w)
  /\ UNCHANGED <<named, finished, published, targets, thread, loop, row, since, sent>>

-----------------------------------------------------------------------------
ThreadStep == FinishRow \/ Publish \/ (\E w \in Watcher : Post(w)) \/ PopRun
Handle(w) == Subscribe(w) \/ Greet(w) \/ Receive(w)

\* The run is over and every watcher has been sent what there was.
Quiet ==
  /\ thread = "closed" /\ ready = <<>>
  /\ \A w \in Watcher : wpc[w] \in {"ended", "left", "lost"} \/ (wpc[w] = "watching" /\ queue[w] = <<>>)
  /\ UNCHANGED vars

Next ==
  \/ ThreadStep \/ RunCallback \/ Quiet
  \/ \E w \in Watcher : ReadRow(w) \/ Handle(w) \/ LoseClient(w) \/ Leave(w)

\* The run's thread and the loop run, and the loop is fair to its tasks.
\* Nobody promises to watch or to leave.
Fairness == WF_vars(ThreadStep) /\ WF_vars(RunCallback) /\ \A w \in Watcher : WF_vars(Handle(w))

Spec == Init /\ [][Next]_vars
FairSpec == Spec /\ Fairness
-----------------------------------------------------------------------------
(* Properties *)

TypeOK ==
  /\ named \in 0..MaxEvents /\ finished \in BOOLEAN /\ published \in 0..Done
  /\ targets \subseteq Watcher /\ subscribers \subseteq Watcher
  /\ thread \in {"working", "closed"}
  /\ ready \in Seq(Watcher \X Event)
  /\ queue \in [Watcher -> Seq(Event)] /\ \A w \in Watcher : Len(queue[w]) <= Capacity
  /\ dropped \in [Watcher -> SUBSET Event]
  /\ wpc \in [Watcher -> {"away", "read", "subscribed", "watching", "ended", "left", "lost"}]
  /\ row \in [Watcher -> BOOLEAN] /\ since \in [Watcher -> 0..Done]
  /\ sent \in [Watcher -> Seq(Event)]

\* Each event published since a watcher's queue was registered has been sent
\* to it, has met a full queue, or is on its way: in the thread's copy, among
\* the loop's callbacks or in the queue.  An event the thread was publishing
\* while the watcher registered is one it does not get.
NothingVanishes ==
  \A w \in Watcher : wpc[w] \in {"subscribed", "watching"} /\ since[w] < Done =>
    ToSet(sent[w]) \cup dropped[w] \cup ToSet(queue[w])
      \cup {e \in Event : <<w, e>> \in ToSet(ready)}
      \cup (IF w \in targets THEN {published} ELSE {})
    = (since[w] + 1)..published

\* A watcher sees events in the order they were published, each once.
SentInOrder ==
  \A w \in Watcher : \A i, j \in DOMAIN sent[w] : i < j => sent[w][i] < sent[w][j]

\* The queue of a request that is over is in the registry no more, whether its
\* client left, its run was finished or close_run popped the registry under it.
\* The exception is a request lost between its registration and the start of
\* its generator: its queue stays until close_run, for ever if it was
\* registered after the last event.
GoneIsForgotten ==
  \A w \in subscribers :
    \/ wpc[w] \in {"subscribed", "watching"}
    \/ wpc[w] = "lost" /\ (thread = "closed" => since[w] = Done)

\* A watcher that was registered before "done" was published is sent it,
\* unless it leaves or is lost, falls so far behind that its queue is full, or
\* is cut off by a step named "done".
EndIsSent ==
  \A w \in Watcher :
    (w \in subscribers /\ since[w] < Done)
      ~> (Done \in ToSet(sent[w]) \/ dropped[w] # {} \/ wpc[w] \in {"left", "lost", "ended"})

\* "Closes automatically when 'done' or 'error' event received."
StreamCloses ==
  \A w \in Watcher : (Done \in ToSet(sent[w])) ~> (wpc[w] \in {"ended", "left"})
=============================================================================
