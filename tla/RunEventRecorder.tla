------------------------- MODULE RunEventRecorder -------------------------
(***************************************************************************)
(* The durable event log of runs: run threads hand their events to a       *)
(* bounded queue without ever waiting for SQLite, one worker thread writes *)
(* them to run_events, readers wait a while for the queue to drain before  *)
(* they list a run's events, and the server's shutdown closes the recorder *)
(* while the (daemon) run threads go on publishing.                        *)
(***************************************************************************)
EXTENDS Integers, SequencesExt

CONSTANTS
  Publisher,  \* run threads
  MaxEvents,  \* bound: events each of them publishes
  Capacity    \* max_queue_size

ASSUME RunEventRecorderAssumption ==
  /\ MaxEvents \in Nat
  /\ Capacity \in Nat \ {0}

VARIABLES
  closed,      \* _closed
  queue,       \* _queue: events and the stop marker
  unfinished,  \* _queue.unfinished_tasks
  hand,        \* what the worker took and has not yet marked as done
  worker,      \* "up" or "stopped"
  persisted,   \* run_events, in the order of their ids
  failures,    \* events whose INSERT raised (_persistence_failures counts them)
  dropped,     \* _dropped_events
  ppc,         \* publishers: "idle", or "checked" between record's two steps
  sent,        \* events each publisher has published so far
  accepted,    \* events record() answered True for
  cpc,         \* where close() stands
  promised,    \* events accepted before close() set _closed
  rpc,         \* where a GET /runs/{id}/events stands
  expected,    \* events accepted before that request came
  seen         \* events that request listed after a flush that succeeded

publish == <<ppc, sent, accepted, dropped>>
closing == <<closed, cpc, promised>>
reading == <<rpc, expected, seen>>
vars == <<queue, unfinished, hand, worker, persisted, failures, publish, closing, reading>>

Event == Publisher \X (1..MaxEvents)
Stop == <<"stop", 0>>
Nothing == <<"nothing", 0>>

\* Until the interpreter is gone.
Up == cpc # "exited"
Settled == ToSet(persisted) \cup failures

Init ==
  /\ closed = FALSE /\ cpc = "open" /\ promised = {}
  /\ queue = <<>> /\ unfinished = 0
  /\ hand = Nothing /\ worker = "up"
  /\ persisted = <<>> /\ failures = {}
  /\ ppc = [p \in Publisher |-> "idle"]
  /\ sent = [p \in Publisher |-> 0]
  /\ accepted = {} /\ dropped = 0
  /\ rpc = "idle" /\ expected = {} /\ seen = {}

-----------------------------------------------------------------------------
(* record(): the check of _closed and the put are two steps of the caller.  *)

CheckClosed(p) ==
  /\ Up /\ ppc[p] = "idle" /\ sent[p] < MaxEvents
  /\ \/ /\ closed
        /\ sent' = [sent EXCEPT ![p] = @ + 1] /\ UNCHANGED ppc
     \/ /\ ~closed
        /\ ppc' = [ppc EXCEPT ![p] = "checked"] /\ UNCHANGED sent
  /\ UNCHANGED <<queue, unfinished, hand, worker, persisted, failures, accepted, dropped,
                 closing, reading>>

\* Mutant: a full queue makes room by losing its oldest event.
PutNowaitEvicts(p) ==
  LET e == <<p, sent[p] + 1>> IN
  /\ Up /\ ppc[p] = "checked"
  /\ queue' = Append(IF Len(queue) < Capacity THEN queue ELSE Tail(queue), e)
  /\ unfinished' = (IF Len(queue) < Capacity THEN unfinished + 1 ELSE unfinished)
  /\ accepted' = accepted \cup {e}
  /\ ppc' = [ppc EXCEPT ![p] = "idle"]
  /\ sent' = [sent EXCEPT ![p] = @ + 1]
  /\ UNCHANGED <<hand, worker, persisted, failures, dropped, closing, reading>>

PutNowait(p) ==
  LET e == <<p, sent[p] + 1>> IN
  /\ Up /\ ppc[p] = "checked"
  /\ \/ /\ Len(queue) < Capacity
        /\ queue' = Append(queue, e) /\ unfinished' = unfinished + 1
        /\ accepted' = accepted \cup {e} /\ UNCHANGED dropped
     \/ /\ Len(queue) >= Capacity
        /\ dropped' = dropped + 1 /\ UNCHANGED <<queue, unfinished, accepted>>
  /\ ppc' = [ppc EXCEPT ![p] = "idle"]
  /\ sent' = [sent EXCEPT ![p] = @ + 1]
  /\ UNCHANGED <<hand, worker, persisted, failures, closing, reading>>

-----------------------------------------------------------------------------
(* _drain(): the worker                                                     *)

\* Mutants: the task is done as soon as it is taken; the newest event goes first.
TakeAndFinish ==
  /\ Up /\ worker = "up" /\ hand = Nothing /\ queue # <<>>
  /\ hand' = Head(queue) /\ queue' = Tail(queue) /\ unfinished' = unfinished - 1
  /\ UNCHANGED <<worker, persisted, failures, publish, closing, reading>>
TakeNewest ==
  /\ Up /\ worker = "up" /\ hand = Nothing /\ queue # <<>>
  /\ hand' = Last(queue) /\ queue' = Front(queue)
  /\ UNCHANGED <<unfinished, worker, persisted, failures, publish, closing, reading>>

Take ==
  /\ Up /\ worker = "up" /\ hand = Nothing /\ queue # <<>>
  /\ hand' = Head(queue) /\ queue' = Tail(queue)
  /\ UNCHANGED <<unfinished, worker, persisted, failures, publish, closing, reading>>

\* Mutant: an INSERT that raises ends the worker (no except around it).
PersistUnguarded ==
  /\ Up /\ worker = "up" /\ hand \in Event \ Settled
  /\ \/ persisted' = Append(persisted, hand) /\ UNCHANGED <<failures, worker>>
     \/ failures' = failures \cup {hand} /\ worker' = "stopped" /\ UNCHANGED persisted
  /\ UNCHANGED <<queue, unfinished, hand, publish, closing, reading>>

\* create_run_event: the INSERT, or an exception that is counted.  It works
\* even after the storage was closed, which only drops the connection: the
\* next statement opens it again.
Persist ==
  /\ Up /\ worker = "up" /\ hand \in Event \ Settled
  /\ \/ persisted' = Append(persisted, hand) /\ UNCHANGED failures
     \/ failures' = failures \cup {hand} /\ UNCHANGED persisted
  /\ UNCHANGED <<queue, unfinished, hand, worker, publish, closing, reading>>

\* task_done(), in the finally branch: of an event, or of the stop marker,
\* which ends the worker.
TaskDone ==
  /\ Up /\ worker = "up" /\ hand \in Settled \cup {Stop}
  /\ unfinished' = unfinished - 1
  /\ hand' = Nothing
  /\ worker' = IF hand = Stop THEN "stopped" ELSE worker
  /\ UNCHANGED <<queue, persisted, failures, publish, closing, reading>>

-----------------------------------------------------------------------------
(* close(), once, by the server's shutdown                                  *)

CloseBegins ==
  /\ cpc = "open" /\ cpc' = "flushing"
  /\ closed' = TRUE
  /\ promised' = accepted
  /\ UNCHANGED <<queue, unfinished, hand, worker, persisted, failures, publish, reading>>

\* The flush, which its timeout may end at any time.
CloseFlushes ==
  /\ cpc = "flushing" /\ cpc' = "marking"
  /\ UNCHANGED <<queue, unfinished, hand, worker, persisted, failures, publish, closed,
                 promised, reading>>

\* Mutant: the marker jumps the queue.
PutStopFirst ==
  /\ cpc = "marking" /\ cpc' = "joining"
  /\ queue' = <<Stop>> \o queue /\ unfinished' = unfinished + 1
  /\ UNCHANGED <<hand, worker, persisted, failures, publish, closed, promised, reading>>

\* The stop marker, if a place becomes free in time.
PutStop ==
  /\ cpc = "marking" /\ cpc' = "joining"
  /\ \/ /\ Len(queue) < Capacity
        /\ queue' = Append(queue, Stop) /\ unfinished' = unfinished + 1
     \/ Len(queue) >= Capacity /\ UNCHANGED <<queue, unfinished>>
  /\ UNCHANGED <<hand, worker, persisted, failures, publish, closed, promised, reading>>

\* Mutant: the join has no timeout.
CloseJoinsForever ==
  /\ cpc = "joining" /\ worker = "stopped" /\ cpc' = "closed"
  /\ UNCHANGED <<queue, unfinished, hand, worker, persisted, failures, publish, closed,
                 promised, reading>>

\* The join, which its timeout may end at any time.
CloseJoins ==
  /\ cpc = "joining" /\ cpc' = "closed"
  /\ UNCHANGED <<queue, unfinished, hand, worker, persisted, failures, publish, closed,
                 promised, reading>>

\* The process ends, and with it the daemon threads and requests.
Exit ==
  /\ cpc = "closed" /\ cpc' = "exited"
  /\ UNCHANGED <<queue, unfinished, hand, worker, persisted, failures, publish, closed,
                 promised, reading>>

-----------------------------------------------------------------------------
(* GET /runs/{id}/events: flush for at most half a second, then list        *)

ReadBegins ==
  /\ Up /\ rpc = "idle" /\ rpc' = "flushing"
  /\ expected' = accepted
  /\ UNCHANGED <<queue, unfinished, hand, worker, persisted, failures, publish, closing, seen>>

\* A flush that times out (at any time) promises nothing about the listing.
ReadFlushes ==
  /\ Up /\ rpc = "flushing"
  /\ \/ unfinished = 0 /\ rpc' = "drained" /\ UNCHANGED expected
     \/ rpc' = "stale" /\ expected' = {}
  /\ UNCHANGED <<queue, unfinished, hand, worker, persisted, failures, publish, closing, seen>>

ReadLists ==
  /\ Up
  /\ \/ rpc = "drained" /\ rpc' = "fresh" /\ seen' = ToSet(persisted)
     \/ rpc = "stale" /\ rpc' = "over" /\ UNCHANGED seen
  /\ UNCHANGED <<queue, unfinished, hand, worker, persisted, failures, publish, closing, expected>>

-----------------------------------------------------------------------------
Publish(p) == CheckClosed(p) \/ PutNowait(p)
Drain == Take \/ Persist \/ TaskDone
Close == CloseBegins \/ CloseFlushes \/ PutStop \/ CloseJoins \/ Exit
Read == ReadBegins \/ ReadFlushes \/ ReadLists

\* After the exit nothing happens any more.
Over == ~Up /\ UNCHANGED vars

Next == (\E p \in Publisher : Publish(p)) \/ Drain \/ Close \/ Read \/ Over

\* The worker and the handlers run; close() proceeds because each of its
\* waits has a timeout.  Nobody promises to publish or to shut down.
Fairness == WF_vars(Drain) /\ WF_vars(CloseFlushes \/ PutStop \/ CloseJoins)

Spec == Init /\ [][Next]_vars
FairSpec == Spec /\ Fairness
-----------------------------------------------------------------------------
(* Properties *)

InHand == IF hand = Nothing THEN 0 ELSE 1

TypeOK ==
  /\ closed \in BOOLEAN /\ worker \in {"up", "stopped"}
  /\ queue \in Seq(Event \cup {Stop}) /\ Len(queue) <= Capacity
  /\ hand \in Event \cup {Stop, Nothing}
  /\ unfinished = Len(queue) + InHand
  /\ persisted \in Seq(Event) /\ failures \subseteq Event
  /\ ppc \in [Publisher -> {"idle", "checked"}] /\ sent \in [Publisher -> 0..MaxEvents]
  /\ dropped \in Nat /\ accepted \subseteq Event
  /\ cpc \in {"open", "flushing", "marking", "joining", "closed", "exited"}
  /\ rpc \in {"idle", "flushing", "drained", "stale", "fresh", "over"}

\* An event record() said True for is written, counted as a failure, or still
\* on its way: it never vanishes from the queue, and never is two of these.
NoneVanishes ==
  LET onTheWay == (ToSet(queue) \cup {hand}) \ ({Stop, Nothing} \cup Settled) IN
  /\ accepted = Settled \cup onTheWay
  /\ Len(persisted) + Cardinality(failures) + Cardinality(onTheWay) = Cardinality(accepted)

\* The log lists the events of a run in the order its thread published them,
\* each once, whatever was dropped or failed in between.
LoggedInOrder ==
  \A i, j \in DOMAIN persisted :
    i < j /\ persisted[i][1] = persisted[j][1] => persisted[i][2] < persisted[j][2]

\* "so a completion/manual mutation refresh is not stale": a reader whose
\* flush succeeded lists every event that was accepted before it asked,
\* except those whose INSERT failed.
FlushedReadIsFresh == rpc = "fresh" => expected \ failures \subseteq seen

\* "the FIFO stop marker follows" what was accepted before close(): the worker
\* does not stop before each of those events is settled.
ClosingDrains == worker = "stopped" => promised \subseteq Settled

\* What a run's thread was told is accepted is settled in the end, unless the
\* server shuts down.
AcceptedSettles ==
  \A p \in Publisher :
    LET open == {e \in accepted : e[1] = p} \ Settled IN (open # {}) ~> (open = {} \/ closed)

\* close() returns: neither a full queue, a dead worker nor a flood of events
\* can hold up the server's shutdown.
CloseReturns == closed ~> cpc \in {"closed", "exited"}

\* "so the FIFO stop marker follows all accepted events": the worker does not
\* stop while an event it was handed is unsettled.
StopFollowsAccepted == worker = "stopped" => accepted \subseteq Settled
=============================================================================
