---------------------------- MODULE RunLifecycle ----------------------------
(***************************************************************************)
(* The life of an automated run of product_backend: the row of live_runs,  *)
(* the daemon thread RunManager._execute that drives it, the registry of   *)
(* threads and cancel flags, and the DELETE /runs/{id} handlers that race  *)
(* with it.  Each SQL statement is one step (ProductStorage serialises     *)
(* them under its lock and commits every one); everything between two      *)
(* statements may interleave with the other actors.  A storage write may   *)
(* fail, and the server process may die and come back: nothing in it looks *)
(* at the rows a previous process left behind.                             *)
(***************************************************************************)
EXTENDS Integers, FiniteSets

CONSTANTS
  Run,         \* ids of the runs that may be created
  Client,      \* concurrent DELETE requests
  MaxSteps,    \* bound: the longest step list handed to start_run
  MaxFaults,   \* bound: storage writes (or thread starts) that fail
  MaxCrashes   \* bound: deaths of the server process

ASSUME RunLifecycleAssumption ==
  /\ MaxSteps \in Nat
  /\ MaxFaults \in Nat
  /\ MaxCrashes \in Nat

VARIABLES
  status,    \* live_runs.status; "absent" before the INSERT
  saved,     \* step results in live_runs.step_results
  savedBad,  \* those of them whose status is a failing one
  plan,      \* number of steps handed to start_run
  pc,        \* where the run's starter, then its thread, stands
  idx,       \* _execute: steps executed so far
  failed,    \* _execute: the counter of failing steps
  verdict,   \* _execute: final_status, once decided
  flag,      \* RunManager._cancel_flags: "none", "clear" or "set"
  shown,     \* the last run-level event put on the run's event stream
  dpc,       \* where each DELETE request stands
  drun,      \* the run each DELETE request is about
  asked,     \* a DELETE of the run was answered 202 by this process
  faults,    \* operations that failed so far
  crashes    \* deaths of the process so far

thread  == <<idx, failed, verdict>>
request == <<dpc, drun, asked>>
budget  == <<faults, crashes>>
vars == <<status, saved, savedBad, plan, pc, thread, flag, shown, request, budget>>

Active   == {"pending", "running"}
Finished == {"completed", "failed", "cancelled"}

\* The classes of a step result that the code tells apart: passed; neither
\* counter (dry_run_only, cancelled, skipped); counted as failing but never
\* stopping the run (capability_gap, inconclusive); failed or error.
Outcome == {"passed", "neutral", "gap", "error"}
Failing == {"gap", "error"}

Starting  == {"created", "registered"}
Executing == {"begin", "loop", "step", "decide", "finalize", "publish",
              "raised", "report", "close", "cleanup"}
Gone      == {"done", "orphaned", "stillborn", "lost"}

\* An operation that fails costs one unit of the fault budget.
Works == UNCHANGED faults
Fails == faults < MaxFaults /\ faults' = faults + 1

Init ==
  /\ status = [r \in Run |-> "absent"]
  /\ saved = [r \in Run |-> 0]
  /\ savedBad = [r \in Run |-> 0]
  /\ plan = [r \in Run |-> 0]
  /\ pc = [r \in Run |-> "absent"]
  /\ idx = [r \in Run |-> 0]
  /\ failed = [r \in Run |-> 0]
  /\ verdict = [r \in Run |-> "none"]
  /\ flag = [r \in Run |-> "none"]
  /\ shown = [r \in Run |-> "none"]
  /\ dpc = [c \in Client |-> "idle"]
  /\ drun \in [Client -> Run]
  /\ asked = [r \in Run |-> FALSE]
  /\ faults = 0
  /\ crashes = 0

GoTo(r, from, to) == pc[r] = from /\ pc' = [pc EXCEPT ![r] = to]

-----------------------------------------------------------------------------
(* Starting a run: run_pack, schedule_run and retest_failed INSERT the row, *)
(* and only then hand the steps to RunManager.start_run.                    *)

CreateRun(r) ==
  /\ GoTo(r, "absent", "created")
  /\ status' = [status EXCEPT ![r] = "pending"]
  /\ \E n \in 0..MaxSteps : plan' = [plan EXCEPT ![r] = n]
  /\ UNCHANGED <<saved, savedBad, thread, flag, shown, request, budget>>

\* Reading the test cases between the INSERT and start_run raises: the
\* request fails and the row stays pending.
AbandonStart(r) ==
  /\ GoTo(r, "created", "orphaned")
  /\ Fails
  /\ UNCHANGED <<status, saved, savedBad, plan, thread, flag, shown, request, crashes>>

\* start_run under its lock: the thread and its cancel flag are registered.
\* The ids are fresh, so the "already running" error cannot arise here.
RegisterThread(r) ==
  /\ GoTo(r, "created", "registered")
  /\ flag' = [flag EXCEPT ![r] = "clear"]
  /\ UNCHANGED <<status, saved, savedBad, plan, thread, shown, request, budget>>

\* thread.start(), after the lock is released.  When the operating system
\* refuses the thread, the registered flag stays behind.
StartThread(r) ==
  /\ \/ GoTo(r, "registered", "begin") /\ Works
     \/ GoTo(r, "registered", "stillborn") /\ Fails
  /\ UNCHANGED <<status, saved, savedBad, plan, thread, flag, shown, request, crashes>>

-----------------------------------------------------------------------------
(* RunManager._execute, the body of the run's thread.                       *)

BeginExecution(r) ==
  /\ \/ /\ GoTo(r, "begin", "loop") /\ Works
        /\ status' = [status EXCEPT ![r] = "running"]
        /\ shown' = [shown EXCEPT ![r] = "running"]
     \/ GoTo(r, "begin", "raised") /\ Fails /\ UNCHANGED <<status, shown>>
  /\ UNCHANGED <<saved, savedBad, plan, thread, flag, request, crashes>>

\* The head of the loop: the cancel check of the next step, or the end.
NextStep(r) ==
  /\ \/ idx[r] = plan[r] /\ GoTo(r, "loop", "decide") /\ UNCHANGED verdict
     \/ /\ idx[r] < plan[r] /\ flag[r] = "set" /\ GoTo(r, "loop", "finalize")
        /\ verdict' = [verdict EXCEPT ![r] = "cancelled"]
     \/ /\ idx[r] < plan[r] /\ flag[r] = "clear" /\ GoTo(r, "loop", "step")
        /\ UNCHANGED verdict
  /\ UNCHANGED <<status, saved, savedBad, plan, idx, failed, flag, shown, request, budget>>

StopsRun(o, optional) == o = "error" /\ ~optional

\* One step: its result is counted, published and appended to the row (a
\* failing append is logged and forgotten), then the loop is left or not.
ExecuteStep(r) ==
  /\ \E o \in Outcome, optional \in BOOLEAN, kept \in BOOLEAN :
       /\ GoTo(r, "step", IF StopsRun(o, optional) \/ flag[r] = "set"
                          THEN "decide" ELSE "loop")
       /\ idx' = [idx EXCEPT ![r] = @ + 1]
       /\ failed' = IF o \in Failing THEN [failed EXCEPT ![r] = @ + 1] ELSE failed
       /\ \/ /\ kept /\ Works
             /\ saved' = [saved EXCEPT ![r] = @ + 1]
             /\ savedBad' = IF o \in Failing THEN [savedBad EXCEPT ![r] = @ + 1]
                                             ELSE savedBad
          \/ ~kept /\ Fails /\ UNCHANGED <<saved, savedBad>>
  /\ UNCHANGED <<status, plan, verdict, flag, shown, request, crashes>>

\* An exception out of a step: the browser or API engine cannot be made.
StepRaises(r) ==
  /\ GoTo(r, "step", "raised") /\ Fails
  /\ UNCHANGED <<status, saved, savedBad, plan, thread, flag, shown, request, crashes>>

\* Mutants: a run fails only when every step did; an empty run fails; a
\* failing step outranks the cancel flag.
FinalStatusAllFailed(r) ==
  IF flag[r] = "set" THEN "cancelled" ELSE IF failed[r] > plan[r] THEN "failed" ELSE "completed"
FinalStatusEmptyFails(r) ==
  IF flag[r] = "set" THEN "cancelled" ELSE IF saved[r] = failed[r] THEN "failed" ELSE "completed"
FinalStatusFailsFirst(r) ==
  IF failed[r] > 0 THEN "failed" ELSE IF flag[r] = "set" THEN "cancelled" ELSE "completed"

FinalStatus(r) ==
  IF flag[r] = "set" THEN "cancelled" ELSE IF failed[r] > 0 THEN "failed" ELSE "completed"

\* After the loop: the provenance UPDATE is not guarded, so its failure is an
\* exception of the run; otherwise the final status is computed.
DecideVerdict(r) ==
  /\ \/ /\ GoTo(r, "decide", "finalize") /\ Works
        /\ verdict' = [verdict EXCEPT ![r] = FinalStatus(r)]
     \/ GoTo(r, "decide", "raised") /\ Fails /\ UNCHANGED verdict
  /\ UNCHANGED <<status, saved, savedBad, plan, idx, failed, flag, shown, request, crashes>>

\* Mutant: a cancelled run's row is left to the DELETE request.
FinalizeRowUnlessCancelled(r) ==
  /\ GoTo(r, "finalize", "publish")
  /\ status' = IF verdict[r] = "cancelled" THEN status ELSE [status EXCEPT ![r] = verdict[r]]
  /\ UNCHANGED <<saved, savedBad, plan, thread, flag, shown, request, budget>>

\* _finalize_run: an unconditional UPDATE whose failure is swallowed ...
FinalizeRow(r) ==
  /\ GoTo(r, "finalize", "publish")
  /\ \/ status' = [status EXCEPT ![r] = verdict[r]] /\ Works
     \/ Fails /\ UNCHANGED status
  /\ UNCHANGED <<saved, savedBad, plan, thread, flag, shown, request, crashes>>

\* Mutant: the early return of a cancelled run is forgotten.
PublishFinalNoReturn(r) ==
  /\ GoTo(r, "publish", IF idx[r] < plan[r] THEN "decide" ELSE "close")
  /\ shown' = [shown EXCEPT ![r] = verdict[r]]
  /\ UNCHANGED <<status, saved, savedBad, plan, thread, flag, request, budget>>

\* ... and then the status event.
PublishFinal(r) ==
  /\ GoTo(r, "publish", "close")
  /\ shown' = [shown EXCEPT ![r] = verdict[r]]
  /\ UNCHANGED <<status, saved, savedBad, plan, thread, flag, request, budget>>

\* The except branch: the row is failed (if the UPDATE works) ...
FailRow(r) ==
  /\ GoTo(r, "raised", "report")
  /\ \/ status' = [status EXCEPT ![r] = "failed"] /\ Works
     \/ Fails /\ UNCHANGED status
  /\ UNCHANGED <<saved, savedBad, plan, thread, flag, shown, request, crashes>>

\* ... and run_failed is published.
PublishFailure(r) ==
  /\ GoTo(r, "report", "close")
  /\ shown' = [shown EXCEPT ![r] = "run_failed"]
  /\ UNCHANGED <<status, saved, savedBad, plan, thread, flag, request, budget>>

\* The finally branch: "done" ends the stream ...
CloseStream(r) ==
  /\ GoTo(r, "close", "cleanup")
  /\ UNCHANGED <<status, saved, savedBad, plan, thread, flag, shown, request, budget>>

\* ... and the registry forgets the run.
ForgetThread(r) ==
  /\ GoTo(r, "cleanup", "done")
  /\ flag' = [flag EXCEPT ![r] = "none"]
  /\ UNCHANGED <<status, saved, savedBad, plan, thread, shown, request, budget>>

ThreadStep(r) ==
  \/ BeginExecution(r) \/ NextStep(r) \/ ExecuteStep(r) \/ StepRaises(r)
  \/ DecideVerdict(r) \/ FinalizeRow(r) \/ PublishFinal(r)
  \/ FailRow(r) \/ PublishFailure(r) \/ CloseStream(r) \/ ForgetThread(r)

-----------------------------------------------------------------------------
(* DELETE /runs/{id}: read the row, signal the thread if it is registered,  *)
(* otherwise write the row.  Only an unfinished run gets past the read.     *)

DeleteReads(c, r) ==
  /\ dpc[c] = "idle"
  /\ status[r] \in Active
  /\ dpc' = [dpc EXCEPT ![c] = "read"]
  /\ drun' = [drun EXCEPT ![c] = r]
  /\ UNCHANGED <<status, saved, savedBad, plan, pc, thread, flag, shown, asked, budget>>

\* Mutant: an unknown run is answered as if it had been signalled.
DeleteSignalsOnly(c) ==
  LET r == drun[c] IN
  /\ dpc[c] = "read"
  /\ flag' = IF flag[r] # "none" THEN [flag EXCEPT ![r] = "set"] ELSE flag
  /\ asked' = [asked EXCEPT ![r] = TRUE]
  /\ dpc' = [dpc EXCEPT ![c] = "idle"]
  /\ UNCHANGED <<status, saved, savedBad, plan, pc, thread, shown, drun, budget>>

\* RunManager.cancel_run: True (and the 202) when a flag was there to set.
DeleteSignals(c) ==
  LET r == drun[c] IN
  /\ dpc[c] = "read"
  /\ \/ /\ flag[r] # "none"
        /\ flag' = [flag EXCEPT ![r] = "set"]
        /\ asked' = [asked EXCEPT ![r] = TRUE]
        /\ dpc' = [dpc EXCEPT ![c] = "idle"]
     \/ /\ flag[r] = "none"
        /\ dpc' = [dpc EXCEPT ![c] = "direct"]
        /\ UNCHANGED <<flag, asked>>
  /\ UNCHANGED <<status, saved, savedBad, plan, pc, thread, shown, drun, budget>>

\* Mutants: the UPDATE without its WHERE on the status, and with half of it.
CancelRowAlways(r) == status' = [status EXCEPT ![r] = "cancelled"]
CancelRowUnlessFailed(r) ==
  status' = IF status[r] = "failed" THEN status ELSE [status EXCEPT ![r] = "cancelled"]

\* ProductStorage.cancel_run: one conditional UPDATE.
CancelRow(r) ==
  status' = IF status[r] \in Active THEN [status EXCEPT ![r] = "cancelled"] ELSE status

DeleteWrites(c) ==
  LET r == drun[c] IN
  /\ dpc[c] = "direct"
  /\ dpc' = [dpc EXCEPT ![c] = "idle"]
  /\ \/ CancelRow(r) /\ asked' = [asked EXCEPT ![r] = TRUE] /\ Works
     \/ Fails /\ UNCHANGED <<status, asked>>
  /\ UNCHANGED <<saved, savedBad, plan, pc, thread, flag, shown, drun, crashes>>

-----------------------------------------------------------------------------
Unended == (Starting \cup Executing \cup {"stillborn"}) \ {"cleanup"}

\* The process dies and is started again.  Threads, flags, streams and
\* requests go with it; the rows stay exactly as they were, and no code
\* looks for the unfinished ones.
Restart ==
  /\ crashes < MaxCrashes
  /\ crashes' = crashes + 1
  /\ pc' = [r \in Run |-> CASE pc[r] = "cleanup" -> "done"
                            [] pc[r] \in Unended -> "lost"
                            [] OTHER -> pc[r]]
  /\ flag' = [r \in Run |-> "none"]
  /\ dpc' = [c \in Client |-> "idle"]
  /\ asked' = [r \in Run |-> FALSE]
  /\ UNCHANGED <<status, saved, savedBad, plan, thread, shown, drun, faults>>

StarterStep(r) == CreateRun(r) \/ AbandonStart(r) \/ RegisterThread(r) \/ StartThread(r)
DeleteStep(c) == (\E r \in Run : DeleteReads(c, r)) \/ DeleteSignals(c) \/ DeleteWrites(c)

\* Every created run has ended one way or another, nothing is in flight.
Quiet ==
  /\ \A r \in Run : pc[r] \in Gone
  /\ \A c \in Client : dpc[c] = "idle"
  /\ UNCHANGED vars

Next ==
  \/ \E r \in Run : StarterStep(r) \/ ThreadStep(r)
  \/ \E c \in Client : DeleteStep(c)
  \/ Restart
  \/ Quiet

\* The operating system runs every live thread and request handler, and each
\* step of a plan has a timeout.  Nobody promises to create a run, to DELETE
\* one, to fail or to crash.
Fairness ==
  /\ \A r \in Run : WF_vars(RegisterThread(r) \/ StartThread(r)) /\ WF_vars(ThreadStep(r))
  /\ \A c \in Client : WF_vars(DeleteSignals(c) \/ DeleteWrites(c))

Spec == Init /\ [][Next]_vars
FairSpec == Spec /\ Fairness
-----------------------------------------------------------------------------
(* Properties *)

TypeOK ==
  /\ status \in [Run -> {"absent"} \cup Active \cup Finished]
  /\ saved \in [Run -> 0..MaxSteps]
  /\ savedBad \in [Run -> 0..MaxSteps]
  /\ plan \in [Run -> 0..MaxSteps]
  /\ pc \in [Run -> {"absent"} \cup Starting \cup Executing \cup Gone]
  /\ idx \in [Run -> 0..MaxSteps]
  /\ failed \in [Run -> 0..MaxSteps]
  /\ verdict \in [Run -> {"none"} \cup Finished]
  /\ flag \in [Run -> {"none", "clear", "set"}]
  /\ shown \in [Run -> {"none", "running", "run_failed"} \cup Finished]
  /\ dpc \in [Client -> {"idle", "read", "direct"}]
  /\ drun \in [Client -> Run]
  /\ asked \in [Run -> BOOLEAN]
  /\ faults \in 0..MaxFaults
  /\ crashes \in 0..MaxCrashes

\* A row says "completed" only when every planned step was executed and not
\* one of them, persisted or not, had a failing result: whatever DELETEs,
\* failing writes and restarts came in between.
CompletedIsEarned ==
  \A r \in Run : status[r] = "completed" =>
    idx[r] = plan[r] /\ failed[r] = 0 /\ savedBad[r] = 0

\* A row says "failed" only for a step that failed or an exception that was
\* met on the way (which costs a fault); a cancelled run is never "failed"
\* without one.
FailedHasACause ==
  \A r \in Run : status[r] = "failed" => failed[r] > 0 \/ faults > 0

\* Once the thread has published its last status, the stream and the row say
\* the same, whichever DELETE request wrote the row meanwhile: unless a write
\* failed (_finalize_run publishes the status even then).
StreamAgreesWithRow ==
  \A r \in Run : pc[r] \in {"close", "cleanup", "done"} /\ faults = 0 => shown[r] = status[r]

\* A verdict the thread has written is never taken back: a late DELETE, whose
\* look at the row or at the registry is out of date, finds its UPDATE guarded.
VerdictStays ==
  [][\A r \in Run : status[r] \in {"completed", "failed"} => status'[r] = status[r]]_vars

Disturbed == faults > 0 \/ crashes > 0

\* Undisturbed, every run that was created reaches a terminal status.
EveryRunEnds ==
  \A r \in Run : (status[r] # "absent") ~> (status[r] \in Finished \/ Disturbed)

\* Undisturbed, a cancel that is signalled before the thread has computed its
\* final status ends in "cancelled", however many failing steps came before.
CancelIsHonoured ==
  \A r \in Run :
    (flag[r] = "set" /\ pc[r] \in {"registered", "begin", "loop", "step", "decide"})
      ~> (status[r] = "cancelled" \/ Disturbed)

\* A DELETE answered 202 by a process that then stays up, with working
\* storage, leaves no unfinished row: rows orphaned by an earlier process
\* included.
DeleteTakesEffect ==
  \A r \in Run : asked[r] ~> (status[r] \in Finished \/ ~asked[r] \/ faults > 0)

\* "Request cancellation of an active run.  Returns 202 immediately; actual
\* cancellation is cooperative (thread checks flag)": undisturbed, a DELETE
\* answered 202 before the thread has reached its verdict cancels the run.
AcceptedCancelWins ==
  \A r \in Run : (asked[r] /\ verdict[r] = "none") ~> (status[r] = "cancelled" \/ Disturbed)

\* Whoever watches the stream sees a RunFeed: the thread, through failing
\* writes, exceptions, cancels and restarts, implements it.
Phase ==
  [r \in Run |->
     CASE pc[r] = "lost" -> "cut"
       [] pc[r] \in {"cleanup", "done"} -> "ended"
       [] OTHER -> IF shown[r] = "none" THEN "silent"
                   ELSE IF shown[r] = "running" THEN "announced" ELSE "concluded"]

Feed == INSTANCE RunFeed WITH phase <- Phase, last <- shown
ImplementsFeed == Feed!Spec
=============================================================================
