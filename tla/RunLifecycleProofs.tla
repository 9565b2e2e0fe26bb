------------------------ MODULE RunLifecycleProofs ------------------------
(***************************************************************************)
(* Machine-checked proofs about RunLifecycle, for every set of runs and    *)
(* DELETE requests and every bound: type correctness, the invariant that   *)
(* ties a row to the position of its thread, what follows from it, and    *)
(* the refinement of RunFeed.                                              *)
(***************************************************************************)
EXTENDS RunLifecycle, TLAPS

\* The counters of a run never overtake one another, and a step is only
\* executed while there is one left.
Counters(r) ==
  /\ savedBad[r] <= saved[r] /\ saved[r] <= idx[r]
  /\ savedBad[r] <= failed[r] /\ failed[r] <= idx[r]
  /\ idx[r] <= plan[r]
  /\ pc[r] = "step" => idx[r] < plan[r]
  /\ pc[r] \in {"absent"} \cup Starting \cup {"begin"} => idx[r] = 0

\* What is written to the row and published at the end is a final status.
Decided(r) == pc[r] \in {"finalize", "publish"} => verdict[r] \in Finished

\* Type correctness needs the counters: idx stays within MaxSteps only
\* because a step is never executed past the plan, and the status of a row
\* within its own only because the verdict was reached first.
TypeInv == TypeOK /\ \A r \in Run : Counters(r) /\ Decided(r)

LEMMA InitTypeInv == Init => TypeInv
BY RunLifecycleAssumption
   DEF Init, TypeInv, TypeOK, Counters, Decided, Starting, Executing, Gone, Active, Finished

LEMMA NextTypeInv == TypeInv /\ [Next]_vars => TypeInv'
<1> SUFFICES ASSUME TypeInv, [Next]_vars PROVE TypeInv'
  OBVIOUS
<1> USE RunLifecycleAssumption DEF TypeInv, TypeOK, Counters, Decided, Starting, Executing, Gone,
        Active, Finished, GoTo, Works, Fails, thread, request, budget
<1>1. ASSUME NEW r \in Run, StarterStep(r) PROVE TypeInv'
  <2>1. CASE CreateRun(r)      BY <2>1 DEF CreateRun
  <2>2. CASE AbandonStart(r)   BY <2>2 DEF AbandonStart
  <2>3. CASE RegisterThread(r) BY <2>3 DEF RegisterThread
  <2>4. CASE StartThread(r)    BY <2>4 DEF StartThread
  <2> QED BY <1>1, <2>1, <2>2, <2>3, <2>4 DEF StarterStep
<1>2. ASSUME NEW r \in Run, ThreadStep(r) PROVE TypeInv'
  <2>1. CASE BeginExecution(r) BY <2>1 DEF BeginExecution
  <2>2. CASE NextStep(r)       BY <2>2 DEF NextStep
  <2>3. CASE ExecuteStep(r)
    <3>1. /\ pc[r] = "step" /\ idx' = [idx EXCEPT ![r] = @ + 1]
          /\ pc' \in {[pc EXCEPT ![r] = "decide"], [pc EXCEPT ![r] = "loop"]}
          /\ failed' \in {failed, [failed EXCEPT ![r] = @ + 1]}
          /\ \/ saved' = saved /\ savedBad' = savedBad
             \/ saved' = [saved EXCEPT ![r] = @ + 1] /\ savedBad' = savedBad
             \/ /\ saved' = [saved EXCEPT ![r] = @ + 1]
                /\ savedBad' = [savedBad EXCEPT ![r] = @ + 1]
                /\ failed' = [failed EXCEPT ![r] = @ + 1]
          /\ faults' \in {faults, faults + 1} /\ faults' <= MaxFaults
          /\ UNCHANGED <<status, plan, verdict, flag, shown, request, crashes>>
      <4>1. PICK o \in Outcome, optional \in BOOLEAN, kept \in BOOLEAN :
              /\ GoTo(r, "step", IF StopsRun(o, optional) \/ flag[r] = "set"
                                 THEN "decide" ELSE "loop")
              /\ idx' = [idx EXCEPT ![r] = @ + 1]
              /\ failed' = IF o \in Failing THEN [failed EXCEPT ![r] = @ + 1] ELSE failed
              /\ \/ /\ kept /\ Works
                    /\ saved' = [saved EXCEPT ![r] = @ + 1]
                    /\ savedBad' = IF o \in Failing THEN [savedBad EXCEPT ![r] = @ + 1]
                                                    ELSE savedBad
                 \/ ~kept /\ Fails /\ UNCHANGED <<saved, savedBad>>
        BY <2>3, Zenon DEF ExecuteStep
      <4>2. UNCHANGED <<status, plan, verdict, flag, shown, request, crashes>>
        BY <2>3 DEF ExecuteStep
      <4>3. pc[r] = "step" /\ pc' \in {[pc EXCEPT ![r] = "decide"], [pc EXCEPT ![r] = "loop"]}
        BY <4>1
      <4>4. CASE kept BY <4>1, <4>2, <4>3, <4>4
      <4>5. CASE ~kept BY <4>1, <4>2, <4>3, <4>5
      <4> QED BY <4>4, <4>5
    <3>2. TypeOK' BY <3>1
    <3>3. \A q \in Run : Counters(q)' /\ Decided(q)' BY <3>1
    <3> QED BY <3>2, <3>3
  <2>4. CASE StepRaises(r)     BY <2>4 DEF StepRaises
  <2>5. CASE DecideVerdict(r)  BY <2>5 DEF DecideVerdict, FinalStatus
  <2>6. CASE FinalizeRow(r)    BY <2>6 DEF FinalizeRow
  <2>7. CASE PublishFinal(r)   BY <2>7 DEF PublishFinal
  <2>8. CASE FailRow(r)        BY <2>8 DEF FailRow
  <2>9. CASE PublishFailure(r) BY <2>9 DEF PublishFailure
  <2>10. CASE CloseStream(r)   BY <2>10 DEF CloseStream
  <2>11. CASE ForgetThread(r)  BY <2>11 DEF ForgetThread
  <2> QED BY <1>2, <2>1, <2>2, <2>3, <2>4, <2>5, <2>6, <2>7, <2>8, <2>9, <2>10, <2>11
          DEF ThreadStep
<1>3. ASSUME NEW c \in Client, DeleteStep(c) PROVE TypeInv'
  <2>1. ASSUME NEW r \in Run, DeleteReads(c, r) PROVE TypeInv'
    BY <2>1 DEF DeleteReads
  <2>2. CASE DeleteSignals(c)
    <3>1. flag' \in {flag, [flag EXCEPT ![drun[c]] = "set"]}
          /\ asked' \in {asked, [asked EXCEPT ![drun[c]] = TRUE]}
          /\ dpc' \in {[dpc EXCEPT ![c] = "idle"], [dpc EXCEPT ![c] = "direct"]}
      BY <2>2 DEF DeleteSignals
    <3>2. UNCHANGED <<status, saved, savedBad, plan, pc, thread, shown, drun, budget>>
      BY <2>2 DEF DeleteSignals
    <3>3. flag' \in [Run -> {"none", "clear", "set"}] BY <3>1
    <3>4. asked' \in [Run -> BOOLEAN] BY <3>1
    <3>5. dpc' \in [Client -> {"idle", "read", "direct"}] BY <3>1
    <3> QED BY <3>2, <3>3, <3>4, <3>5
  <2>3. CASE DeleteWrites(c)
    <3>1. drun[c] \in Run OBVIOUS
    <3>2. TypeOK'
      <4>1. status' \in {status, [status EXCEPT ![drun[c]] = "cancelled"]}
        BY <2>3 DEF DeleteWrites, CancelRow
      <4>2. asked' \in {asked, [asked EXCEPT ![drun[c]] = TRUE]}
        BY <2>3 DEF DeleteWrites
      <4>3. dpc' = [dpc EXCEPT ![c] = "idle"] /\ faults' \in {faults, faults + 1}
            /\ faults' <= MaxFaults
        BY <2>3 DEF DeleteWrites
      <4>4. UNCHANGED <<saved, savedBad, plan, pc, thread, flag, shown, drun, crashes>>
        BY <2>3 DEF DeleteWrites
      <4>5. status' \in [Run -> {"absent"} \cup Active \cup Finished] BY <3>1, <4>1
      <4>6. asked' \in [Run -> BOOLEAN] BY <3>1, <4>2
      <4>7. dpc' \in [Client -> {"idle", "read", "direct"}] /\ faults' \in 0..MaxFaults BY <4>3
      <4> QED BY <4>4, <4>5, <4>6, <4>7
    <3>3. \A q \in Run : Counters(q)' /\ Decided(q)' BY <2>3, <3>1 DEF DeleteWrites
    <3> QED BY <3>2, <3>3
  <2> QED BY <1>3, <2>1, <2>2, <2>3 DEF DeleteStep
<1>4. CASE Restart BY <1>4 DEF Restart, Unended
<1>5. CASE Quiet \/ UNCHANGED vars BY <1>5 DEF Quiet, vars
<1> QED BY <1>1, <1>2, <1>3, <1>4, <1>5 DEF Next

\* TypeOK is an invariant: every variable of every reachable state has its
\* type, and no counter leaves the bounds of the plan.
THEOREM TypeCorrect == Spec => []TypeOK
<1>1. TypeInv => TypeOK BY DEF TypeInv
<1> QED BY InitTypeInv, NextTypeInv, <1>1, PTL DEF Spec

-----------------------------------------------------------------------------
Undecided == {"absent"} \cup Starting \cup {"begin", "loop", "step", "decide"}
Published == {"close", "cleanup", "done"}

\* Where a verdict comes from: it is reached after the last step, or after a
\* failing one, or because the flag was set, and by no other way.
Reasons(r) ==
  /\ pc[r] \in Undecided => verdict[r] = "none"
  /\ pc[r] = "decide" => idx[r] = plan[r] \/ failed[r] > 0 \/ flag[r] = "set"
  /\ verdict[r] = "completed" => idx[r] = plan[r] /\ failed[r] = 0
  /\ verdict[r] = "failed" => failed[r] > 0
  /\ pc[r] \in {"raised", "report"} => faults > 0

\* What the row may say, given where the thread stands: "completed" and
\* "failed" are written by the thread's last UPDATE only.
RowInv(r) ==
  /\ status[r] = "completed" => verdict[r] = "completed"
  /\ status[r] = "failed" => verdict[r] = "failed" \/ faults > 0
  /\ status[r] \in {"completed", "failed"} => pc[r] \in {"publish", "report", "lost"} \cup Published
  /\ pc[r] = "publish" /\ faults = 0 => status[r] = verdict[r]
  /\ pc[r] \in Published /\ faults = 0 => shown[r] = status[r] /\ status[r] \in Finished

IInv == TypeInv /\ \A r \in Run : Reasons(r) /\ RowInv(r)

LEMMA InitIInv == Init => IInv
<1> SUFFICES ASSUME Init PROVE IInv
  OBVIOUS
<1>1. TypeInv BY InitTypeInv
<1>2. \A r \in Run : Reasons(r) /\ RowInv(r)
  BY RunLifecycleAssumption
     DEF Init, Reasons, RowInv, Undecided, Published, Finished, Starting
<1> QED BY <1>1, <1>2 DEF IInv

\* The steps of a thread only concern its own run.
LEMMA ThreadIInv ==
  ASSUME IInv, NEW r \in Run, ThreadStep(r)
  PROVE  \A q \in Run : Reasons(q)' /\ RowInv(q)'
<1> USE RunLifecycleAssumption DEF IInv, TypeInv, TypeOK, Counters, Decided, Reasons, RowInv,
        Undecided, Published, Starting, Executing, Gone, Active, Finished, GoTo, Works, Fails,
        thread, request, budget
<1>1. CASE BeginExecution(r) BY <1>1 DEF BeginExecution
<1>2. CASE NextStep(r)       BY <1>2 DEF NextStep
<1>3. CASE ExecuteStep(r)
  <2>1. PICK o \in Outcome, optional \in BOOLEAN, kept \in BOOLEAN :
          /\ GoTo(r, "step", IF StopsRun(o, optional) \/ flag[r] = "set"
                             THEN "decide" ELSE "loop")
          /\ idx' = [idx EXCEPT ![r] = @ + 1]
          /\ failed' = IF o \in Failing THEN [failed EXCEPT ![r] = @ + 1] ELSE failed
          /\ \/ /\ kept /\ Works
                /\ saved' = [saved EXCEPT ![r] = @ + 1]
                /\ savedBad' = IF o \in Failing THEN [savedBad EXCEPT ![r] = @ + 1]
                                                ELSE savedBad
             \/ ~kept /\ Fails /\ UNCHANGED <<saved, savedBad>>
    BY <1>3, Zenon DEF ExecuteStep
  <2>2. idx' = [idx EXCEPT ![r] = @ + 1] /\ faults' \in {faults, faults + 1}
        /\ UNCHANGED <<status, plan, verdict, flag, shown, request, crashes>>
    BY <1>3 DEF ExecuteStep
  <2>3. pc[r] = "step" /\ pc' \in {[pc EXCEPT ![r] = "decide"], [pc EXCEPT ![r] = "loop"]}
    BY <2>1
  <2>4. failed' \in {failed, [failed EXCEPT ![r] = @ + 1]} BY <2>1
  <2>5. pc'[r] = "decide" => failed'[r] > 0 \/ flag[r] = "set"
    BY <2>1, <2>3 DEF StopsRun, Failing, Outcome
  <2>6. \A q \in Run : RowInv(q)' BY <2>2, <2>3
  <2>7. \A q \in Run : Reasons(q)'
    <3> SUFFICES ASSUME NEW q \in Run PROVE Reasons(q)'
      OBVIOUS
    <3>1. CASE q = r BY <2>2, <2>3, <2>5, <3>1
    <3>2. CASE q # r BY <2>2, <2>3, <2>4, <3>2
    <3> QED BY <3>1, <3>2
  <2> QED BY <2>6, <2>7
<1>4. CASE StepRaises(r)     BY <1>4 DEF StepRaises
<1>5. CASE DecideVerdict(r)  BY <1>5 DEF DecideVerdict, FinalStatus
<1>6. CASE FinalizeRow(r)    BY <1>6 DEF FinalizeRow
<1>7. CASE PublishFinal(r)   BY <1>7 DEF PublishFinal
<1>8. CASE FailRow(r)        BY <1>8 DEF FailRow
<1>9. CASE PublishFailure(r) BY <1>9 DEF PublishFailure
<1>10. CASE CloseStream(r)   BY <1>10 DEF CloseStream
<1>11. CASE ForgetThread(r)  BY <1>11 DEF ForgetThread
<1> QED BY <1>1, <1>2, <1>3, <1>4, <1>5, <1>6, <1>7, <1>8, <1>9, <1>10, <1>11 DEF ThreadStep

LEMMA NextIInv == IInv /\ [Next]_vars => IInv'
<1> SUFFICES ASSUME IInv, [Next]_vars PROVE IInv'
  OBVIOUS
<1>1. TypeInv' BY NextTypeInv DEF IInv
<1>2. \A q \in Run : Reasons(q)' /\ RowInv(q)'
  <2> USE RunLifecycleAssumption DEF IInv, TypeInv, TypeOK, Counters, Decided, Reasons, RowInv,
          Undecided, Published, Starting, Executing, Gone, Active, Finished, GoTo, Works, Fails,
          thread, request, budget
  <2>1. ASSUME NEW r \in Run, StarterStep(r) PROVE \A q \in Run : Reasons(q)' /\ RowInv(q)'
    <3>1. CASE CreateRun(r)      BY <3>1 DEF CreateRun
    <3>2. CASE AbandonStart(r)   BY <3>2 DEF AbandonStart
    <3>3. CASE RegisterThread(r) BY <3>3 DEF RegisterThread
    <3>4. CASE StartThread(r)    BY <3>4 DEF StartThread
    <3> QED BY <2>1, <3>1, <3>2, <3>3, <3>4 DEF StarterStep
  <2>2. ASSUME NEW r \in Run, ThreadStep(r) PROVE \A q \in Run : Reasons(q)' /\ RowInv(q)'
    BY <2>2, ThreadIInv
  <2>3. ASSUME NEW c \in Client, DeleteStep(c) PROVE \A q \in Run : Reasons(q)' /\ RowInv(q)'
    <3>1. ASSUME NEW r \in Run, DeleteReads(c, r) PROVE \A q \in Run : Reasons(q)' /\ RowInv(q)'
      BY <3>1 DEF DeleteReads
    <3>2. CASE DeleteSignals(c) BY <3>2 DEF DeleteSignals
    <3>3. CASE DeleteWrites(c)
      <4>1. drun[c] \in Run OBVIOUS
      <4>2. \/ status' = status
            \/ status[drun[c]] \in Active /\ status' = [status EXCEPT ![drun[c]] = "cancelled"]
        BY <3>3 DEF DeleteWrites, CancelRow
      <4>3. UNCHANGED <<saved, savedBad, plan, pc, thread, flag, shown, drun, crashes>>
            /\ faults' \in {faults, faults + 1}
        BY <3>3 DEF DeleteWrites
      <4> QED BY <4>1, <4>2, <4>3
    <3> QED BY <2>3, <3>1, <3>2, <3>3 DEF DeleteStep
  <2>4. CASE Restart BY <2>4 DEF Restart, Unended
  <2>5. CASE Quiet \/ UNCHANGED vars BY <2>5 DEF Quiet, vars
  <2> QED BY <2>1, <2>2, <2>3, <2>4, <2>5 DEF Next
<1> QED BY <1>1, <1>2 DEF IInv

LEMMA Invariance == Spec => []IInv
BY InitIInv, NextIInv, PTL DEF Spec

-----------------------------------------------------------------------------
\* A run whose row says "completed" executed its whole plan, and no step
\* result, persisted or not, was a failing one.
THEOREM CompletedIsEarnedHolds == Spec => []CompletedIsEarned
<1>1. IInv => CompletedIsEarned
  BY DEF IInv, TypeInv, TypeOK, Counters, Reasons, RowInv, CompletedIsEarned
<1> QED BY Invariance, <1>1, PTL

\* A row says "failed" only if a step failed or an operation of the run did.
THEOREM FailedHasACauseHolds == Spec => []FailedHasACause
<1>1. IInv => FailedHasACause BY DEF IInv, Reasons, RowInv, FailedHasACause
<1> QED BY Invariance, <1>1, PTL

\* The last status the thread published is the one in the row, unless a
\* storage write failed, whatever DELETE requests wrote in between.
THEOREM StreamAgreesWithRowHolds == Spec => []StreamAgreesWithRow
<1>1. IInv => StreamAgreesWithRow BY DEF IInv, RowInv, StreamAgreesWithRow, Published
<1> QED BY Invariance, <1>1, PTL

\* No step, of the thread, of a DELETE request or of a restart, takes back a
\* "completed" or "failed" that the thread has written.
LEMMA VerdictStaysStep ==
  IInv /\ [Next]_vars => \A r \in Run : status[r] \in {"completed", "failed"} => status'[r] = status[r]
<1> SUFFICES ASSUME IInv, [Next]_vars, NEW q \in Run, status[q] \in {"completed", "failed"}
             PROVE  status'[q] = status[q]
  OBVIOUS
<1> USE DEF IInv, TypeInv, TypeOK, RowInv, Published, GoTo, Active, thread, request, budget
<1>1. ASSUME NEW r \in Run, StarterStep(r) PROVE status'[q] = status[q]
  BY <1>1 DEF StarterStep, CreateRun, AbandonStart, RegisterThread, StartThread
<1>2. ASSUME NEW r \in Run, ThreadStep(r) PROVE status'[q] = status[q]
  <2>1. CASE BeginExecution(r) \/ FinalizeRow(r) \/ FailRow(r)
    BY <2>1 DEF BeginExecution, FinalizeRow, FailRow
  <2>2. CASE NextStep(r) \/ StepRaises(r) \/ DecideVerdict(r)
    BY <2>2 DEF NextStep, StepRaises, DecideVerdict
  <2>3. CASE PublishFinal(r) \/ PublishFailure(r) \/ CloseStream(r) \/ ForgetThread(r)
    BY <2>3 DEF PublishFinal, PublishFailure, CloseStream, ForgetThread
  <2>4. CASE ExecuteStep(r) BY <2>4 DEF ExecuteStep
  <2> QED BY <1>2, <2>1, <2>2, <2>3, <2>4 DEF ThreadStep
<1>3. ASSUME NEW c \in Client, DeleteStep(c) PROVE status'[q] = status[q]
  <2>1. ASSUME NEW r \in Run, DeleteReads(c, r) PROVE status'[q] = status[q]
    BY <2>1 DEF DeleteReads
  <2>2. CASE DeleteSignals(c) BY <2>2 DEF DeleteSignals
  <2>3. CASE DeleteWrites(c) BY <2>3 DEF DeleteWrites, CancelRow
  <2> QED BY <1>3, <2>1, <2>2, <2>3 DEF DeleteStep
<1>4. CASE Restart \/ Quiet \/ UNCHANGED vars BY <1>4 DEF Restart, Quiet, vars
<1> QED BY <1>1, <1>2, <1>3, <1>4 DEF Next

\* A verdict the thread has written to the row is never taken back.
THEOREM VerdictStaysHolds == Spec => VerdictStays
BY Invariance, VerdictStaysStep, PTL DEF Spec, VerdictStays
-----------------------------------------------------------------------------
(* RunLifecycle implements the safety part of RunFeed: seen through Phase   *)
(* and shown, every step of a run's starter, of its thread, of a DELETE     *)
(* request or of a restart is a step of the feed or changes nothing in it.  *)

Unannounced == {"absent", "created", "registered", "begin", "orphaned", "stillborn"}
Announced == {"loop", "step", "decide", "finalize", "publish"}
Concluded == {"completed", "failed", "cancelled", "run_failed"}

\* What was last published, given where the thread stands.
FeedInv ==
  \A r \in Run :
    /\ pc[r] \in Unannounced => shown[r] = "none"
    /\ pc[r] \in Announced => shown[r] = "running"
    /\ pc[r] \in {"raised", "report"} => shown[r] \in {"none", "running"}
    /\ pc[r] \in {"close", "cleanup", "done"} => shown[r] \in Concluded

FInv == TypeInv /\ FeedInv

LEMMA InitFeedInv == Init => FeedInv
BY DEF Init, FeedInv, Announced, Concluded

\* A step of run r's starter or thread, reduced to what the feed depends on.
FeedStep(r) ==
  \/ /\ pc[r] = "begin" /\ pc' = [pc EXCEPT ![r] = "loop"]
     /\ shown' = [shown EXCEPT ![r] = "running"]
  \/ /\ pc[r] = "publish" /\ pc' = [pc EXCEPT ![r] = "close"]
     /\ shown' = [shown EXCEPT ![r] = verdict[r]]
  \/ /\ pc[r] = "report" /\ pc' = [pc EXCEPT ![r] = "close"]
     /\ shown' = [shown EXCEPT ![r] = "run_failed"]
  \/ pc[r] = "close" /\ pc' = [pc EXCEPT ![r] = "cleanup"] /\ UNCHANGED shown

\* A step that moves a run without anything for its watchers.
SilentStep(r) ==
  /\ UNCHANGED shown
  /\ \E to \in {"created", "registered", "begin", "orphaned", "stillborn", "loop", "step",
                "decide", "finalize", "publish", "raised", "report", "done"} :
       /\ pc' = [pc EXCEPT ![r] = to]
       /\ \/ pc[r] \in Unannounced /\ to \in (Unannounced \ {"absent"}) \cup {"raised"}
          \/ pc[r] \in Announced /\ to \in Announced \cup {"raised"}
          \/ pc[r] = "raised" /\ to = "report"
          \/ pc[r] = "cleanup" /\ to = "done"

LEMMA StarterIsSilent == ASSUME TypeInv, NEW r \in Run, StarterStep(r) PROVE SilentStep(r)
BY DEF StarterStep, CreateRun, AbandonStart, RegisterThread, StartThread, GoTo, SilentStep,
       Unannounced

\* Every step of the thread is one or the other.
LEMMA ThreadFeedStep ==
  ASSUME TypeInv, NEW r \in Run, ThreadStep(r)
  PROVE  FeedStep(r) \/ SilentStep(r)
<1> USE DEF GoTo, FeedStep, SilentStep, Unannounced, Announced
<1>1. CASE BeginExecution(r) BY <1>1 DEF BeginExecution
<1>2. CASE NextStep(r) BY <1>2 DEF NextStep
<1>3. CASE ExecuteStep(r)
  <2>1. UNCHANGED shown BY <1>3 DEF ExecuteStep
  <2>2. PICK o \in Outcome, optional \in BOOLEAN :
          GoTo(r, "step", IF StopsRun(o, optional) \/ flag[r] = "set" THEN "decide" ELSE "loop")
    BY <1>3 DEF ExecuteStep
  <2>3. pc[r] = "step" /\ pc' \in {[pc EXCEPT ![r] = "decide"], [pc EXCEPT ![r] = "loop"]}
    BY <2>2
  <2> QED BY <2>1, <2>3
<1>4. CASE StepRaises(r)     BY <1>4 DEF StepRaises
<1>5. CASE DecideVerdict(r)  BY <1>5 DEF DecideVerdict
<1>6. CASE FinalizeRow(r)    BY <1>6 DEF FinalizeRow
<1>7. CASE PublishFinal(r)   BY <1>7 DEF PublishFinal
<1>8. CASE FailRow(r)        BY <1>8 DEF FailRow
<1>9. CASE PublishFailure(r) BY <1>9 DEF PublishFailure
<1>10. CASE CloseStream(r)   BY <1>10 DEF CloseStream
<1>11. CASE ForgetThread(r)  BY <1>11 DEF ForgetThread
<1> QED BY <1>1, <1>2, <1>3, <1>4, <1>5, <1>6, <1>7, <1>8, <1>9, <1>10, <1>11 DEF ThreadStep

\* DELETE requests neither move a run nor publish anything.
LEMMA DeleteIsSilent ==
  ASSUME NEW c \in Client, DeleteStep(c) PROVE UNCHANGED <<pc, shown>>
BY DEF DeleteStep, DeleteReads, DeleteSignals, DeleteWrites

LEMMA NextFeedInv == FInv /\ [Next]_vars => FeedInv'
<1> SUFFICES ASSUME FInv, [Next]_vars PROVE FeedInv'
  OBVIOUS
<1> USE DEF FInv, FeedInv, TypeInv, TypeOK, Unannounced, Announced, Concluded
<1>1. ASSUME NEW r \in Run, FeedStep(r) PROVE FeedInv'
  BY <1>1 DEF FeedStep, Decided, Finished
<1>2. ASSUME NEW r \in Run, SilentStep(r) PROVE FeedInv'
  BY <1>2 DEF SilentStep
<1>3. ASSUME NEW c \in Client, DeleteStep(c) PROVE FeedInv'
  BY <1>3, DeleteIsSilent
<1>4. CASE Restart BY <1>4 DEF Restart, Unended, Starting, Executing
<1>5. CASE Quiet \/ UNCHANGED vars BY <1>5 DEF Quiet, vars
<1> QED BY <1>1, <1>2, <1>3, <1>4, <1>5, StarterIsSilent, ThreadFeedStep DEF Next

LEMMA FeedInvariance == Spec => []FInv
<1>1. Init => FInv BY InitTypeInv, InitFeedInv DEF FInv
<1>2. FInv /\ [Next]_vars => FInv' BY NextTypeInv, NextFeedInv DEF FInv
<1> QED BY <1>1, <1>2, PTL DEF Spec

-----------------------------------------------------------------------------
(* The refinement                                                           *)

\* Phase run by run, and as the function it is.
PhaseOf(r, p) ==
  /\ pc[r] = "lost" => p = "cut"
  /\ pc[r] \in {"cleanup", "done"} => p = "ended"
  /\ pc[r] \notin {"lost", "cleanup", "done"} =>
       /\ shown[r] = "none" => p = "silent"
       /\ shown[r] = "running" => p = "announced"
       /\ shown[r] \notin {"none", "running"} => p = "concluded"
PhaseIs == Phase = [r \in Run |-> Phase[r]] /\ \A r \in Run : PhaseOf(r, Phase[r])

LEMMA PhaseFacts == PhaseIs
<1>1. Phase = [r \in Run |-> Phase[r]] BY DEF Phase
<1>2. ASSUME NEW r \in Run PROVE PhaseOf(r, Phase[r])
  <2>1. CASE pc[r] = "lost" BY <2>1 DEF Phase, PhaseOf
  <2>2. CASE pc[r] \in {"cleanup", "done"} BY <2>2 DEF Phase, PhaseOf
  <2>3. CASE pc[r] \notin {"lost", "cleanup", "done"} BY <2>3 DEF Phase, PhaseOf
  <2> QED BY <2>1, <2>2, <2>3
<1> QED BY <1>1, <1>2 DEF PhaseIs

LEMMA PhaseFactsNext == PhaseIs'
BY PhaseFacts, PTL

LEMMA InitRefines == Init => Feed!Init
<1> SUFFICES ASSUME Init PROVE Feed!Init
  OBVIOUS
<1>1. \A r \in Run : Phase[r] = "silent" BY PhaseFacts DEF PhaseIs, PhaseOf, Init
<1>2. Phase = [r \in Run |-> "silent"] BY <1>1, PhaseFacts DEF PhaseIs
<1> QED BY <1>2 DEF Init, Feed!Init

\* The steps that the watchers see are steps of the feed ...
LEMMA FeedStepRefines ==
  ASSUME FInv, NEW r \in Run, FeedStep(r) PROVE Feed!Next
<1> USE DEF FInv, TypeInv, TypeOK, FeedInv, Unannounced, Announced, Concluded, Decided, Finished
<1>1. \A q \in Run : q # r => pc'[q] = pc[q] /\ shown'[q] = shown[q] BY DEF FeedStep
<1>2. \A q \in Run : q # r => Phase'[q] = Phase[q]
  BY <1>1, PhaseFacts, PhaseFactsNext DEF PhaseIs, PhaseOf
<1>3. \A p : Phase'[r] = p => Phase' = [Phase EXCEPT ![r] = p]
  BY <1>2, PhaseFacts, PhaseFactsNext DEF PhaseIs
<1>4. CASE pc[r] = "begin"
  <2>1. shown[r] = "none" /\ shown' = [shown EXCEPT ![r] = "running"] /\ pc'[r] = "loop"
    BY <1>4 DEF FeedStep
  <2>2. Phase[r] = "silent" BY <1>4, <2>1, PhaseFacts DEF PhaseIs, PhaseOf
  <2>3. Phase'[r] = "announced" BY <2>1, PhaseFactsNext DEF PhaseIs, PhaseOf
  <2>4. Feed!Announce(r) BY <1>3, <2>1, <2>2, <2>3 DEF Feed!Announce
  <2> QED BY <2>4 DEF Feed!Next
<1>5. CASE pc[r] \in {"publish", "report"}
  <2>1. PICK v \in Concluded :
          /\ pc'[r] = "close" /\ shown' = [shown EXCEPT ![r] = v]
          /\ pc[r] = "report" => v = "run_failed"
    BY <1>5 DEF FeedStep
  <2>2. /\ shown[r] \in {"none", "running"}
        /\ pc[r] = "publish" => shown[r] = "running"
    BY <1>5
  <2>3. Phase[r] \in {"silent", "announced"} /\ (Phase[r] = "silent" => shown[r] = "none")
    BY <1>5, <2>2, PhaseFacts DEF PhaseIs, PhaseOf
  <2>4. Phase'[r] = "concluded" BY <2>1, PhaseFactsNext DEF PhaseIs, PhaseOf
  <2>5. v \in (IF Phase[r] = "silent" THEN {"run_failed"} ELSE Feed!Conclusion)
    BY <1>5, <2>1, <2>2, <2>3 DEF Feed!Conclusion
  <2>6. Feed!Conclude(r) BY <1>3, <2>1, <2>3, <2>4, <2>5 DEF Feed!Conclude
  <2> QED BY <2>6 DEF Feed!Next
<1>6. CASE pc[r] = "close"
  <2>1. shown[r] \in Concluded /\ UNCHANGED shown /\ pc'[r] = "cleanup" BY <1>6 DEF FeedStep
  <2>2. Phase[r] = "concluded" BY <1>6, <2>1, PhaseFacts DEF PhaseIs, PhaseOf
  <2>3. Phase'[r] = "ended" BY <2>1, PhaseFactsNext DEF PhaseIs, PhaseOf
  <2>4. Feed!End(r) BY <1>3, <2>1, <2>2, <2>3 DEF Feed!End
  <2> QED BY <2>4 DEF Feed!Next
<1> QED BY <1>4, <1>5, <1>6 DEF FeedStep

\* ... the others change nothing for them ...
LEMMA SilentStepRefines ==
  ASSUME FInv, NEW r \in Run, SilentStep(r) PROVE UNCHANGED Feed!feed
<1> USE DEF FInv, TypeInv, TypeOK, FeedInv, Unannounced, Announced
<1>1. UNCHANGED shown BY DEF SilentStep
<1>2. \A q \in Run : q # r => pc'[q] = pc[q] BY DEF SilentStep
<1>3. \/ pc[r] = "cleanup" /\ pc'[r] = "done"
      \/ /\ pc[r] \notin {"lost", "cleanup", "done"}
         /\ pc'[r] \notin {"lost", "cleanup", "done"}
  BY DEF SilentStep
<1>4. \A q \in Run : Phase'[q] = Phase[q]
  BY <1>1, <1>2, <1>3, PhaseFacts, PhaseFactsNext DEF PhaseIs, PhaseOf
<1>5. Phase' = Phase BY <1>4, PhaseFacts, PhaseFactsNext DEF PhaseIs
<1> QED BY <1>1, <1>5 DEF Feed!feed

\* ... and the death of the server cuts the feeds of the runs it had.
LEMMA RestartRefines == ASSUME FInv, Restart PROVE Feed!Next
<1> DEFINE S == {r \in Run : pc[r] \in Unended}
<1> USE DEF FInv, TypeInv, TypeOK, Unended, Starting, Executing
<1>1. UNCHANGED shown BY DEF Restart
<1>2. \A r \in Run : pc'[r] = IF r \in S THEN "lost" ELSE IF pc[r] = "cleanup" THEN "done" ELSE pc[r]
  BY DEF Restart
<1>3. \A r \in S : Phase[r] \in {"silent", "announced", "concluded"}
  BY PhaseFacts DEF PhaseIs, PhaseOf
<1>4. \A r \in Run : Phase'[r] = IF r \in S THEN "cut" ELSE Phase[r]
  BY <1>1, <1>2, PhaseFacts, PhaseFactsNext DEF PhaseIs, PhaseOf
<1>5. Phase' = [r \in Run |-> IF r \in S THEN "cut" ELSE Phase[r]]
  BY <1>4, PhaseFactsNext DEF PhaseIs
<1>6. S \in SUBSET Feed!Open BY <1>3 DEF Feed!Open
<1>7. Feed!Cut BY <1>1, <1>5, <1>6 DEF Feed!Cut
<1> QED BY <1>7 DEF Feed!Next

LEMMA NextRefines == FInv /\ [Next]_vars => [Feed!Next]_(Feed!feed)
<1> SUFFICES ASSUME FInv, [Next]_vars PROVE [Feed!Next]_(Feed!feed)
  OBVIOUS
<1>1. ASSUME NEW r \in Run, StarterStep(r) \/ ThreadStep(r) PROVE [Feed!Next]_(Feed!feed)
  BY <1>1, StarterIsSilent, ThreadFeedStep, FeedStepRefines, SilentStepRefines DEF FInv
<1>2. ASSUME NEW c \in Client, DeleteStep(c) PROVE [Feed!Next]_(Feed!feed)
  BY <1>2, DeleteIsSilent DEF Feed!feed, Phase
<1>3. CASE Restart BY <1>3, RestartRefines
<1>4. CASE Quiet \/ UNCHANGED vars BY <1>4 DEF Quiet, vars, Feed!feed, Phase
<1> QED BY <1>1, <1>2, <1>3, <1>4 DEF Next

\* What a run's watchers see is a behaviour of RunFeed: announced before it
\* is concluded, concluded once and with a conclusion that fits, ended after
\* it was concluded, and cut short by the death of the server only.
THEOREM RunImplementsFeed == Spec => Feed!SafeSpec
BY FeedInvariance, InitRefines, NextRefines, PTL DEF Spec, Feed!SafeSpec
=============================================================================
