----------------------------- MODULE ManualRun -----------------------------
(***************************************************************************)
(* A manual run: no thread works on it.  Its row, the placeholder evidence *)
(* of its steps and its reports are written by requests alone: the POST    *)
(* that creates it, testers who record the result of a step, whoever       *)
(* finalizes it, cancels it or asks for its report.  A request reads the   *)
(* row, computes, and writes in one or more later statements; between two  *)
(* statements the others go on, a statement may fail (the request is then  *)
(* answered 500 and what it wrote stays) and the process may die.          *)
(***************************************************************************)
EXTENDS Integers, FiniteSets, Sequences, TLC

CONSTANTS
  Step,        \* the steps of the run's pack
  Required,    \* those that are not optional
  Client,      \* concurrent requests
  MaxReports,  \* bound: reports of the run
  MaxTrouble   \* bound: failing statements plus deaths of the process

ASSUME ManualRunAssumption ==
  Required \subseteq Step /\ MaxReports \in Nat /\ MaxTrouble \in Nat

VARIABLES
  status,    \* live_runs.status
  results,   \* live_runs.step_results: the result of each step, "missing" if none
  evidence,  \* the status in each step's manual_confirmation evidence, or "none"
  reports,   \* the verdicts of the run's reports, oldest first
  req,       \* the requests: idle, or where they stand and what they have read
  overlap,   \* whether a result was ever recorded while another request wrote results
  trouble    \* statements that failed, deaths of the process

runRow == <<status, results>>
manualVars == <<runRow, evidence, reports, req, overlap, trouble>>

Active   == {"pending", "running"}
Finished == {"completed", "failed", "cancelled"}

\* What a tester may answer: "passed" stands for skipped too, "failed" for
\* blocked, which no code that follows tells apart.
Verdicts == {"passed", "failed"}
Result   == {"missing", "pending"} \cup Verdicts

Idle == [at |-> "idle"]
Becomes(c, state) == req' = [req EXCEPT ![c] = state]

Works == UNCHANGED trouble
Fails(c) == trouble < MaxTrouble /\ trouble' = trouble + 1 /\ Becomes(c, Idle)

ManualInit ==
  /\ status = "absent"
  /\ results = [s \in Step |-> "missing"]
  /\ evidence = [s \in Step |-> "none"]
  /\ reports = <<>>
  /\ req = [c \in Client |-> Idle]
  /\ overlap = FALSE
  /\ trouble = 0

-----------------------------------------------------------------------------
(* run_verdict: what the row and the reports derive from a set of results   *)

With(res, S) == {s \in Step : res[s] \in S}

\* derive_verdict(count_steps(...)), of the results a manual run can have.
VerdictOf(res) ==
  CASE With(res, Result \ {"missing"}) = {} -> "pending"
    [] With(res, {"failed"}) # {} -> "fail"
    [] With(res, {"passed", "missing"}) = Step -> "pass"
    [] OTHER -> "unclear"

\* verdict_for_run: what GET /runs/{id} shows.
RunVerdict ==
  IF status \notin Finished THEN "none"
  ELSE IF With(results, Result \ {"missing"}) # {} THEN VerdictOf(results)
  ELSE IF status = "failed" THEN "fail" ELSE "none"

-----------------------------------------------------------------------------
(* POST /validation-packs/{id}/run, execution_mode = "manual"               *)

\* The INSERT.
CreateRun(c) ==
  /\ req[c] = Idle /\ status = "absent"
  /\ status' = "pending"
  /\ Becomes(c, [at |-> "creating"])
  /\ UNCHANGED <<results, evidence, reports, overlap, trouble>>

\* One placeholder after the other ...
PlaceEvidence(c, s) ==
  /\ req[c].at = "creating" /\ evidence[s] = "none"
  /\ \/ evidence' = [evidence EXCEPT ![s] = "pending"] /\ Works /\ UNCHANGED req
     \/ Fails(c) /\ UNCHANGED evidence
  /\ UNCHANGED <<runRow, reports, overlap>>

\* ... and the pending results, whatever was recorded meanwhile.
FillResults(c) ==
  /\ req[c].at = "creating" /\ \A s \in Step : evidence[s] # "none"
  /\ \/ results' = [s \in Step |-> "pending"] /\ Works /\ Becomes(c, Idle)
     \/ Fails(c) /\ UNCHANGED results
  /\ UNCHANGED <<status, evidence, reports, overlap>>

-----------------------------------------------------------------------------
(* POST /live-runs/{id}/manual-steps/{step}/result                          *)

WritesResults(c) == req[c].at \in {"creating", "recording", "confirming"}

\* The row is read; any status will do.
RecordReads(c) ==
  /\ req[c] = Idle /\ status # "absent"
  /\ \E s \in Step, v \in Verdicts :
       Becomes(c, [at |-> "recording", step |-> s, verdict |-> v, status |-> status,
                   results |-> results])
  /\ overlap' = (overlap \/ \E d \in Client : WritesResults(d))
  /\ UNCHANGED <<runRow, evidence, reports, trouble>>

\* Mutant: a first result leaves the run pending.
RecordWritesResultOnly(c) ==
  /\ req[c].at = "recording"
  /\ results' = [req[c].results EXCEPT ![req[c].step] = req[c].verdict]
  /\ Becomes(c, [at |-> "confirming", step |-> req[c].step, verdict |-> req[c].verdict])
  /\ UNCHANGED <<status, evidence, reports, overlap, trouble>>

\* replace_run_step_results: the whole set of results as it was read, with the
\* new one put in, and the status that goes with what was read.
RecordWrites(c) ==
  /\ req[c].at = "recording"
  /\ \/ /\ results' = [req[c].results EXCEPT ![req[c].step] = req[c].verdict]
        /\ status' = IF req[c].status = "pending" THEN "running" ELSE req[c].status
        /\ Becomes(c, [at |-> "confirming", step |-> req[c].step, verdict |-> req[c].verdict])
        /\ Works
     \/ Fails(c) /\ UNCHANGED runRow
  /\ UNCHANGED <<evidence, reports, overlap>>

\* Mutant: only a pending placeholder is confirmed.
ConfirmFirst(c) ==
  LET s == req[c].step IN
  /\ req[c].at = "confirming" /\ Becomes(c, Idle)
  /\ evidence' = IF evidence[s] = "pending" THEN [evidence EXCEPT ![s] = req[c].verdict] ELSE evidence
  /\ UNCHANGED <<runRow, reports, overlap, trouble>>

\* The step's placeholder, if it has one, takes over the verdict.
ConfirmEvidence(c) ==
  LET s == req[c].step IN
  /\ req[c].at = "confirming"
  /\ \/ /\ evidence' = IF evidence[s] # "none" THEN [evidence EXCEPT ![s] = req[c].verdict] ELSE evidence
        /\ Becomes(c, Idle) /\ Works
     \/ Fails(c) /\ UNCHANGED evidence
  /\ UNCHANGED <<runRow, reports, overlap>>

-----------------------------------------------------------------------------
(* POST /live-runs/{id}/finalize                                            *)

\* Mutant: a result that is there counts as reviewed.
ReviewedIfPresent == \A s \in Required : results[s] # "missing"

Reviewed == \A s \in Required : results[s] \notin {"missing", "pending"}

FinalStatus == IF With(results, {"failed"}) # {} THEN "failed" ELSE "completed"

\* The row is read; any status will do.
FinalizeReads(c) ==
  /\ req[c] = Idle /\ status # "absent" /\ Reviewed
  /\ Becomes(c, [at |-> "finalizing", status |-> FinalStatus])
  /\ UNCHANGED <<runRow, evidence, reports, overlap, trouble>>

FinalizeWrites(c) ==
  /\ req[c].at = "finalizing"
  /\ \/ status' = req[c].status /\ Works /\ Becomes(c, Idle)
     \/ Fails(c) /\ UNCHANGED status
  /\ UNCHANGED <<results, evidence, reports, overlap>>

-----------------------------------------------------------------------------
(* DELETE /runs/{id}: there is no thread to signal                          *)

DeleteReads(c) ==
  /\ req[c] = Idle /\ status \in Active
  /\ Becomes(c, [at |-> "deleting"])
  /\ UNCHANGED <<runRow, evidence, reports, overlap, trouble>>

DeleteWrites(c) ==
  /\ req[c].at = "deleting"
  /\ \/ /\ status' = IF status \in Active THEN "cancelled" ELSE status
        /\ Works /\ Becomes(c, Idle)
     \/ Fails(c) /\ UNCHANGED status
  /\ UNCHANGED <<results, evidence, reports, overlap>>

-----------------------------------------------------------------------------
(* POST /runs/{id}/report/generate                                          *)

\* late: a report was there when the request began.
ReportReads(c) ==
  /\ req[c] = Idle /\ status \in Finished /\ Len(reports) < MaxReports
  /\ Becomes(c, [at |-> "listing", verdict |-> VerdictOf(results), late |-> reports # <<>>])
  /\ UNCHANGED <<runRow, evidence, reports, overlap, trouble>>

\* Mutant: existing reports are not looked for.
ReportListsNothing(c) ==
  /\ req[c].at = "listing"
  /\ Becomes(c, [req[c] EXCEPT !.at = "reporting"])
  /\ UNCHANGED <<runRow, evidence, reports, overlap, trouble>>

\* An existing report is the answer.
ReportLists(c) ==
  /\ req[c].at = "listing"
  /\ Becomes(c, IF reports # <<>> THEN Idle ELSE [req[c] EXCEPT !.at = "reporting"])
  /\ UNCHANGED <<runRow, evidence, reports, overlap, trouble>>

ReportWrites(c) ==
  /\ req[c].at = "reporting"
  /\ \/ reports' = Append(reports, req[c].verdict) /\ Works /\ Becomes(c, Idle)
     \/ Fails(c) /\ UNCHANGED reports
  /\ UNCHANGED <<runRow, evidence, overlap>>

-----------------------------------------------------------------------------
Restart ==
  /\ trouble < MaxTrouble /\ trouble' = trouble + 1
  /\ req' = [c \in Client |-> Idle]
  /\ UNCHANGED <<runRow, evidence, reports, overlap>>

Request(c) ==
  \/ CreateRun(c) \/ (\E s \in Step : PlaceEvidence(c, s)) \/ FillResults(c)
  \/ RecordReads(c) \/ RecordWrites(c) \/ ConfirmEvidence(c)
  \/ FinalizeReads(c) \/ FinalizeWrites(c)
  \/ DeleteReads(c) \/ DeleteWrites(c)
  \/ ReportReads(c) \/ ReportLists(c) \/ ReportWrites(c)

ManualNext == Restart \/ \E c \in Client : Request(c)

ManualSpec == ManualInit /\ [][ManualNext]_manualVars

Symmetric == Permutations(Client)
-----------------------------------------------------------------------------
(* Properties *)

ManualTypeOK ==
  /\ status \in {"absent"} \cup Active \cup Finished
  /\ results \in [Step -> Result]
  /\ evidence \in [Step -> {"none", "pending"} \cup Verdicts]
  /\ reports \in Seq({"pending", "fail", "pass", "unclear"})
  /\ \A c \in Client : req[c].at \in {"idle", "creating", "recording", "confirming", "finalizing",
                                      "deleting", "listing", "reporting"}
  /\ overlap \in BOOLEAN /\ trouble \in 0..MaxTrouble

\* "Manual work is honest while pending": a run that says pending has not one
\* result a tester gave, whatever stale sets of results were written back.
PendingIsUntouched == status = "pending" => With(results, Verdicts) = {}

\* "Cannot finalize: required step(s) ... are unreviewed": a run that was
\* finalized has a verdict for every required step, whichever DELETE, report,
\* finalize or failure came in between; only two requests that both wrote
\* results can take a verdict back.
FinishedIsReviewed ==
  status \in {"completed", "failed"} /\ ~overlap => \A s \in Required : results[s] \in Verdicts

\* The confirmation evidence of a step says what its result says once the
\* requests that wrote them have ended undisturbed and one after the other.
EvidenceFollowsResult ==
  ~overlap /\ trouble = 0 /\ (\A c \in Client : ~WritesResults(c)) =>
    \A s \in Step : evidence[s] # "none" => evidence[s] = results[s]

\* "Idempotent: returns existing report if one already exists for this run":
\* once there is a report, only a request that began before it adds another.
ReportIsFinal ==
  [][reports' # reports /\ reports # <<>> =>
       \E c \in Client : req[c].at = "reporting" /\ ~req[c].late]_manualVars

\* "the live run record and the generated report can never disagree": when the
\* run shows a verdict, so does every report of it, and it is the same.
RecordAndReportAgree ==
  RunVerdict # "none" => \A i \in DOMAIN reports : reports[i] = RunVerdict
=============================================================================
