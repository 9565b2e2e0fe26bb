-------------------------- MODULE ManualRunProofs --------------------------
(***************************************************************************)
(* Machine-checked proofs about ManualRun, for every set of steps and      *)
(* concurrent requests and every bound: type correctness, and what still   *)
(* holds of the row, the evidence and the reports although no request      *)
(* holds a lock from its read to its write.                                *)
(***************************************************************************)
EXTENDS ManualRun, TLAPS

\* What a request keeps of what it has read.
RequestState ==
  {Idle}
    \cup [at : {"creating", "deleting"}]
    \cup [at : {"recording"}, step : Step, verdict : Verdicts, status : Active \cup Finished,
          results : [Step -> Result]]
    \cup [at : {"confirming"}, step : Step, verdict : Verdicts]
    \cup [at : {"finalizing"}, status : {"failed", "completed"}]
    \cup [at : {"listing", "reporting"}, verdict : {"pending", "fail", "pass", "unclear"},
          late : BOOLEAN]

\* Before its INSERT a run is nobody's business.
NoneBefore ==
  status = "absent" => (\A s \in Step : results[s] = "missing") /\ \A c \in Client : req[c] = Idle

TypeInv == ManualTypeOK /\ req \in [Client -> RequestState] /\ NoneBefore

LEMMA VerdictType == ASSUME NEW res PROVE VerdictOf(res) \in {"pending", "fail", "pass", "unclear"}
BY DEF VerdictOf

LEMMA InitTypeInv == ManualInit => TypeInv
<1> SUFFICES ASSUME ManualInit PROVE TypeInv
  OBVIOUS
<1>1. ManualTypeOK
  <2>1. reports \in Seq({"pending", "fail", "pass", "unclear"}) BY DEF ManualInit
  <2>2. \A c \in Client : req[c].at = "idle" BY DEF ManualInit, Idle
  <2>3. overlap \in BOOLEAN BY Zenon DEF ManualInit
  <2>4. status = "absent" /\ trouble \in 0..MaxTrouble BY ManualRunAssumption DEF ManualInit
  <2>5. results \in [Step -> Result] BY DEF ManualInit, Result
  <2>6. evidence \in [Step -> {"none", "pending"} \cup Verdicts] BY DEF ManualInit
  <2> QED BY <2>1, <2>2, <2>3, <2>4, <2>5, <2>6 DEF ManualTypeOK
<1>2. Idle \in RequestState BY DEF RequestState
<1>3. req \in [Client -> RequestState] BY <1>2 DEF ManualInit
<1>4. NoneBefore BY DEF ManualInit, NoneBefore
<1> QED BY <1>1, <1>3, <1>4 DEF TypeInv

LEMMA NextTypeInv == TypeInv /\ [ManualNext]_manualVars => TypeInv'
<1> SUFFICES ASSUME TypeInv, [ManualNext]_manualVars PROVE TypeInv'
  OBVIOUS
<1> USE ManualRunAssumption
    DEF TypeInv, ManualTypeOK, RequestState, NoneBefore, Idle, Becomes, Works, Fails, runRow, Active,
        Finished, Result, Verdicts
<1>1. ASSUME NEW c \in Client, Request(c) PROVE TypeInv'
  <2>1. CASE CreateRun(c)      BY <2>1 DEF CreateRun
  <2>2. ASSUME NEW s \in Step, PlaceEvidence(c, s) PROVE TypeInv' BY <2>2 DEF PlaceEvidence
  <2>3. CASE FillResults(c)    BY <2>3 DEF FillResults
  <2>4. CASE RecordReads(c)
    <3>1. PICK s \in Step, v \in Verdicts :
            req' = [req EXCEPT ![c] = [at |-> "recording", step |-> s, verdict |-> v,
                                       status |-> status, results |-> results]]
      BY <2>4 DEF RecordReads
    <3>2. status # "absent" /\ overlap' \in BOOLEAN
          /\ UNCHANGED <<status, results, evidence, reports, trouble>>
      BY <2>4 DEF RecordReads
    <3>3. [at |-> "recording", step |-> s, verdict |-> v, status |-> status, results |-> results]
            \in RequestState
      BY <3>2
    <3>4. req' \in [Client -> RequestState] BY <3>1, <3>3
    <3> QED BY <3>1, <3>2, <3>4
  <2>5. CASE RecordWrites(c)   BY <2>5 DEF RecordWrites
  <2>6. CASE ConfirmEvidence(c)
    <3>1. req[c].at = "confirming" /\ req[c].step \in Step /\ req[c].verdict \in Verdicts
      BY <2>6 DEF ConfirmEvidence
    <3>2. evidence' \in [Step -> {"none", "pending"} \cup Verdicts]
      BY <2>6, <3>1 DEF ConfirmEvidence
    <3>3. /\ req' = [req EXCEPT ![c] = Idle]
          /\ trouble' \in 0..MaxTrouble
          /\ UNCHANGED <<runRow, reports, overlap>>
      BY <2>6 DEF ConfirmEvidence
    <3> QED BY <3>1, <3>2, <3>3
  <2>7. CASE FinalizeReads(c)  BY <2>7 DEF FinalizeReads, FinalStatus
  <2>8. CASE FinalizeWrites(c) BY <2>8 DEF FinalizeWrites
  <2>9. CASE DeleteReads(c)    BY <2>9 DEF DeleteReads
  <2>10. CASE DeleteWrites(c)  BY <2>10 DEF DeleteWrites
  <2>11. CASE ReportReads(c)
    <3>1. VerdictOf(results) \in {"pending", "fail", "pass", "unclear"} BY VerdictType
    <3>2. [at |-> "listing", verdict |-> VerdictOf(results), late |-> reports # <<>>] \in RequestState
      BY <3>1
    <3> QED BY <2>11, <3>2 DEF ReportReads
  <2>12. CASE ReportLists(c)   BY <2>12 DEF ReportLists
  <2>13. CASE ReportWrites(c)
    <3>1. req[c].at = "reporting" /\ req[c].verdict \in {"pending", "fail", "pass", "unclear"}
      BY <2>13 DEF ReportWrites
    <3>2. reports' \in Seq({"pending", "fail", "pass", "unclear"})
      <4>1. Append(reports, req[c].verdict) \in Seq({"pending", "fail", "pass", "unclear"})
        BY <3>1
      <4>2. reports' = reports \/ reports' = Append(reports, req[c].verdict)
        BY <2>13, Zenon DEF ReportWrites
      <4> QED BY <4>1, <4>2
    <3>3. /\ req' = [req EXCEPT ![c] = Idle]
          /\ trouble' \in 0..MaxTrouble
          /\ UNCHANGED <<runRow, evidence, overlap>>
      BY <2>13 DEF ReportWrites
    <3> QED BY <3>1, <3>2, <3>3
  <2> QED BY <1>1, <2>1, <2>2, <2>3, <2>4, <2>5, <2>6, <2>7, <2>8, <2>9, <2>10, <2>11, <2>12,
             <2>13 DEF Request
<1>2. CASE Restart BY <1>2 DEF Restart
<1>3. CASE UNCHANGED manualVars BY <1>3 DEF manualVars
<1> QED BY <1>1, <1>2, <1>3 DEF ManualNext

\* Every variable keeps its type, however requests, failures and restarts meet.
THEOREM TypeCorrect == ManualSpec => []ManualTypeOK
<1>1. TypeInv => ManualTypeOK BY DEF TypeInv
<1> QED BY InitTypeInv, NextTypeInv, <1>1, PTL DEF ManualSpec

-----------------------------------------------------------------------------
AllReviewed == \A s \in Required : results[s] \in Verdicts

\* Until two requests that write results overlap there is one such request at
\* most, and the row is still the one it has read.
WritersInv ==
  ~overlap =>
    /\ \A c, d \in Client : WritesResults(c) /\ WritesResults(d) => c = d
    /\ \A c \in Client : req[c].at = "creating" => \A s \in Step : results[s] = "missing"
    /\ \A c \in Client : req[c].at = "recording" => req[c].results = results

PendingInv == status = "pending" => \A s \in Step : results[s] \notin Verdicts

\* A finalize that has passed its check, and a record that will put back the
\* status of a finalized run, hold on to a run that is reviewed.
ReviewInv ==
  ~overlap =>
    /\ status \in {"completed", "failed"} => AllReviewed
    /\ \A c \in Client :
         \/ req[c].at = "finalizing"
         \/ req[c].at = "recording" /\ req[c].status \in {"completed", "failed"}
         => AllReviewed

\* The evidence of a step lags behind its result only while the request that
\* wrote the result is on its way to it.
EvidenceInv ==
  /\ status = "absent" => \A s \in Step : evidence[s] = "none"
  /\ ~overlap /\ trouble = 0 =>
       /\ \A c \in Client : req[c].at = "creating" => \A s \in Step : evidence[s] \in {"none", "pending"}
       /\ \A c \in Client : req[c].at = "confirming" => results[req[c].step] = req[c].verdict
       /\ \A s \in Step :
            evidence[s] # "none" =>
              \/ evidence[s] = results[s]
              \/ \E c \in Client : req[c].at = "creating"
              \/ \E c \in Client : req[c].at = "confirming" /\ req[c].step = s

\* Whoever goes on to write a report had looked for one before there was any.
ReportInv ==
  \A c \in Client :
    /\ req[c].at = "listing" /\ req[c].late => reports # <<>>
    /\ req[c].at = "reporting" => ~req[c].late

IInv == TypeInv /\ WritersInv /\ PendingInv /\ ReviewInv /\ EvidenceInv /\ ReportInv

LEMMA StateFacts ==
  ASSUME TypeInv, NEW c \in Client
  PROVE  /\ req[c].at = "recording" =>
              /\ req[c].step \in Step /\ req[c].verdict \in Verdicts
              /\ req[c].status \in Active \cup Finished /\ req[c].results \in [Step -> Result]
         /\ req[c].at = "confirming" => req[c].step \in Step /\ req[c].verdict \in Verdicts
         /\ req[c].at = "finalizing" => req[c].status \in {"failed", "completed"}
BY DEF TypeInv, RequestState, Idle

LEMMA InitIInv == ManualInit => IInv
<1> SUFFICES ASSUME ManualInit PROVE IInv
  OBVIOUS
<1>1. TypeInv BY InitTypeInv
<1>2. \A c \in Client : req[c].at = "idle" BY DEF ManualInit, Idle
<1> QED
  BY <1>1, <1>2
     DEF ManualInit, IInv, WritersInv, PendingInv, ReviewInv, EvidenceInv, ReportInv, WritesResults, Verdicts

\* Every step of a request keeps what is said of the others.
LEMMA RequestIInv ==
  ASSUME IInv, NEW c \in Client, Request(c)
  PROVE  WritersInv' /\ PendingInv' /\ ReviewInv' /\ EvidenceInv' /\ ReportInv'
<1> USE ManualRunAssumption
    DEF IInv, WritersInv, PendingInv, ReviewInv, EvidenceInv, ReportInv, AllReviewed, WritesResults,
        Idle, Becomes, Works, Fails, runRow, Active, Finished, Result, Verdicts
<1>0. /\ status \in {"absent"} \cup Active \cup Finished /\ results \in [Step -> Result]
      /\ evidence \in [Step -> {"none", "pending"} \cup Verdicts]
      /\ \E S : req \in [Client -> S]
      /\ overlap \in BOOLEAN /\ trouble \in Nat /\ NoneBefore
  <2>1. ManualTypeOK /\ NoneBefore BY DEF TypeInv
  <2>2. \E S : req \in [Client -> S] BY Zenon DEF TypeInv
  <2>3. overlap \in BOOLEAN BY <2>1, Zenon DEF ManualTypeOK
  <2>4. trouble \in Nat BY <2>1 DEF ManualTypeOK
  <2>5. /\ status \in {"absent"} \cup Active \cup Finished
        /\ results \in [Step -> Result]
        /\ evidence \in [Step -> {"none", "pending"} \cup Verdicts]
    BY <2>1, Zenon DEF ManualTypeOK
  <2> QED BY <2>1, <2>2, <2>3, <2>4, <2>5
<1>1. CASE CreateRun(c)
  BY <1>0, <1>1 DEF CreateRun, NoneBefore
<1>2. ASSUME NEW s \in Step, PlaceEvidence(c, s)
      PROVE  WritersInv' /\ PendingInv' /\ ReviewInv' /\ EvidenceInv' /\ ReportInv'
  <2>1. req[c].at = "creating" /\ UNCHANGED <<status, results, reports, overlap>>
    BY <1>2 DEF PlaceEvidence
  <2>2. CASE evidence' = [evidence EXCEPT ![s] = "pending"] /\ UNCHANGED <<req, trouble>>
    <3>1. WritersInv' /\ PendingInv' /\ ReviewInv' /\ ReportInv' BY <2>1, <2>2
    <3>2. EvidenceInv' BY <1>0, <2>1, <2>2 DEF NoneBefore
    <3> QED BY <3>1, <3>2
  <2>3. CASE Fails(c) /\ UNCHANGED evidence
    BY <1>0, <2>1, <2>3 DEF NoneBefore
  <2> QED BY <1>2, <2>2, <2>3 DEF PlaceEvidence
<1>3. CASE FillResults(c)
  BY <1>0, <1>3 DEF FillResults
<1>4. CASE RecordReads(c)
  <2> DEFINE Recording(s, v) == [at |-> "recording", step |-> s, verdict |-> v, status |-> status,
                                 results |-> results]
  <2>1. PICK s \in Step, v \in Verdicts : req' = [req EXCEPT ![c] = Recording(s, v)]
    BY <1>4 DEF RecordReads
  <2>2. /\ req[c].at = "idle" /\ status # "absent"
        /\ overlap' = (overlap \/ \E d \in Client : WritesResults(d))
        /\ UNCHANGED <<status, results, evidence, reports, trouble>>
    BY <1>4 DEF RecordReads
  <2>3. req'[c] = Recording(s, v) /\ \A d \in Client \ {c} : req'[d] = req[d]
    BY <1>0, <2>1
  <2>4. req'[c].at = "recording" /\ req'[c].status = status /\ req'[c].results = results
    BY <2>3
  <2> HIDE DEF Recording
  <2>5. ~overlap' => ~overlap /\ \A d \in Client : ~WritesResults(d) BY <1>0, <2>2
  <2>6. WritersInv' BY <2>2, <2>3, <2>4, <2>5
  <2>7. ReviewInv' BY <2>2, <2>3, <2>4, <2>5
  <2>8. EvidenceInv' BY <2>2, <2>3, <2>4, <2>5
  <2>9. PendingInv' /\ ReportInv' BY <2>2, <2>3, <2>4
  <2> QED BY <2>6, <2>7, <2>8, <2>9
<1>5. CASE RecordWrites(c)
  BY <1>0, <1>5, StateFacts DEF RecordWrites
<1>6. CASE ConfirmEvidence(c)
  BY <1>0, <1>6, StateFacts DEF ConfirmEvidence
<1>7. CASE FinalizeReads(c)
  BY <1>0, <1>7 DEF FinalizeReads, FinalStatus, Reviewed
<1>8. CASE FinalizeWrites(c)
  BY <1>0, <1>8, StateFacts DEF FinalizeWrites
<1>9. CASE DeleteReads(c)
  BY <1>0, <1>9 DEF DeleteReads
<1>10. CASE DeleteWrites(c)
  BY <1>0, <1>10 DEF DeleteWrites
<1>11. CASE ReportReads(c)
  <2> DEFINE Listing == [at |-> "listing", verdict |-> VerdictOf(results), late |-> reports # <<>>]
  <2>1. /\ req' = [req EXCEPT ![c] = Listing] /\ req[c].at = "idle"
        /\ UNCHANGED <<status, results, evidence, reports, overlap, trouble>>
    BY <1>11 DEF ReportReads
  <2>2. req'[c] = Listing /\ \A d \in Client \ {c} : req'[d] = req[d] BY <1>0, <2>1
  <2>3. Listing.at = "listing" OBVIOUS
  <2>4. Listing.late = (reports # <<>>) BY Zenon
  <2> HIDE DEF Listing
  <2>5. req'[c].at = "listing" /\ (req'[c].late => reports # <<>>) BY <2>2, <2>3, <2>4
  <2> QED BY <2>1, <2>2, <2>5
<1>12. CASE ReportLists(c)
  BY <1>0, <1>12 DEF ReportLists
<1>13. CASE ReportWrites(c)
  <2>1. /\ req[c].at = "reporting" /\ req' = [req EXCEPT ![c] = Idle]
        /\ UNCHANGED <<status, results, evidence, overlap>>
    BY <1>13 DEF ReportWrites
  <2>2. req'[c].at = "idle" /\ \A d \in Client \ {c} : req'[d] = req[d] BY <1>0, <2>1
  <2>3. reports' = reports \/ reports' # <<>> BY <1>13 DEF ReportWrites
  <2>4. trouble' = 0 => trouble = 0 BY <1>0, <1>13 DEF ReportWrites
  <2> QED BY <2>1, <2>2, <2>3, <2>4
<1> QED BY <1>1, <1>2, <1>3, <1>4, <1>5, <1>6, <1>7, <1>8, <1>9, <1>10, <1>11, <1>12, <1>13 DEF Request

LEMMA NextIInv == IInv /\ [ManualNext]_manualVars => IInv'
<1> SUFFICES ASSUME IInv, [ManualNext]_manualVars PROVE IInv'
  OBVIOUS
<1>1. TypeInv' BY NextTypeInv DEF IInv
<1>2. CASE \E c \in Client : Request(c) BY <1>1, <1>2, RequestIInv DEF IInv
<1>3. CASE Restart
  <2>1. /\ \A c \in Client : req'[c].at = "idle"
        /\ trouble' # 0 /\ UNCHANGED <<status, results, evidence, reports, overlap>>
    BY <1>3 DEF Restart, Idle, runRow, IInv, TypeInv, ManualTypeOK
  <2> QED
    BY <1>1, <2>1
       DEF IInv, WritersInv, PendingInv, ReviewInv, EvidenceInv, ReportInv, AllReviewed, WritesResults
<1>4. CASE UNCHANGED manualVars
  BY <1>1, <1>4
     DEF manualVars, runRow, IInv, WritersInv, PendingInv, ReviewInv, EvidenceInv, ReportInv, AllReviewed,
         WritesResults
<1> QED BY <1>2, <1>3, <1>4 DEF ManualNext

LEMMA Invariance == ManualSpec => []IInv
BY InitIInv, NextIInv, PTL DEF ManualSpec

-----------------------------------------------------------------------------
\* A run that says "pending" has no result a tester gave.
THEOREM PendingIsUntouchedHolds == ManualSpec => []PendingIsUntouched
<1>1. IInv => PendingIsUntouched BY DEF IInv, PendingInv, PendingIsUntouched, With
<1> QED BY Invariance, <1>1, PTL

\* A finalized run has a verdict for every required step, unless two requests
\* that write results overlapped.
THEOREM FinishedIsReviewedHolds == ManualSpec => []FinishedIsReviewed
<1>1. IInv => FinishedIsReviewed BY DEF IInv, ReviewInv, AllReviewed, FinishedIsReviewed
<1> QED BY Invariance, <1>1, PTL

\* Undisturbed and one after the other, the requests that record results leave
\* each step's evidence with the verdict of its result.
THEOREM EvidenceFollowsResultHolds == ManualSpec => []EvidenceFollowsResult
<1>1. IInv => EvidenceFollowsResult BY DEF IInv, EvidenceInv, EvidenceFollowsResult, WritesResults
<1> QED BY Invariance, <1>1, PTL

\* Once a run has a report, only a request that began before it adds another.
LEMMA ReportIsFinalStep ==
  IInv /\ [ManualNext]_manualVars =>
    (reports' # reports /\ reports # <<>> => \E c \in Client : req[c].at = "reporting" /\ ~req[c].late)
<1> SUFFICES ASSUME IInv, [ManualNext]_manualVars, reports' # reports
             PROVE  \E c \in Client : req[c].at = "reporting" /\ ~req[c].late
  OBVIOUS
<1>1. PICK c \in Client : ReportWrites(c)
  BY DEF ManualNext, Request, CreateRun, PlaceEvidence, FillResults, RecordReads, RecordWrites,
         ConfirmEvidence, FinalizeReads, FinalizeWrites, DeleteReads, DeleteWrites, ReportReads,
         ReportLists, Restart, manualVars
<1> QED BY <1>1 DEF ReportWrites, IInv, ReportInv

\* Once a run has a report, only requests that began before it add another.
THEOREM ReportIsFinalHolds == ManualSpec => ReportIsFinal
<1>1. IInv /\ [ManualNext]_manualVars =>
        [reports' # reports /\ reports # <<>> =>
           \E c \in Client : req[c].at = "reporting" /\ ~req[c].late]_manualVars
  BY ReportIsFinalStep
<1> QED BY Invariance, <1>1, PTL DEF ManualSpec, ReportIsFinal

=============================================================================
