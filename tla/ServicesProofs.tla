--------------------------- MODULE ServicesProofs ---------------------------
(***************************************************************************)
(* Machine-checked proofs about the services around the runs: the          *)
(* execution of steps, visual baselines, the routing of model calls, the   *)
(* health of a model and audits; for every value of their constants.       *)
(***************************************************************************)
EXTENDS Services, AuditWorkflow, EventStreamProofs, FiniteSetTheorems, TLAPS

(* Steps *)

\* What the thread's place tells of the step it is at.
PlaceInv ==
  /\ at \notin {"loop", "finish", "ended"} => executed < MaxPlan
  /\ at \in {"prepare", "preload"} => step.kind \in Browser
  /\ at = "preload" \/ (at \in {"act", "judge", "evidence", "record"} /\ step.kind \in Browser)
       => previousCase = step.case
  /\ at \in {"loop", "prepare", "preload", "act"} => ~result.raised

\* A context is touched only by steps of the case it was last prepared for.
IsolationInv ==
  /\ touched \subseteq {previousCase}
  /\ at \in {"preload", "act"} /\ step.kind \in Browser =>
       /\ touched \subseteq (IF continuous THEN {step.case} \ {NoCase} ELSE {})
       /\ flow => continuous

\* An error is overruled by a security step's findings only.
ErrorInv == result.raised /\ (step.kind # "security" \/ at = "judge") => result.status = "error"

StepInv == StepTypeOK /\ PlaceInv /\ IsolationInv /\ ErrorInv

LEMMA OutcomeFacts ==
  /\ \A s \in Statuses : /\ Outcome(s) \in Results
                         /\ Outcome(s).status = s /\ ~Outcome(s).raised
  /\ Raised \in Results /\ Raised.status = "error" /\ Raised.raised
<1>1. 0 \in 0..MaxPlan BY StepExecutionAssumption
<1>2. ASSUME NEW s \in Statuses
      PROVE Outcome(s) \in Results /\ Outcome(s).status = s /\ Outcome(s).raised = FALSE
  BY <1>1 DEF Outcome, Results
<1>3. Raised = [status |-> "error", raised |-> TRUE] BY DEF Raised
<1>4. Raised \in Results BY <1>1, <1>3 DEF Results, Statuses
<1> QED BY <1>2, <1>3, <1>4

LEMMA NoStepFacts == NoStep \in Steps /\ NoStep.kind = "dry"
BY DEF NoStep, Steps, Kind

LEMMA StepInitInv == StepInit => StepInv
<1> SUFFICES ASSUME StepInit PROVE StepInv
  OBVIOUS
<1> USE DEF StepInit
<1>1. continuous \in BOOLEAN /\ hasUrl \in BOOLEAN /\ cancelSet \in BOOLEAN /\ flow \in BOOLEAN /\ failures \in BOOLEAN
      /\ responded \in BOOLEAN
  BY Zenon
<1>2. result \in Results /\ result.status = "passed" /\ ~result.raised
  BY OutcomeFacts DEF Statuses
<1>3. StepTypeOK BY <1>1, <1>2, StepExecutionAssumption, NoStepFacts DEF StepTypeOK
<1>4. PlaceInv /\ IsolationInv /\ ErrorInv
  BY <1>2, StepExecutionAssumption, NoStepFacts DEF PlaceInv, IsolationInv, ErrorInv, Browser
<1> QED BY <1>3, <1>4 DEF StepInv

LEMMA StepTypeStep == StepInv /\ [StepNext]_stepVars => StepTypeOK' /\ PlaceInv'
<1> SUFFICES ASSUME StepInv, [StepNext]_stepVars PROVE StepTypeOK' /\ PlaceInv'
  OBVIOUS
<1> USE StepExecutionAssumption, OutcomeFacts, NoStepFacts
    DEF StepInv, StepTypeOK, PlaceInv, engineVars, Browser, Api, Kind
<1>1. CASE SetCancel BY <1>1 DEF SetCancel
<1>2. ASSUME NEW s \in Steps, BeginStep(s) PROVE StepTypeOK' /\ PlaceInv' BY <1>2 DEF BeginStep, Steps
<1>3. CASE PrepareBrowser
  <2>1. /\ at = "prepare" /\ step.kind \in Browser /\ executed < MaxPlan
        /\ previousCase' = step.case /\ previousCase' \in Case \cup {NoCase}
        /\ UNCHANGED <<continuous, hasUrl, cancelSet, step, responded, executed, failures, conclusion, troubled>>
    BY <1>3 DEF PrepareBrowser, Steps
  <2>2. browser' \in {"none", "up"} /\ flow' \in BOOLEAN
    BY <1>3 DEF PrepareBrowser
  <2>3. page' \in {"none", "blank", "loaded", "gone"} /\ touched' \subseteq Case \cup {NoCase}
    BY <1>3 DEF PrepareBrowser, FreshContext, ResetContext
  <2>4. (at' = "preload" /\ result' = result) \/ (at' = "record" /\ result' = Outcome("error"))
    BY <1>3 DEF PrepareBrowser, ResetContext, Prepared, Unprepared
  <2>5. result' \in Results BY <2>4 DEF Statuses
  <2> QED BY <2>1, <2>2, <2>3, <2>4, <2>5
<1>4. CASE Preload BY <1>4 DEF Preload, Steps
<1>5. CASE ActInBrowser BY <1>5 DEF ActInBrowser, Steps, Statuses
<1>6. CASE SendRequest
  <2>1. responded' \in BOOLEAN BY <1>6, Zenon DEF SendRequest
  <2> QED BY <1>6, <2>1 DEF SendRequest, Statuses
<1>7. CASE AssertResponse BY <1>7 DEF AssertResponse, Statuses, Results
<1>8. CASE ActWithoutEngine BY <1>8 DEF ActWithoutEngine, Statuses
<1>9. CASE Judge BY <1>9 DEF Judge, Judgements, Results, Statuses
<1>10. CASE StoreEvidence BY <1>10 DEF StoreEvidence
<1>11. ASSUME NEW o \in BOOLEAN, RecordStep(o) PROVE StepTypeOK' /\ PlaceInv'
  BY <1>11 DEF RecordStep, Statuses, Steps
<1>12. CASE Conclude BY <1>12 DEF Conclude
<1>13. CASE UNCHANGED stepVars BY <1>13 DEF stepVars
<1> QED BY <1>1, <1>2, <1>3, <1>4, <1>5, <1>6, <1>7, <1>8, <1>9, <1>10, <1>11, <1>12, <1>13
        DEF StepNext, RunOver

LEMMA IsolationStep == StepInv /\ [StepNext]_stepVars => IsolationInv' /\ ErrorInv'
<1> SUFFICES ASSUME StepInv, [StepNext]_stepVars PROVE IsolationInv' /\ ErrorInv'
  OBVIOUS
<1> USE StepExecutionAssumption, OutcomeFacts, NoStepFacts
    DEF StepInv, StepTypeOK, PlaceInv, IsolationInv, ErrorInv, engineVars, Browser, Api
<1>1. CASE SetCancel BY <1>1 DEF SetCancel
<1>2. ASSUME NEW s \in Steps, BeginStep(s) PROVE IsolationInv' /\ ErrorInv' BY <1>2 DEF BeginStep, Steps, Kind
<1>3. CASE PrepareBrowser
  BY <1>3 DEF PrepareBrowser, ContinuesFlow, FreshContext, ResetContext, Prepared, Unprepared, Statuses
<1>4. CASE Preload BY <1>4 DEF Preload
<1>5. CASE ActInBrowser BY <1>5 DEF ActInBrowser, Statuses
<1>6. CASE SendRequest BY <1>6 DEF SendRequest, Statuses
<1>7. CASE AssertResponse BY <1>7 DEF AssertResponse, Statuses
<1>8. CASE ActWithoutEngine BY <1>8 DEF ActWithoutEngine, Statuses
<1>9. CASE Judge BY <1>9 DEF Judge, Judgements, Results
<1>10. CASE StoreEvidence BY <1>10 DEF StoreEvidence
<1>11. ASSUME NEW o \in BOOLEAN, RecordStep(o) PROVE IsolationInv' /\ ErrorInv'
  BY <1>11 DEF RecordStep, Statuses
<1>12. CASE Conclude BY <1>12 DEF Conclude
<1>13. CASE UNCHANGED stepVars BY <1>13 DEF stepVars
<1> QED BY <1>1, <1>2, <1>3, <1>4, <1>5, <1>6, <1>7, <1>8, <1>9, <1>10, <1>11, <1>12, <1>13
        DEF StepNext, RunOver

LEMMA StepInvariance == StepSpec => []StepInv
<1>1. StepInv /\ [StepNext]_stepVars => StepInv' BY StepTypeStep, IsolationStep DEF StepInv
<1> QED BY StepInitInv, <1>1, PTL DEF StepSpec

\* Whatever failed before, a browser step acts in a context that no step of
\* another case has touched, and none at all unless the run is continuous.
THEOREM StepsAreIsolatedHolds == StepSpec => []StepsAreIsolated
<1>1. StepInv => StepsAreIsolated BY DEF StepInv, IsolationInv, StepsAreIsolated, Acting
<1> QED BY StepInvariance, <1>1, PTL

\* An attempt that ended in an exception stays an error, but for security steps.
THEOREM ErrorIsKeptHolds == StepSpec => []ErrorIsKept
<1>1. StepInv => ErrorIsKept BY DEF StepInv, ErrorInv, ErrorIsKept
<1> QED BY StepInvariance, <1>1, PTL

\* Where the target has a URL, a case whose last browser step left no page, or
\* no browser, has a failed step.
BlankInv ==
  /\ at \in {"loop", "prepare"} \/ (step.kind \notin Browser /\ at \in {"act", "judge", "evidence", "record"}) =>
       /\ hasUrl /\ page = "blank" => previousCase \in troubled
       /\ browser = "none" => previousCase \in troubled \cup {NoCase}
  /\ at = "preload" => page \in {"blank", "loaded"} /\ (hasUrl /\ page = "blank" /\ flow => step.case \in troubled)
  /\ at = "preload" \/ (at \in {"act", "judge", "evidence"} /\ step.kind \in Browser) => browser = "up"
  /\ at = "act" /\ step.kind \in Browser =>
       /\ page \in {"blank", "loaded"}
       /\ hasUrl /\ page = "blank" /\ step.kind # "navigate" => flow /\ step.case \in troubled
  /\ at \in {"judge", "evidence"} /\ step.kind \in Browser /\ hasUrl /\ page = "blank" =>
       step.case \in troubled \/ (step.kind = "navigate" /\ result.status \in {"failed", "error"})
  /\ at = "record" /\ step.kind \in Browser =>
       /\ hasUrl /\ page = "blank" => step.case \in troubled \/ cancelSet \/ result.status \in {"failed", "error"}
       /\ browser = "none" => result.status = "error"

LEMMA BlankStep == StepInv /\ BlankInv /\ [StepNext]_stepVars => BlankInv'
<1> SUFFICES ASSUME StepInv, BlankInv, [StepNext]_stepVars PROVE BlankInv'
  OBVIOUS
<1> USE StepExecutionAssumption, OutcomeFacts, NoStepFacts
    DEF StepInv, StepTypeOK, PlaceInv, BlankInv, engineVars, Browser, Api
<1>1. CASE SetCancel BY <1>1 DEF SetCancel
<1>2. ASSUME NEW s \in Steps, BeginStep(s) PROVE BlankInv' BY <1>2 DEF BeginStep, Steps, Kind
<1>3. CASE PrepareBrowser
  <2> /\ at = "prepare" /\ step.kind \in Browser /\ previousCase' = step.case
      /\ UNCHANGED <<hasUrl, step, troubled, cancelSet>>
    BY <1>3 DEF PrepareBrowser
  <2>1. CASE at' = "record" /\ result' = Outcome("error") BY <2>1 DEF Statuses
  <2>2. CASE at' = "preload" /\ browser' = "up" /\ page' = "blank" /\ flow' = FALSE BY <2>2
  <2>3. CASE browser = "none" /\ at' = "preload" /\ browser' = "up" /\ ContinuesFlow /\ page' = "blank"
    BY <2>3 DEF ContinuesFlow
  <2>4. CASE at' = "preload" /\ browser = "up" /\ ContinuesFlow /\ page \notin {"none", "gone"}
             /\ UNCHANGED <<browser, page>>
    BY <2>4 DEF ContinuesFlow
  <2> QED BY <1>3, <2>1, <2>2, <2>3, <2>4
          DEF PrepareBrowser, FreshContext, ResetContext, Prepared, Unprepared
<1>4. CASE Preload BY <1>4 DEF Preload
<1>5. CASE ActInBrowser BY <1>5 DEF ActInBrowser, Statuses
<1>6. CASE SendRequest BY <1>6 DEF SendRequest
<1>7. CASE AssertResponse BY <1>7 DEF AssertResponse
<1>8. CASE ActWithoutEngine BY <1>8 DEF ActWithoutEngine, Statuses
<1>9. CASE Judge BY <1>9 DEF Judge, Judgements, Results
<1>10. CASE StoreEvidence BY <1>10 DEF StoreEvidence
<1>11. ASSUME NEW o \in BOOLEAN, RecordStep(o) PROVE BlankInv'
  BY <1>11 DEF RecordStep
<1>12. CASE Conclude BY <1>12 DEF Conclude
<1>13. CASE UNCHANGED stepVars BY <1>13 DEF stepVars
<1> QED BY <1>1, <1>2, <1>3, <1>4, <1>5, <1>6, <1>7, <1>8, <1>9, <1>10, <1>11, <1>12, <1>13
        DEF StepNext, RunOver

\* Where the target has a URL, a browser step acts on a page that was loaded,
\* unless it navigates or its case already has a failed step.
THEOREM BlankOnlyAfterFailureHolds == StepSpec => []BlankOnlyAfterFailure
<1>1. StepInit => BlankInv
  BY NoStepFacts DEF StepInit, BlankInv, Browser
<1>2. StepInv /\ BlankInv => BlankOnlyAfterFailure
  BY DEF StepInv, BlankInv, BlankOnlyAfterFailure, Acting
<1> QED BY StepInvariance, <1>1, BlankStep, <1>2, PTL DEF StepSpec
-----------------------------------------------------------------------------
(* Visual baselines *)

\* RemoveAt leaves a sequence of the same type.
LEMMA RemoveAtType ==
  ASSUME NEW T, NEW s \in Seq(T), NEW i \in DOMAIN s
  PROVE  RemoveAt(s, i) \in Seq(T)
<1>1. i \in 1..Len(s) /\ Len(s) \in Nat OBVIOUS
<1>2. SubSeq(s, 1, i - 1) \in Seq(T)
  <2>1. \A j \in 1..(i - 1) : s[j] \in T BY <1>1
  <2> QED BY <1>1, <2>1
<1>3. SubSeq(s, i + 1, Len(s)) \in Seq(T)
  <2>1. \A j \in (i + 1)..Len(s) : s[j] \in T BY <1>1
  <2> QED BY <1>1, <2>1
<1> QED BY <1>2, <1>3 DEF RemoveAt

DeleteInv == \A o \in Operation : opc[o] = "delete" => seen[o] # NoImage /\ doing[o] \in {"capture", "register"}
BaselineInv == BaselineTypeOK /\ DeleteInv

LEMMA BaselineInitInv == BaselineInit => BaselineInv
<1> SUFFICES ASSUME BaselineInit PROVE BaselineInv
  OBVIOUS
<1>1. baselines \in Seq(Image)
  <2>1. CASE latest = NoImage BY <2>1 DEF BaselineInit
  <2>2. CASE latest = Earlier
    <3>1. Earlier \in Image BY DEF Image
    <3>2. baselines = <<Earlier>> BY <2>2, VisualBaselineAssumption DEF BaselineInit
    <3> QED BY <3>1, <3>2
  <2> QED BY <2>1, <2>2 DEF BaselineInit
<1>2. disturbed \in BOOLEAN BY Zenon DEF BaselineInit
<1> QED BY <1>1, <1>2, VisualBaselineAssumption
        DEF BaselineInit, BaselineInv, BaselineTypeOK, DeleteInv, Image, Operations

LEMMA BaselineInvStep == BaselineInv /\ [BaselineNext]_baselineVars => BaselineInv'
<1> SUFFICES ASSUME BaselineInv, [BaselineNext]_baselineVars PROVE BaselineInv'
  OBVIOUS
<1> USE VisualBaselineAssumption DEF BaselineInv, BaselineTypeOK, DeleteInv, Go, Image
<1>1. ASSUME NEW o \in Operation, NEW kind \in Operations, ReadBaseline(o, kind) PROVE BaselineInv'
  <2>1. baselines # <<>> => Head(baselines) \in Image OBVIOUS
  <2>2. seen' \in [Operation -> Image \cup {NoImage}] BY <1>1, <2>1 DEF ReadBaseline
  <2>3. disturbed' \in BOOLEAN BY <1>1, Zenon DEF ReadBaseline
  <2>4. doing' \in [Operation -> Operations \cup {"none"}] BY <1>1 DEF ReadBaseline
  <2>5. opc' \in [Operation -> {"away", "open", "fill", "delete", "insert", "judge", "done", "failed"}]
    BY <1>1 DEF ReadBaseline
  <2>6. DeleteInv'
    BY <1>1, <2>2, <2>4 DEF ReadBaseline, Operations
  <2> QED BY <1>1, <2>2, <2>3, <2>4, <2>5, <2>6 DEF ReadBaseline
<1>2. ASSUME NEW o \in Operation, OpenFile(o) PROVE BaselineInv' BY <1>2 DEF OpenFile
<1>3. ASSUME NEW o \in Operation, FillFile(o) PROVE BaselineInv' BY <1>3 DEF FillFile
<1>4. ASSUME NEW o \in Operation, DeleteRow(o) PROVE BaselineInv'
  <2>1. baselines' \in Seq(Image) BY <1>4, RemoveAtType DEF DeleteRow
  <2> QED BY <1>4, <2>1 DEF DeleteRow
<1>5. ASSUME NEW o \in Operation, InsertRow(o) PROVE BaselineInv' BY <1>5 DEF InsertRow
<1>6. ASSUME NEW o \in Operation, JudgeImage(o) PROVE BaselineInv' BY <1>6 DEF JudgeImage
<1>7. ASSUME NEW o \in Operation, FailOperation(o) PROVE BaselineInv' BY <1>7 DEF FailOperation
<1>8. CASE UNCHANGED baselineVars BY <1>8 DEF baselineVars
<1> QED BY <1>1, <1>2, <1>3, <1>4, <1>5, <1>6, <1>7, <1>8 DEF BaselineNext, BaselineStep, OperationsOver

LEMMA BaselineNotLostStep ==
  BaselineInv /\ BaselineNotLost /\ [BaselineNext]_baselineVars => BaselineNotLost'
<1> SUFFICES ASSUME BaselineInv, BaselineNotLost, [BaselineNext]_baselineVars,
                    latest' # NoImage, baselines' = <<>>
             PROVE  \E o \in Operation : Replacing(o)'
  BY DEF BaselineNotLost
<1> USE VisualBaselineAssumption DEF BaselineInv, BaselineTypeOK, DeleteInv, Go, Replacing
<1>1. ASSUME NEW o \in Operation, NEW kind \in Operations, ReadBaseline(o, kind)
      PROVE  \E p \in Operation : Replacing(p)'
  BY <1>1 DEF ReadBaseline, BaselineNotLost
<1>2. ASSUME NEW o \in Operation, OpenFile(o) PROVE \E p \in Operation : Replacing(p)'
  BY <1>2 DEF OpenFile, BaselineNotLost
<1>3. ASSUME NEW o \in Operation, FillFile(o) PROVE \E p \in Operation : Replacing(p)'
  BY <1>3 DEF FillFile, BaselineNotLost
<1>4. ASSUME NEW o \in Operation, DeleteRow(o) PROVE \E p \in Operation : Replacing(p)'
  BY <1>4 DEF DeleteRow
<1>5. ASSUME NEW o \in Operation, InsertRow(o) PROVE FALSE
  BY <1>5 DEF InsertRow
<1>6. ASSUME NEW o \in Operation, JudgeImage(o) PROVE \E p \in Operation : Replacing(p)'
  BY <1>6 DEF JudgeImage, BaselineNotLost
<1>7. ASSUME NEW o \in Operation, FailOperation(o) PROVE \E p \in Operation : Replacing(p)'
  BY <1>7 DEF FailOperation, BaselineNotLost
<1>8. CASE UNCHANGED baselineVars BY <1>8 DEF baselineVars, BaselineNotLost
<1> QED BY <1>1, <1>2, <1>3, <1>4, <1>5, <1>6, <1>7, <1>8 DEF BaselineNext, BaselineStep, OperationsOver

\* However captures, comparisons and registrations overlap and fail, an
\* approved image is missing only where one of them took it away.
THEOREM BaselineNotLostHolds == BaselineSpec => []BaselineNotLost
<1>1. BaselineInit => BaselineNotLost BY DEF BaselineInit, BaselineNotLost
<1> QED BY BaselineInitInv, BaselineInvStep, <1>1, BaselineNotLostStep, PTL DEF BaselineSpec
Approved == IF latest = NoImage THEN <<>> ELSE <<latest>>

\* Undisturbed, one operation is under way at a time, and row and file are
\* where its place says they are.
KeptInv ==
  ~disturbed =>
    /\ \A o, p \in Operation : Under(o) /\ Under(p) => o = p
    /\ (\A o \in Operation : ~Writing(o)) => imageFile = latest /\ baselines = Approved
    /\ \A o \in Operation : Writing(o) =>
         /\ seen[o] = latest
         /\ doing[o] = "register" \/ doing[o] = "capture" \/ latest = NoImage
    /\ \A o \in Operation : opc[o] \in {"open", "fill"} =>
         baselines = (IF doing[o] = "register" THEN <<>> ELSE Approved)
    /\ \A o \in Operation : opc[o] = "delete" =>
         baselines = Approved /\ (doing[o] = "capture" => imageFile = o)
    /\ \A o \in Operation : opc[o] = "insert" => imageFile = o /\ baselines = <<>>

\* Nothing is left of a sequence of one when it is removed.
LEMMA RemoveOnly == ASSUME NEW x PROVE RemoveAt(<<x>>, 1) = <<>>
<1>1. SubSeq(<<x>>, 1, 0) = <<>> /\ SubSeq(<<x>>, 2, 1) = <<>> OBVIOUS
<1>2. Len(<<x>>) = 1 OBVIOUS
<1> QED BY <1>1, <1>2 DEF RemoveAt

LEMMA KeptStep == BaselineInv /\ KeptInv /\ [BaselineNext]_baselineVars => KeptInv'
<1> SUFFICES ASSUME BaselineInv, KeptInv, [BaselineNext]_baselineVars PROVE KeptInv'
  OBVIOUS
<1> USE VisualBaselineAssumption DEF BaselineInv, BaselineTypeOK, DeleteInv, Go, Under, Writing, KeptInv, Approved
<1>1. ASSUME NEW o \in Operation, NEW kind \in Operations, ReadBaseline(o, kind) PROVE KeptInv'
  <2> SUFFICES ASSUME ~disturbed' PROVE KeptInv'
    OBVIOUS
  <2>1. ~disturbed /\ \A p \in Operation : ~Under(p)
    BY <1>1, Zenon DEF ReadBaseline
  <2>2. imageFile = latest /\ baselines = Approved BY <2>1
  <2>3. (IF baselines = <<>> THEN NoImage ELSE Head(baselines)) = latest BY <2>2
  <2>4. seen'[o] = latest /\ UNCHANGED <<baselines, imageFile, latest>>
    BY <1>1, <2>3 DEF ReadBaseline
  <2>5. doing'[o] = kind /\ \A p \in Operation : p # o => opc'[p] = opc[p]
    BY <1>1 DEF ReadBaseline
  <2>6. opc'[o] = (IF kind = "register" /\ latest # NoImage THEN "delete"
                   ELSE IF kind \in {"capture", "register"} \/ (kind = "match" /\ latest = NoImage) THEN "open"
                   ELSE IF latest = NoImage THEN "done"
                   ELSE "judge")
    BY <1>1, <2>3 DEF ReadBaseline
  <2> QED BY <2>1, <2>2, <2>4, <2>5, <2>6
<1>2. ASSUME NEW o \in Operation, OpenFile(o) PROVE KeptInv' BY <1>2 DEF OpenFile
<1>3. ASSUME NEW o \in Operation, FillFile(o) PROVE KeptInv' BY <1>3 DEF FillFile
<1>4. ASSUME NEW o \in Operation, DeleteRow(o) PROVE KeptInv'
  <2> SUFFICES ASSUME ~disturbed PROVE KeptInv'
    BY <1>4 DEF DeleteRow
  <2>1. baselines = <<latest>> /\ seen[o] = latest BY <1>4 DEF DeleteRow
  <2>2. baselines' = <<>>
    <3>1. DOMAIN <<latest>> = {1} /\ <<latest>>[1] = latest OBVIOUS
    <3> QED BY <1>4, <2>1, <3>1, RemoveOnly DEF DeleteRow
  <2> QED BY <1>4, <2>1, <2>2 DEF DeleteRow
<1>5. ASSUME NEW o \in Operation, InsertRow(o) PROVE KeptInv'
  <2> SUFFICES ASSUME ~disturbed PROVE KeptInv'
    BY <1>5 DEF InsertRow
  <2>1. baselines' = <<o>> /\ imageFile' = o /\ latest' = o
    <3>1. baselines = <<>> /\ imageFile = o BY <1>5 DEF InsertRow
    <3>2. Append(<<>>, o) = <<o>> OBVIOUS
    <3> QED BY <1>5, <3>1, <3>2 DEF InsertRow
  <2> QED BY <1>5, <2>1 DEF InsertRow
<1>6. ASSUME NEW o \in Operation, JudgeImage(o) PROVE KeptInv' BY <1>6 DEF JudgeImage
<1>7. ASSUME NEW o \in Operation, FailOperation(o) PROVE KeptInv' BY <1>7 DEF FailOperation
<1>8. CASE UNCHANGED baselineVars BY <1>8 DEF baselineVars
<1> QED BY <1>1, <1>2, <1>3, <1>4, <1>5, <1>6, <1>7, <1>8 DEF BaselineNext, BaselineStep, OperationsOver

\* One after the other and undisturbed, operations leave one row and a file
\* that are the image approved last.
THEOREM ApprovedIsKeptHolds == BaselineSpec => []ApprovedIsKept
<1>1. BaselineInit => KeptInv BY VisualBaselineAssumption DEF BaselineInit, KeptInv, Under, Writing, Approved
<1>2. KeptInv => ApprovedIsKept BY DEF KeptInv, ApprovedIsKept, Approved
<1> QED BY BaselineInitInv, BaselineInvStep, <1>1, KeptStep, <1>2, PTL DEF BaselineSpec
-----------------------------------------------------------------------------
(* The routing of model calls *)

\* A call that is at a model has one of its route's models in hand.
LeftInv == \A c \in Caller :
  cpc[c] \in {"check", "acquire", "asking", "answered", "unanswered"} => left[c] # 0

\* Only adaptive calls change the routes.
KindInv == \A c \in Caller :
  cpc[c] \in {"save", "patch", "restore"} => call[c].kind = "adaptive"

RoutingInv == RoutingTypeOK /\ LeftInv /\ KindInv

LEMMA RoutingInitInv == RoutingInit => RoutingInv
<1> SUFFICES ASSUME RoutingInit PROVE RoutingInv
  OBVIOUS
<1>1. mixed \in BOOLEAN BY Zenon DEF RoutingInit
<1> QED BY <1>1, ModelRoutingAssumption DEF RoutingInit, RoutingInv, RoutingTypeOK, LeftInv, KindInv, Routes

LEMMA RoutingInvStep == RoutingInv /\ [RoutingNext]_routingVars => RoutingInv'
<1> SUFFICES ASSUME RoutingInv, [RoutingNext]_routingVars PROVE RoutingInv'
  OBVIOUS
<1> USE ModelRoutingAssumption DEF RoutingInv, RoutingTypeOK, LeftInv, KindInv, Routes, At, Goto, Return, NextModel
<1>1. ASSUME NEW c \in Caller, BeginCall(c) PROVE RoutingInv'
  <2>1. mixed' \in BOOLEAN BY <1>1, Zenon DEF BeginCall
  <2> QED BY <1>1, <2>1 DEF BeginCall
<1>2. ASSUME NEW c \in Caller, SaveRoutes(c) PROVE RoutingInv' BY <1>2 DEF SaveRoutes
<1>3. ASSUME NEW c \in Caller, PatchRoutes(c) PROVE RoutingInv'
  <2>1. routes' \in [Task -> Caller \cup {Default}] BY <1>3 DEF PatchRoutes
  <2> QED BY <1>3, <2>1 DEF PatchRoutes
<1>4. ASSUME NEW c \in Caller, RestoreRoutes(c) PROVE RoutingInv' BY <1>4 DEF RestoreRoutes
<1>5. ASSUME NEW c \in Caller, LookUp(c) PROVE RoutingInv'
  <2>1. call[c].task \in Task BY DEF Calls
  <2>2. given' \in [Caller -> Caller \cup {Default}] BY <1>5, <2>1 DEF LookUp
  <2>3. CASE Return(c) /\ UNCHANGED left BY <1>5, <2>2, <2>3 DEF LookUp
  <2>4. ASSUME NEW n \in 1..MaxModels, left' = [left EXCEPT ![c] = n], Goto(c, "acquire") \/ Goto(c, "check")
        PROVE RoutingInv'
    <3>1. n \in 0..MaxModels /\ n # 0 OBVIOUS
    <3>2. left' \in [Caller -> 0..MaxModels] BY <2>4, <3>1
    <3>3. left'[c] # 0 /\ \A d \in Caller : d # c => left'[d] = left[d] /\ cpc'[d] = cpc[d] BY <2>4, <3>1
    <3> QED BY <1>5, <2>2, <2>4, <3>2, <3>3 DEF LookUp
  <2>5. CASE call[c].kind = "embed" /\ Goto(c, "acquire") /\ left' = [left EXCEPT ![c] = 1]
    <3>1. 1 \in 1..MaxModels OBVIOUS
    <3> QED BY <2>4, <2>5, <3>1
  <2>6. CASE call[c].kind # "embed" /\ Goto(c, "check") /\ \E n \in 1..MaxModels : left' = [left EXCEPT ![c] = n]
    BY <2>4, <2>6
  <2> QED BY <1>5, <2>3, <2>5, <2>6 DEF LookUp
<1>6. ASSUME NEW c \in Caller, CheckSlot(c) PROVE RoutingInv' BY <1>6 DEF CheckSlot
<1>11. ASSUME NEW c \in Caller, left[c] # 0, NextModel(c), UNCHANGED call PROVE
          /\ left' \in [Caller -> 0..MaxModels]
          /\ cpc' \in [Caller -> {"away", "save", "patch", "look", "check", "acquire", "asking",
                                  "answered", "unanswered", "restore", "over"}]
          /\ LeftInv' /\ KindInv'
  <2>1. left[c] \in 0..MaxModels /\ left[c] - 1 \in 0..MaxModels
    <3>1. left[c] \in 0..MaxModels /\ left[c] # 0 /\ MaxModels \in Nat BY <1>11
    <3>2. \A m \in 0..MaxModels : m # 0 => m - 1 \in 0..MaxModels BY <3>1
    <3> QED BY <3>1, <3>2
  <2>2. left' \in [Caller -> 0..MaxModels] /\ left'[c] = left[c] - 1 BY <1>11, <2>1
  <2>3. \A d \in Caller : d # c => left'[d] = left[d] /\ cpc'[d] = cpc[d] BY <1>11
  <2>4. CASE left[c] > 1
    <3>1. cpc'[c] = "check" /\ left'[c] # 0 BY <1>11, <2>1, <2>2, <2>4
    <3> QED BY <1>11, <2>2, <2>3, <2>4, <3>1
  <2>5. CASE ~(left[c] > 1)
    <3>1. cpc'[c] \in {"restore", "over"} BY <1>11, <2>5
    <3> QED BY <1>11, <2>2, <2>3, <2>5, <3>1
  <2> QED BY <2>4, <2>5
<1>7. ASSUME NEW c \in Caller, AcquireSlot(c) PROVE RoutingInv'
  <2>1. CASE slot = Nobody BY <1>7, <2>1 DEF AcquireSlot
  <2>2. CASE slot # Nobody
    <3>1. left[c] # 0 /\ NextModel(c) /\ UNCHANGED call BY <1>7, <2>2 DEF AcquireSlot
    <3> HIDE DEF NextModel, LeftInv, KindInv
    <3>2. left' \in [Caller -> 0..MaxModels] /\ LeftInv' /\ KindInv'
          /\ cpc' \in [Caller -> {"away", "save", "patch", "look", "check", "acquire", "asking",
                                  "answered", "unanswered", "restore", "over"}]
      BY <1>11, <3>1
    <3> QED BY <1>7, <2>2, <3>2 DEF AcquireSlot
  <2> QED BY <2>1, <2>2
<1>8. ASSUME NEW c \in Caller, AskModel(c) PROVE RoutingInv' BY <1>8 DEF AskModel
<1>9. ASSUME NEW c \in Caller, ReleaseSlot(c) PROVE RoutingInv'
  <2>1. CASE Return(c) /\ UNCHANGED left BY <1>9, <2>1 DEF ReleaseSlot
  <2>2. CASE NextModel(c)
    <3>1. left[c] # 0 /\ UNCHANGED call BY <1>9 DEF ReleaseSlot
    <3> HIDE DEF NextModel, LeftInv, KindInv
    <3>2. left' \in [Caller -> 0..MaxModels] /\ LeftInv' /\ KindInv'
          /\ cpc' \in [Caller -> {"away", "save", "patch", "look", "check", "acquire", "asking",
                                  "answered", "unanswered", "restore", "over"}]
      BY <1>11, <2>2, <3>1
    <3> QED BY <1>9, <3>2 DEF ReleaseSlot
  <2> QED BY <1>9, <2>1, <2>2 DEF ReleaseSlot
<1>10. CASE UNCHANGED routingVars BY <1>10 DEF routingVars
<1> QED BY <1>1, <1>2, <1>3, <1>4, <1>5, <1>6, <1>7, <1>8, <1>9, <1>10
        DEF RoutingNext, CallerStep, NobodyCalls, InsertLighter

LEMMA SlotStep == RoutingInv /\ SlotIsHeld /\ [RoutingNext]_routingVars => SlotIsHeld'
<1> SUFFICES ASSUME RoutingInv, SlotIsHeld, [RoutingNext]_routingVars PROVE SlotIsHeld'
  OBVIOUS
<1> USE ModelRoutingAssumption DEF RoutingInv, RoutingTypeOK, SlotIsHeld, Holding, At, Goto, Return, NextModel
<1>1. ASSUME NEW c \in Caller, BeginCall(c) PROVE SlotIsHeld' BY <1>1 DEF BeginCall
<1>2. ASSUME NEW c \in Caller, SaveRoutes(c) PROVE SlotIsHeld' BY <1>2 DEF SaveRoutes
<1>3. ASSUME NEW c \in Caller, PatchRoutes(c) PROVE SlotIsHeld' BY <1>3 DEF PatchRoutes
<1>4. ASSUME NEW c \in Caller, RestoreRoutes(c) PROVE SlotIsHeld' BY <1>4 DEF RestoreRoutes
<1>5. ASSUME NEW c \in Caller, LookUp(c) PROVE SlotIsHeld' BY <1>5 DEF LookUp
<1>6. ASSUME NEW c \in Caller, CheckSlot(c) PROVE SlotIsHeld' BY <1>6 DEF CheckSlot
<1>7. ASSUME NEW c \in Caller, AcquireSlot(c) PROVE SlotIsHeld' BY <1>7 DEF AcquireSlot
<1>8. ASSUME NEW c \in Caller, AskModel(c) PROVE SlotIsHeld' BY <1>8 DEF AskModel
<1>9. ASSUME NEW c \in Caller, ReleaseSlot(c) PROVE SlotIsHeld' BY <1>9 DEF ReleaseSlot
<1>10. CASE UNCHANGED routingVars BY <1>10 DEF routingVars
<1> QED BY <1>1, <1>2, <1>3, <1>4, <1>5, <1>6, <1>7, <1>8, <1>9, <1>10
        DEF RoutingNext, CallerStep, NobodyCalls, InsertLighter

\* Whoever asks a model has the slot and nobody has it otherwise, for any
\* number of threads and models.
THEOREM SlotIsHeldHolds == RoutingSpec => []SlotIsHeld
<1>1. RoutingInit => SlotIsHeld BY ModelRoutingAssumption DEF RoutingInit, SlotIsHeld, Holding
<1> QED BY RoutingInitInv, RoutingInvStep, <1>1, SlotStep, PTL DEF RoutingSpec

Defaults == [t \in Task |-> Default]

\* Without overlap, the routes are the defaults with at most the one decision
\* that is in force, and what was saved are the defaults.
DecisionInv ==
  ~mixed =>
    /\ \A c, d \in Caller : Patching(c) /\ Patching(d) => c = d
    /\ (\A c \in Caller : ~Patching(c)) => routes = Defaults
    /\ \A c \in Caller : Patching(c) =>
         /\ cpc[c] # "save" => saved[c] = Defaults
         /\ routes = IF cpc[c] \in {"save", "patch"} THEN Defaults
                     ELSE [Defaults EXCEPT ![call[c].task] = c]
         /\ cpc[c] \notin {"save", "patch", "look"} => given[c] = c

LEMMA DecisionStep == RoutingInv /\ DecisionInv /\ [RoutingNext]_routingVars => DecisionInv'
<1> SUFFICES ASSUME RoutingInv, DecisionInv, [RoutingNext]_routingVars PROVE DecisionInv'
  OBVIOUS
<1> USE ModelRoutingAssumption
    DEF RoutingInv, RoutingTypeOK, DecisionInv, Patching, At, Goto, Return, NextModel
<1>1. ASSUME NEW c \in Caller, BeginCall(c) PROVE DecisionInv'
  <2> SUFFICES ASSUME ~mixed' PROVE DecisionInv'
    OBVIOUS
  <2>1. ~mixed /\ (call[c].kind = "adaptive" => \A d \in Caller : ~Patching(d))
    BY <1>1, Zenon DEF BeginCall
  <2> QED BY <1>1, <2>1 DEF BeginCall
<1>2. ASSUME NEW c \in Caller, SaveRoutes(c) PROVE DecisionInv' BY <1>2 DEF SaveRoutes
<1>3. ASSUME NEW c \in Caller, PatchRoutes(c) PROVE DecisionInv'
  <2> SUFFICES ASSUME ~mixed PROVE DecisionInv'
    BY <1>3 DEF PatchRoutes
  <2> DEFINE patching(d) == call[d].kind = "adaptive" /\ cpc[d] \notin {"away", "over"}
  <2>1. CASE call[c].kind = "adaptive"
    <3>1. \A d \in Caller : patching(d) => d = c BY <1>3, <2>1 DEF PatchRoutes
    <3>2. routes' = [Defaults EXCEPT ![call[c].task] = c] /\ saved[c] = Defaults
      BY <1>3, <2>1 DEF PatchRoutes
    <3>3. /\ cpc' = [cpc EXCEPT ![c] = "look"] /\ call' = call /\ saved' = saved
          /\ given' = given /\ mixed' = mixed
      BY <1>3 DEF PatchRoutes
    <3>4. /\ cpc'[c] = "look" /\ \A d \in Caller : d # c => cpc'[d] = cpc[d] BY <3>3
    <3>5. Defaults' = Defaults BY DEF Defaults
    <3> QED BY <2>1, <3>1, <3>2, <3>3, <3>4, <3>5
  <2>2. CASE call[c].kind # "adaptive"
    <3>1. FALSE BY <1>3, <2>2 DEF PatchRoutes, KindInv
    <3> QED BY <3>1
  <2> QED BY <2>1, <2>2
<1>4. ASSUME NEW c \in Caller, RestoreRoutes(c) PROVE DecisionInv'
  <2> SUFFICES ASSUME ~mixed PROVE DecisionInv'
    BY <1>4 DEF RestoreRoutes
  <2>1. call[c].kind = "adaptive" /\ cpc[c] = "restore" BY <1>4 DEF RestoreRoutes, KindInv
  <2>2. saved[c] = Defaults BY <2>1
  <2>3. routes' = Defaults' BY <1>4, <2>2 DEF RestoreRoutes, Defaults
  <2>4. /\ cpc' = [cpc EXCEPT ![c] = "over"] /\ call' = call /\ saved' = saved
        /\ given' = given /\ mixed' = mixed
    BY <1>4 DEF RestoreRoutes
  <2>5. \A d \in Caller : ~(call'[d].kind = "adaptive" /\ cpc'[d] \notin {"away", "over"})
    BY <2>1, <2>4
  <2> QED BY <2>3, <2>5
<1>5. ASSUME NEW c \in Caller, LookUp(c) PROVE DecisionInv'
  <2>1. call[c].task \in Task BY DEF Calls
  <2>2. ~mixed /\ Patching(c) => routes[call[c].task] = c BY <1>5, <2>1 DEF LookUp, Defaults
  <2> QED BY <1>5, <2>2 DEF LookUp
<1>6. ASSUME NEW c \in Caller, CheckSlot(c) PROVE DecisionInv' BY <1>6 DEF CheckSlot
<1>7. ASSUME NEW c \in Caller, AcquireSlot(c) PROVE DecisionInv' BY <1>7 DEF AcquireSlot
<1>8. ASSUME NEW c \in Caller, AskModel(c) PROVE DecisionInv' BY <1>8 DEF AskModel
<1>9. ASSUME NEW c \in Caller, ReleaseSlot(c) PROVE DecisionInv' BY <1>9 DEF ReleaseSlot
<1>10. CASE UNCHANGED routingVars BY <1>10 DEF routingVars
<1> QED BY <1>1, <1>2, <1>3, <1>4, <1>5, <1>6, <1>7, <1>8, <1>9, <1>10
        DEF RoutingNext, CallerStep, NobodyCalls, InsertLighter

\* Adaptive calls that do not overlap are each made with their own decision and
\* leave the routes as they were, whatever plain calls overlap with them.
THEOREM DecisionsAreTemporaryHolds == RoutingSpec => []DecisionsAreTemporary
<1>1. RoutingInit => DecisionInv BY DEF RoutingInit, DecisionInv, Patching, Defaults
<1>2. DecisionInv => DecisionsAreTemporary BY DEF DecisionInv, DecisionsAreTemporary, Defaults
<1> QED BY RoutingInitInv, RoutingInvStep, <1>1, DecisionStep, <1>2, PTL DEF RoutingSpec

-----------------------------------------------------------------------------
(* The health of a model *)

LEMMA HealthInitType == HealthInit => HealthTypeOK
<1> SUFFICES ASSUME HealthInit PROVE HealthTypeOK
  OBVIOUS
<1>1. /\ circuitOpen \in BOOLEAN /\ isAvailable \in BOOLEAN /\ cooled \in BOOLEAN
      /\ pingFailed \in BOOLEAN /\ overtaken \in BOOLEAN
  BY Zenon DEF HealthInit
<1> QED BY <1>1 DEF HealthInit, HealthTypeOK, Place

LEMMA HealthTypeStep == HealthTypeOK /\ [HealthNext]_healthVars => HealthTypeOK'
<1> SUFFICES ASSUME HealthTypeOK, [HealthNext]_healthVars PROVE HealthTypeOK'
  OBVIOUS
<1> USE DEF HealthNext, healthVars, tally, excuses, AskerStep, CooldownElapses, CheckModel, LookAtCircuit,
            LookAtClock, CloseCircuit, ClearCount, Enable, LookAtHealth, CallModel, ClearFailures, Recover,
            ReadCount, StoreCount, Compare, OpenCircuit, StampCircuit, Disable, Forget, Unexcused
<1>1. /\ circuitOpen' \in BOOLEAN /\ isAvailable' \in BOOLEAN /\ cooled' \in BOOLEAN
      /\ pingFailed' \in BOOLEAN /\ overtaken' \in BOOLEAN
  BY Zenon DEF HealthTypeOK
<1>2. failureCount' \in Nat /\ trials' \in Nat /\ countRead' \in [Asker -> Nat]
  BY DEF HealthTypeOK
<1>3. counted' \in Nat /\ lost' \in Nat
  BY DEF HealthTypeOK
<1>4. apc' \in [Asker -> Place]
  BY DEF HealthTypeOK, Move, Place
<1> QED BY <1>1, <1>2, <1>3, <1>4 DEF HealthTypeOK

\* A model is skipped only while its circuit is open or a thread is about to
\* make it available, after a failed ping, or because the thread that opened
\* the circuit was overtaken by one that closed it.
THEOREM SkippedHasACauseHolds == HealthSpec => []SkippedHasACause
<1>1. HealthInit => HealthTypeOK /\ SkippedHasACause
  BY HealthInitType DEF HealthInit, SkippedHasACause
<1>2. HealthTypeOK /\ SkippedHasACause /\ [HealthNext]_healthVars => SkippedHasACause'
  <2> SUFFICES ASSUME HealthTypeOK, SkippedHasACause, [HealthNext]_healthVars PROVE SkippedHasACause'
    OBVIOUS
  <2> USE DEF HealthTypeOK, SkippedHasACause, Move, excuses, Unexcused
  <2>1. CASE CooldownElapses BY <2>1 DEF CooldownElapses
  <2>2. CASE CheckModel BY <2>2 DEF CheckModel
  <2>3. ASSUME NEW a \in Asker, AskerStep(a) PROVE SkippedHasACause'
    <3>1. CASE LookAtCircuit(a) BY <3>1 DEF LookAtCircuit
    <3>2. CASE LookAtClock(a) BY <3>2 DEF LookAtClock
    <3>3. CASE CloseCircuit(a) BY <3>3 DEF CloseCircuit
    <3>4. CASE ClearCount(a) BY <3>4 DEF ClearCount
    <3>5. CASE Enable(a) BY <3>5 DEF Enable
    <3>6. CASE LookAtHealth(a) BY <3>6 DEF LookAtHealth
    <3>7. CASE CallModel(a) BY <3>7 DEF CallModel
    <3>8. CASE ClearFailures(a) BY <3>8 DEF ClearFailures
    <3>9. CASE Recover(a) BY <3>9 DEF Recover
    <3>10. CASE ReadCount(a) BY <3>10 DEF ReadCount
    <3>11. CASE StoreCount(a) BY <3>11 DEF StoreCount
    <3>12. CASE Compare(a) BY <3>12 DEF Compare
    <3>13. CASE OpenCircuit(a) BY <3>13 DEF OpenCircuit
    <3>14. CASE StampCircuit(a) BY <3>14 DEF StampCircuit
    <3>15. CASE Disable(a) BY <3>15 DEF Disable
    <3> QED BY <2>3, <3>1, <3>2, <3>3, <3>4, <3>5, <3>6, <3>7, <3>8, <3>9, <3>10, <3>11, <3>12, <3>13,
               <3>14, <3>15 DEF AskerStep
  <2>4. CASE UNCHANGED healthVars BY <2>4 DEF healthVars
  <2> QED BY <2>1, <2>2, <2>3, <2>4 DEF HealthNext
<1> QED BY <1>1, <1>2, HealthTypeStep, PTL DEF HealthSpec

\* How many threads stand at one of some places.
AtPlaces(S) == {a \in Asker : apc[a] \in S}
Threads == Cardinality(Asker)
UnderWay == {"call", "succeeded", "count", "store"}
Failed == {"compare", "open"}

\* A call that was let through is under way, or its failure was counted or
\* lost; failureCount reaches what is counted, and of that the last failures of
\* as many threads at most have yet to be compared with the threshold.
TrialInv ==
  /\ counted <= failureCount
  /\ counted <= Threshold - 1 + Cardinality(AtPlaces(Failed))
  /\ trials <= counted + lost + Cardinality(AtPlaces(UnderWay))
HealthInv == HealthTypeOK /\ TrialInv

LEMMA PlacesAreFinite ==
  /\ Threads \in Nat
  /\ \A S : IsFiniteSet(AtPlaces(S)) /\ Cardinality(AtPlaces(S)) \in Nat
<1>1. IsFiniteSet(Asker) BY ModelHealthAssumption
<1>2. \A S : AtPlaces(S) \subseteq Asker BY DEF AtPlaces
<1> QED BY <1>1, <1>2, FS_Subset, FS_CardinalityType DEF Threads

\* One thread's step moves it from a place to another, and no other thread.
LEMMA MoveCounts ==
  ASSUME HealthTypeOK, NEW a \in Asker, NEW from, NEW to, Move(a, from, to), NEW S
  PROVE  Cardinality(AtPlaces(S)') = Cardinality(AtPlaces(S))
                                       - (IF from \in S THEN 1 ELSE 0) + (IF to \in S THEN 1 ELSE 0)
<1> DEFINE Rest == AtPlaces(S) \ {a}
<1>1. apc[a] = from /\ apc'[a] = to /\ \A b \in Asker : b # a => apc'[b] = apc[b]
  BY DEF Move, HealthTypeOK
<1>2. a \in AtPlaces(S) <=> from \in S BY <1>1 DEF AtPlaces
<1>3. AtPlaces(S)' = IF to \in S THEN Rest \cup {a} ELSE Rest BY <1>1 DEF AtPlaces
<1>4. IsFiniteSet(AtPlaces(S)) /\ Cardinality(AtPlaces(S)) \in Nat BY PlacesAreFinite
<1>5. /\ IsFiniteSet(Rest)
      /\ Cardinality(Rest) = Cardinality(AtPlaces(S)) - (IF from \in S THEN 1 ELSE 0)
  BY <1>2, <1>4, FS_RemoveElement
<1>6. Cardinality(Rest \cup {a}) = Cardinality(Rest) + 1 BY <1>5, FS_AddElement
<1> QED BY <1>3, <1>4, <1>5, <1>6

\* The places exclude one another.
LEMMA PlacesAddUp ==
  Cardinality(AtPlaces(UnderWay)) + Cardinality(AtPlaces(Failed)) <= Threads
<1> DEFINE U == AtPlaces(UnderWay)
           F == AtPlaces(Failed)
<1>1. IsFiniteSet(U) /\ IsFiniteSet(F) /\ IsFiniteSet(Asker)
  BY PlacesAreFinite, ModelHealthAssumption
<1>2. U \cap F = {} /\ U \cup F \subseteq Asker BY DEF AtPlaces, UnderWay, Failed
<1>3. Cardinality(U \cup F) <= Threads BY <1>1, <1>2, FS_Subset DEF Threads
<1>4. Cardinality(U \cap F) = 0 BY <1>2, FS_EmptySet
<1>5. Cardinality(U \cup F) = Cardinality(U) + Cardinality(F) - Cardinality(U \cap F)
  BY <1>1, FS_Union
<1>6. Cardinality(U) \in Nat /\ Cardinality(F) \in Nat BY PlacesAreFinite
<1> HIDE DEF U, F
<1>7. Cardinality(U) + Cardinality(F) <= Threads BY <1>3, <1>4, <1>5, <1>6
<1> QED BY <1>7 DEF U, F

LEMMA HealthInitInv == HealthInit => HealthInv
<1> SUFFICES ASSUME HealthInit PROVE HealthInv
  OBVIOUS
<1>1. counted = 0 /\ failureCount = 0 /\ trials = 0 /\ lost = 0 BY DEF HealthInit
<1> QED BY <1>1, HealthInitType, PlacesAreFinite, ModelHealthAssumption DEF TrialInv, HealthInv

LEMMA TrialStep == HealthInv /\ [HealthNext]_healthVars => TrialInv'
<1> SUFFICES ASSUME HealthInv, [HealthNext]_healthVars PROVE TrialInv'
  OBVIOUS
<1> DEFINE f == Cardinality(AtPlaces(Failed))
           u == Cardinality(AtPlaces(UnderWay))
<1>1. /\ f \in Nat /\ u \in Nat /\ Threshold \in Nat \ {0} /\ HealthTypeOK
      /\ failureCount \in Nat /\ trials \in Nat /\ counted \in Nat /\ lost \in Nat
  BY PlacesAreFinite, ModelHealthAssumption DEF HealthInv, HealthTypeOK
<1>2. counted <= failureCount /\ counted <= Threshold - 1 + f /\ trials <= counted + lost + u
  BY DEF HealthInv, TrialInv
<1>3. ASSUME counted' <= failureCount', counted' <= Threshold - 1 + f', trials' <= counted' + lost' + u'
      PROVE  TrialInv'
  BY <1>3 DEF TrialInv
<1>4. ASSUME NEW a \in Asker, NEW from, NEW to, Move(a, from, to)
      PROVE  /\ f' = f - (IF from \in Failed THEN 1 ELSE 0) + (IF to \in Failed THEN 1 ELSE 0)
             /\ u' = u - (IF from \in UnderWay THEN 1 ELSE 0) + (IF to \in UnderWay THEN 1 ELSE 0)
  BY <1>1, <1>4, MoveCounts
<1>5. CASE UNCHANGED <<apc, failureCount, tally>>
  <2>1. f' = f /\ u' = u BY <1>5 DEF AtPlaces
  <2> QED BY <1>2, <1>3, <1>5, <2>1 DEF tally
<1>6. CASE CooldownElapses \/ CheckModel \/ UNCHANGED healthVars
  BY <1>5, <1>6 DEF CooldownElapses, CheckModel, healthVars
<1> HIDE DEF f, u
<1>7. ASSUME NEW a \in Asker, AskerStep(a) PROVE TrialInv'
  <2> USE DEF UnderWay, Failed
  <2>1. ASSUME NEW from, NEW to, Move(a, from, to), from \notin UnderWay \cup Failed,
               to \notin UnderWay \cup Failed, UNCHANGED <<failureCount, tally>>
        PROVE  TrialInv'
    BY <1>1, <1>2, <1>3, <1>4, <2>1 DEF tally
  <2>2. CASE LookAtCircuit(a) \/ LookAtClock(a) \/ CloseCircuit(a) \/ Enable(a) \/ Recover(a)
             \/ StampCircuit(a) \/ Disable(a)
    <3>1. CASE LookAtCircuit(a) BY <2>1, <3>1 DEF LookAtCircuit
    <3>2. CASE LookAtClock(a) BY <2>1, <3>2 DEF LookAtClock
    <3>3. CASE CloseCircuit(a) BY <2>1, <3>3 DEF CloseCircuit
    <3>4. CASE Enable(a) BY <2>1, <3>4 DEF Enable
    <3>5. CASE Recover(a) BY <2>1, <3>5 DEF Recover
    <3>6. CASE StampCircuit(a) BY <2>1, <3>6 DEF StampCircuit
    <3>7. CASE Disable(a) BY <2>1, <3>7 DEF Disable
    <3> QED BY <2>2, <3>1, <3>2, <3>3, <3>4, <3>5, <3>6, <3>7
  <2>3. CASE ClearCount(a)
    <3>1. f' = f /\ u' = u BY <1>1, <1>4, <2>3 DEF ClearCount
    <3> QED BY <1>1, <1>2, <1>3, <2>3, <3>1 DEF ClearCount
  <2>4. CASE LookAtHealth(a)
    <3>1. CASE isAvailable
      <4>1. f' = f /\ u' = u + 1 BY <1>1, <1>4, <2>4, <3>1 DEF LookAtHealth
      <4> QED BY <1>1, <1>2, <1>3, <2>4, <3>1, <4>1 DEF LookAtHealth
    <3>2. CASE ~isAvailable
      <4>1. f' = f /\ u' = u BY <1>1, <1>4, <2>4, <3>2 DEF LookAtHealth
      <4> QED BY <1>1, <1>2, <1>3, <2>4, <3>2, <4>1 DEF LookAtHealth
    <3> QED BY <3>1, <3>2
  <2>5. CASE CallModel(a)
    <3>1. f' = f /\ u' = u BY <1>1, <1>4, <2>5 DEF CallModel
    <3> QED BY <1>1, <1>2, <1>3, <2>5, <3>1 DEF CallModel, tally
  <2>6. CASE ClearFailures(a) \/ OpenCircuit(a)
    <3>1. trials' = 0 /\ counted' = 0 /\ lost' = 0 /\ failureCount' \in Nat
      BY <1>1, <2>6 DEF ClearFailures, OpenCircuit, Forget
    <3>2. f' \in Nat /\ u' \in Nat
      <4>1. apc' \in [Asker -> Place]
        BY <1>1, <2>6 DEF ClearFailures, OpenCircuit, Move, HealthTypeOK, Place
      <4>2. IsFiniteSet(AtPlaces(Failed)') /\ IsFiniteSet(AtPlaces(UnderWay)')
        BY ModelHealthAssumption, FS_Subset DEF AtPlaces
      <4> QED BY <4>2, FS_CardinalityType DEF f, u
    <3>3. Threshold - 1 \in Nat BY ModelHealthAssumption
    <3>4. \A x, y, z, k \in Nat : 0 <= x /\ 0 <= y + k /\ 0 <= 0 + 0 + z OBVIOUS
    <3>5. counted' <= failureCount' /\ counted' <= Threshold - 1 + f' /\ trials' <= counted' + lost' + u'
      BY <3>1, <3>2, <3>3, <3>4
    <3> QED BY <1>3, <3>5
  <2>7. CASE ReadCount(a)
    <3>1. f' = f /\ u' = u BY <1>1, <1>4, <2>7 DEF ReadCount
    <3> QED BY <1>1, <1>2, <1>3, <2>7, <3>1 DEF ReadCount, tally
  <2>8. CASE StoreCount(a)
    <3>1. f' = f + 1 /\ u' = u - 1 BY <1>1, <1>4, <2>8 DEF StoreCount
    <3>2. PICK kept \in Nat : /\ kept <= counted /\ kept <= countRead[a] /\ countRead[a] \in Nat
                              /\ failureCount' = countRead[a] + 1 /\ counted' = kept + 1
                              /\ lost' = lost + (counted - kept) /\ trials' = trials
      BY <1>1, <2>8 DEF StoreCount, HealthTypeOK
    <3> QED BY <1>1, <1>2, <1>3, <3>1, <3>2
  <2>9. CASE Compare(a)
    <3>1. CASE failureCount >= Threshold
      <4>1. f' = f /\ u' = u BY <1>1, <1>4, <2>9, <3>1 DEF Compare
      <4> QED BY <1>1, <1>2, <1>3, <2>9, <4>1 DEF Compare, tally
    <3>2. CASE failureCount < Threshold
      <4>1. Move(a, "compare", "idle") BY <1>1, <2>9, <3>2 DEF Compare
      <4>2. f' = f - 1 /\ u' = u BY <1>1, <1>4, <4>1
      <4>3. a \in AtPlaces(Failed) BY <4>1 DEF AtPlaces, Move
      <4>4. f # 0
        <5>1. IsFiniteSet(AtPlaces(Failed)) BY PlacesAreFinite
        <5> QED BY <4>3, <5>1, FS_EmptySet DEF f
      <4> QED BY <1>1, <1>2, <1>3, <2>9, <3>2, <4>2, <4>4 DEF Compare, tally
    <3> QED BY <1>1, <3>1, <3>2
  <2> QED BY <1>7, <2>2, <2>3, <2>4, <2>5, <2>6, <2>7, <2>8, <2>9 DEF AskerStep
<1> QED BY <1>6, <1>7 DEF HealthNext

LEMMA HealthInvariance == HealthSpec => []HealthInv
<1>1. HealthInv /\ [HealthNext]_healthVars => HealthInv'
  BY HealthTypeStep, TrialStep DEF HealthInv
<1> QED BY HealthInitInv, <1>1, PTL DEF HealthSpec

\* However the threads interleave, no more calls get through between two
\* successes or openings than the threshold allows, each thread can have under
\* way, and there were failures whose count was undone.
THEOREM TrialsAreBoundedHolds == HealthSpec => []TrialsAreBounded
<1>1. HealthInv => TrialsAreBounded
  BY PlacesAreFinite, PlacesAddUp, ModelHealthAssumption
     DEF HealthInv, HealthTypeOK, TrialInv, TrialsAreBounded, Threads
<1> QED BY HealthInvariance, <1>1, PTL

-----------------------------------------------------------------------------
(* Audits *)

\* The order in which every plan runs its phases; the last three, which write
\* nothing that another phase of the audit depends on, come in any.
AtTheEnd == 14
Rank ==
  [discovery |-> 1, planning |-> 2, environment |-> 3, execution |-> 4, security_audit |-> 5,
   api_audit |-> 6, release_readiness_audit |-> 7, finding_correlation |-> 8, rca |-> 9,
   runtime_validation |-> 10, behavior_analysis |-> 11, execution_replay |-> 12,
   evidence_correlation |-> 13,
   baseline_comparison |-> AtTheEnd, release_gate_evaluation |-> AtTheEnd, report_generation |-> AtTheEnd]

\* The first phase that writes an artifact that the findings, the risks and the
\* evidence of an audit are made of.
Maker ==
  [app_map |-> "discovery", test_plan |-> "planning", execution_results |-> "execution",
   security_audit_results |-> "security_audit", api_audit_results |-> "api_audit",
   correlated_findings |-> "finding_correlation", overall_risk_report |-> "rca",
   verified_findings |-> "runtime_validation", evidence_graph |-> "evidence_correlation"]
Core == DOMAIN Maker

\* A phase is over, or has saved the artifact by now.
Wrote(p, a) ==
  p \notin ToSet(phases) \/ (stage = "writing" /\ Current = p /\ a \notin ToSet(unsaved))
Made(a) == Wrote(Maker[a], a)
Going == auditStatus \in {"running", "completed"}

PhasesInv ==
  /\ \A i, j \in DOMAIN phases :
       i < j => Rank[phases[i]] < Rank[phases[j]] \/ Rank[phases[j]] = AtTheEnd
  /\ stage = "writing" => phases # <<>> /\ ToSet(unsaved) \subseteq ToSet(Writes[Current])
  /\ \A i, j \in DOMAIN unsaved : i # j => unsaved[i] # unsaved[j]
  /\ auditStatus # "running" => phases = <<>> /\ stage = "next" /\ unsaved = <<>>
  /\ auditStatus # "not_started" => audit # 0
  /\ \A a \in Artifact : store[a].from \subseteq 1..audit

\* In an audit that missed nothing that counts, what has been made is made of
\* this audit's results only.
FreshInv ==
  Going /\ unmet \subseteq {"behavior_analysis"} =>
    \A a \in Core : Made(a) => store[a].from = {audit}

\* The phase whose results these are; those of the two that are correlated.
Teller ==
  [findings |-> "execution", security_audit_results |-> "security_audit",
   api_audit_results |-> "api_audit"]
Told(a) == Wrote(Teller[a], a)
Audited == {"security_audit_results", "api_audit_results"}
Alarmed == alarming \cap CorrelatorReads # {}

\* A critical finding stays in its results.  One of an audit that is correlated
\* reaches the correlated findings with the next phase that correlates, and
\* cannot come up after one did.
AlarmInv ==
  /\ \A a \in alarming : store[a].alarm /\ Told(a)
  /\ {"security_audit", "api_audit"} \cap ToSet(phases) # {}
       => audit \notin store["correlated_findings"].from
  /\ Alarmed /\ audit \in store["correlated_findings"].from => store["correlated_findings"].alarm
  /\ \A p \in {"finding_correlation", "rca"} :
       Going /\ p \notin unmet /\ Wrote(p, "correlated_findings")
         => audit \in store["correlated_findings"].from

\* Nothing a gate looks at is written after it decided.
GateInv ==
  /\ gate # "none" => \A p \in ToSet(phases) : Rank[p] = AtTheEnd
  /\ OpenGateIsExplained

AuditInv == AuditTypeOK /\ PhasesInv /\ FreshInv /\ AlarmInv /\ GateInv

\* What a phase that writes one artifact writes.
Only ==
  [discovery |-> "app_map", planning |-> "test_plan", security_audit |-> "security_audit_results",
   api_audit |-> "api_audit_results", release_readiness_audit |-> "release_readiness_results",
   finding_correlation |-> "correlated_findings",
   runtime_validation |-> "verified_findings", behavior_analysis |-> "behavioral_analysis",
   execution_replay |-> "execution_traces", evidence_correlation |-> "evidence_graph",
   baseline_comparison |-> "baseline_comparison", release_gate_evaluation |-> "release_gate_decision",
   report_generation |-> "audit_summary"]

LEMMA PhaseSet ==
  /\ Phase = DOMAIN Only \cup {"environment", "execution", "rca"}
  /\ Phase = DOMAIN Rank /\ Phase = DOMAIN Writes
<1>1. Phase = {DefaultPhases[i] : i \in 1..16} /\ \A i \in 1..13 : DefaultPhases[i] = Common[i]
  BY DEF Phase, ToSet, DefaultPhases, Common
<1>2. /\ DefaultPhases[14] = "baseline_comparison" /\ DefaultPhases[15] = "release_gate_evaluation"
      /\ DefaultPhases[16] = "report_generation"
  BY DEF DefaultPhases, Common
<1> QED BY <1>1, <1>2 DEF Common, Only, Rank, Writes

LEMMA WritesFacts ==
  /\ \A p \in DOMAIN Only : Writes[p] = <<Only[p]>> /\ Only[p] \in Artifact
  /\ Writes["environment"] = <<>> /\ Writes["execution"] = <<"findings", "execution_results">>
  /\ Writes["rca"] = <<"correlated_findings", "overall_risk_report", "runtime_risk_report">>
  /\ {"findings", "execution_results", "correlated_findings", "overall_risk_report",
        "runtime_risk_report"} \subseteq Artifact
BY DEF Only, Writes, Artifact, Sources

\* What a phase saves is its own, in the order of its saves, each once.
LEMMA WritesType ==
  ASSUME NEW p \in Phase
  PROVE  /\ Writes[p] \in Seq(Artifact)
         /\ \A i, j \in DOMAIN Writes[p] : i # j => Writes[p][i] # Writes[p][j]
         /\ ToSet(Writes[p]) \subseteq Artifact
<1>1. CASE p \in DOMAIN Only
  BY <1>1, WritesFacts DEF ToSet
<1>2. CASE p = "environment"
  BY <1>2, WritesFacts, ToSetEmpty
<1>3. CASE p = "execution"
  BY <1>3, WritesFacts DEF ToSet
<1>4. CASE p = "rca"
  BY <1>4, WritesFacts DEF ToSet
<1> QED BY <1>1, <1>2, <1>3, <1>4, PhaseSet

\* Whose artifact an artifact is: correlated findings are two phases', each of
\* the others that findings, risks and evidence are made of has one writer, and
\* is made from what earlier phases write.
LEMMA MakerFacts ==
  ASSUME NEW p \in Phase, NEW a \in ToSet(Writes[p])
  PROVE  /\ a \in Core /\ a # "correlated_findings" => p = Maker[a]
         /\ a = "correlated_findings" => p \in {"finding_correlation", "rca"}
         /\ a = "release_gate_decision" => p = "release_gate_evaluation"
         /\ a \in OwnResults => p = Teller[a]
         /\ Rank[p] = AtTheEnd => a \in {"baseline_comparison", "release_gate_decision", "audit_summary"}
         /\ a \in Core => \A b \in Sources[a] : b \in Core /\ Rank[Maker[b]] < Rank[p]
<1>1. CASE p \in DOMAIN Only
  <2>1. a = Only[p] BY <1>1, WritesFacts DEF ToSet
  <2> QED BY <1>1, <2>1 DEF Only, OwnResults, Teller, Core, Maker, Rank, AtTheEnd, Sources, PlannerReads, AuditReads,
     CorrelatorReads, ValidatorReads, EvidenceReads
<1>2. CASE p = "environment"
  BY <1>2, WritesFacts, ToSetEmpty
<1>3. CASE p = "execution"
  <2>1. a \in {"findings", "execution_results"} BY <1>3, WritesFacts DEF ToSet
  <2> QED BY <1>3, <2>1 DEF OwnResults, Teller, Core, Maker, Rank, AtTheEnd, Sources, ExecutionReads
<1>4. CASE p = "rca"
  <2>1. a \in {"correlated_findings", "overall_risk_report", "runtime_risk_report"}
    BY <1>4, WritesFacts DEF ToSet
  <2> QED BY <1>4, <2>1 DEF OwnResults, Teller, Core, Maker, Rank, AtTheEnd, Sources, CorrelatorReads, RiskReads
<1> QED BY <1>1, <1>2, <1>3, <1>4, PhaseSet

LEMMA CoreFacts ==
  /\ \A p \in Phase : Rank[p] \in 1..AtTheEnd
  /\ \A a \in Core : /\ Maker[a] \in Phase /\ Rank[Maker[a]] < AtTheEnd /\ a \in Artifact
                     /\ Maker[a] # "behavior_analysis"
                     /\ a \in ToSet(Writes[Maker[a]])
<1>1. \A a \in Core : Maker[a] \in DOMAIN Only => Only[Maker[a]] = a
  BY DEF Core, Maker, Only
<1>2. \A a \in Core : Maker[a] \in DOMAIN Only \cup {"execution", "rca"}
  BY DEF Core, Maker, Only
<1>3. "execution_results" \in ToSet(Writes["execution"])
  <2>1. 2 \in DOMAIN Writes["execution"] /\ Writes["execution"][2] = "execution_results"
    BY WritesFacts
  <2> QED BY <2>1 DEF ToSet
<1>4. "overall_risk_report" \in ToSet(Writes["rca"])
  <2>1. 2 \in DOMAIN Writes["rca"] /\ Writes["rca"][2] = "overall_risk_report"
    BY WritesFacts
  <2> QED BY <2>1 DEF ToSet
<1>5. \A p \in DOMAIN Only : Only[p] \in ToSet(Writes[p])
  BY WritesFacts DEF ToSet
<1>6. \A a \in Core : a \in ToSet(Writes[Maker[a]])
  BY <1>1, <1>2, <1>3, <1>4, <1>5 DEF Core, Maker, Only
<1>7. \A a \in Core : /\ Rank[Maker[a]] < AtTheEnd /\ a \in Artifact /\ Maker[a] # "behavior_analysis"
  BY DEF Core, Maker, Rank, AtTheEnd, Artifact, Sources
<1>8. \A p \in Phase : Rank[p] \in 1..AtTheEnd
  BY PhaseSet DEF Rank, AtTheEnd
<1>9. \A a \in Core : Maker[a] \in Phase
  BY <1>2, PhaseSet
<1> QED BY <1>6, <1>7, <1>8, <1>9

\* Every plan keeps the order of the ranks.
LEMMA PlansAreOrdered ==
  ASSUME NEW plan \in Plans
  PROVE  /\ plan \in Seq(Phase) /\ ToSet(plan) \subseteq Phase
         /\ \A i, j \in DOMAIN plan : i < j => Rank[plan[i]] < Rank[plan[j]] \/ Rank[plan[j]] = AtTheEnd
<1>1. CASE plan \in {DefaultPhases, CiPhases}
  <2>1. DOMAIN plan = 1..16 /\ Len(plan) = 16 /\ \A i \in 1..13 : plan[i] = Common[i]
    BY <1>1 DEF DefaultPhases, CiPhases, Common
  <2>2. \A i \in 14..16 : plan[i] \in {"baseline_comparison", "release_gate_evaluation", "report_generation"}
    BY <1>1 DEF DefaultPhases, CiPhases, Common
  <2>3. \A i \in 1..13 : Common[i] \in Phase /\ Rank[Common[i]] = i
    BY PhaseSet DEF Common, Rank
  <2>4. \A i \in 14..16 : plan[i] \in Phase /\ Rank[plan[i]] = AtTheEnd
    BY <2>2, PhaseSet DEF Rank, AtTheEnd
  <2>5. \A i \in 1..16 : plan[i] \in Phase
    BY <2>1, <2>3, <2>4
  <2>6. plan \in Seq(Phase)
    <3>1. Common \in Seq(Phase) BY <2>3 DEF Common
    <3>2. /\ <<"baseline_comparison", "release_gate_evaluation", "report_generation">> \in Seq(Phase)
          /\ <<"report_generation", "baseline_comparison", "release_gate_evaluation">> \in Seq(Phase)
      BY PhaseSet DEF Rank
    <3>3. \A s, t \in Seq(Phase) : s \o t \in Seq(Phase)
      OBVIOUS
    <3> QED BY <1>1, <3>1, <3>2, <3>3, Zenon DEF DefaultPhases, CiPhases
  <2>7. \A i, j \in 1..16 : i < j => Rank[plan[i]] < Rank[plan[j]] \/ Rank[plan[j]] = AtTheEnd
    BY <2>1, <2>3, <2>4
  <2> QED BY <2>1, <2>5, <2>6, <2>7 DEF ToSet
<1>2. CASE plan = StaticPhases
  <2>1. DOMAIN plan = 1..12 /\ plan \in Seq(Phase)
    BY <1>2, PhaseSet DEF StaticPhases, Rank
  <2>2. \A i \in 1..12 : Rank[plan[i]] = <<1, 2, 3, 5, 7, 8, 9, 10, 11, 12, 13, 14>>[i]
    BY <1>2 DEF StaticPhases, Rank, AtTheEnd
  <2>3. \A i, j \in 1..12 : i < j => Rank[plan[i]] < Rank[plan[j]]
    BY <2>2
  <2>4. \A i \in DOMAIN plan : plan[i] \in Phase
    BY <1>2, <2>1, PhaseSet DEF StaticPhases, Rank
  <2>5. ToSet(plan) \subseteq Phase
    BY <2>4 DEF ToSet
  <2> QED BY <2>1, <2>3, <2>5
<1> QED BY <1>1, <1>2 DEF Plans

\* What is left of a plan: the phase at its head comes first, and comes back
\* only if it is one that writes at the end.
LEMMA PhasesLeft ==
  ASSUME AuditTypeOK, PhasesInv, phases # <<>>
  PROVE  /\ Current \in Phase /\ Current \in ToSet(phases) /\ ToSet(phases) \subseteq Phase
         /\ \A p \in ToSet(phases) : Rank[Current] <= Rank[p]
         /\ Tail(phases) \in Seq(Phase)
         /\ ToSet(phases) = {Current} \cup ToSet(Tail(phases))
         /\ Rank[Current] < AtTheEnd => Current \notin ToSet(Tail(phases))
         /\ \A i, j \in DOMAIN Tail(phases) :
              i < j => Rank[Tail(phases)[i]] < Rank[Tail(phases)[j]] \/ Rank[Tail(phases)[j]] = AtTheEnd
<1>1. phases \in Seq(Phase) BY DEF AuditTypeOK
<1>2. /\ Current \in Phase /\ Tail(phases) \in Seq(Phase)
      /\ ToSet(phases) = {Current} \cup ToSet(Tail(phases))
  BY <1>1, HeadTailType, ToSetTail DEF Current
<1>3. /\ DOMAIN phases = 1..Len(phases) /\ DOMAIN Tail(phases) = 1..(Len(phases) - 1) /\ Len(phases) \in Nat \ {0}
      /\ \A i \in DOMAIN Tail(phases) : Tail(phases)[i] = phases[i + 1]
      /\ Current = phases[1]
  BY <1>1 DEF Current
<1>4. \A i \in DOMAIN phases : phases[i] \in Phase
  BY <1>1
<1>5. ToSet(phases) \subseteq Phase
  BY <1>4 DEF ToSet
<1>6. \A i, j \in DOMAIN phases : i < j => Rank[phases[i]] < Rank[phases[j]] \/ Rank[phases[j]] = AtTheEnd
  BY DEF PhasesInv
<1>7. \A p \in Phase : Rank[p] \in 1..AtTheEnd
  BY CoreFacts
<1>8. ASSUME NEW i \in DOMAIN phases PROVE Rank[phases[1]] <= Rank[phases[i]]
  <2>1. CASE i = 1 BY <1>3, <1>4, <1>7, <2>1 DEF AtTheEnd
  <2>2. CASE i # 1
    <3>1. 1 \in DOMAIN phases /\ 1 < i BY <1>3, <2>2
    <3>2. Rank[phases[1]] < Rank[phases[i]] \/ Rank[phases[i]] = AtTheEnd BY <1>6, <3>1
    <3>3. Rank[phases[1]] \in 1..AtTheEnd /\ Rank[phases[i]] \in 1..AtTheEnd BY <1>4, <1>7, <3>1
    <3>4. \A m, n \in 1..AtTheEnd : m < n \/ n = AtTheEnd => m <= n BY DEF AtTheEnd
    <3> QED BY <3>2, <3>3, <3>4, Zenon
  <2> QED BY <2>1, <2>2
<1>9. ASSUME NEW i \in DOMAIN Tail(phases), Rank[Current] < AtTheEnd PROVE Tail(phases)[i] # Current
  <2>1. 1 \in DOMAIN phases /\ i + 1 \in DOMAIN phases /\ 1 < i + 1 /\ Tail(phases)[i] = phases[i + 1]
    BY <1>3
  <2>2. Rank[phases[1]] < Rank[phases[i + 1]] \/ Rank[phases[i + 1]] = AtTheEnd
    BY <1>6, <2>1
  <2>3. Rank[phases[1]] \in 1..AtTheEnd BY <1>4, <1>7, <2>1
  <2>4. Rank[phases[1]] < Rank[phases[i + 1]]
    BY <1>3, <1>9, <2>2, <2>3 DEF AtTheEnd
  <2>5. phases[1] # phases[i + 1]
    <3>1. \A m \in 1..AtTheEnd : ~(m < m) BY DEF AtTheEnd
    <3> QED BY <2>3, <2>4, <3>1, Zenon
  <2> QED BY <1>3, <2>1, <2>5
<1>10. ASSUME NEW i \in DOMAIN Tail(phases), NEW j \in DOMAIN Tail(phases), i < j
       PROVE Rank[Tail(phases)[i]] < Rank[Tail(phases)[j]] \/ Rank[Tail(phases)[j]] = AtTheEnd
  <2>1. i + 1 \in DOMAIN phases /\ j + 1 \in DOMAIN phases /\ i + 1 < j + 1
    BY <1>3, <1>10
  <2>2. Rank[phases[i + 1]] < Rank[phases[j + 1]] \/ Rank[phases[j + 1]] = AtTheEnd
    BY <1>6, <2>1
  <2> QED BY <1>3, <2>2
<1>11. \A p \in ToSet(phases) : Rank[Current] <= Rank[p]
  BY <1>3, <1>8 DEF ToSet
<1>12. Rank[Current] < AtTheEnd => Current \notin ToSet(Tail(phases))
  BY <1>9 DEF ToSet
<1> QED BY <1>2, <1>5, <1>10, <1>11, <1>12

\* A phase is over: it missed what it owed, or saved all of it.
PhaseIsOver ==
  /\ phases # <<>> /\ phases' = Tail(phases) /\ stage' = "next" /\ unsaved' = <<>>
  /\ unmet \subseteq unmet'
  /\ Current \in unmet' \/ (stage = "writing" /\ unsaved = <<>>)
  /\ UNCHANGED <<audit, auditStatus, store, gate, alarming>>

\* An audit is over, and completed only with its last phase.
AuditIsOver ==
  /\ phases' = <<>> /\ stage' = "next" /\ unsaved' = <<>>
  /\ auditStatus = "running" /\ auditStatus' \in {"completed", "failed", "cancelled", "killed"}
  /\ auditStatus' = "completed" => phases = <<>> /\ unmet' = unmet
  /\ unmet \subseteq unmet'
  /\ UNCHANGED <<audit, store, gate, alarming>>

\* The ten actions of a plan are these kinds of steps.
LEMMA AuditSteps ==
  ASSUME PhasesInv, [AuditNext]_auditVars
  PROVE  \/ \E plan \in Plans : StartAudit(plan)
         \/ PhaseIsOver \/ AuditIsOver
         \/ \E p \in Phase : BeginPhase(p)
         \/ \E a \in Artifact, alarm \in BOOLEAN : SaveResults(a, alarm)
         \/ \E a \in Artifact : SaveDerived(a)
         \/ \E d \in {"blocked", "open"} : DecideGate(d)
         \/ UNCHANGED auditVars
<1>1. (stage = "writing" => phases # <<>>) /\ (auditStatus # "running" => phases = <<>>)
  BY DEF PhasesInv
<1>2. PhaseFails /\ phases # <<>> /\ UNCHANGED <<audit, gate, alarming>> => PhaseIsOver \/ AuditIsOver
  <2>1. CASE Current \in Critical
    BY <1>1, <2>1 DEF PhaseFails, EndAudit, AuditIsOver
  <2>2. CASE Current \notin Critical
    BY <2>2 DEF PhaseFails, NextPhase, PhaseIsOver
  <2> QED BY <2>1, <2>2
<1>3. SkipPhase => PhaseIsOver
  BY DEF SkipPhase, NextPhase, PhaseIsOver
<1>4. FailToLoad => PhaseIsOver \/ AuditIsOver
  BY <1>1, <1>2 DEF FailToLoad
<1>5. EndPhase => PhaseIsOver
  BY <1>1 DEF EndPhase, NextPhase, PhaseIsOver
<1>6. FailPhase => PhaseIsOver \/ AuditIsOver
  BY <1>1, <1>2 DEF FailPhase
<1>7. StopAudit \/ KillAudit \/ CompleteAudit => AuditIsOver
  BY DEF StopAudit, KillAudit, CompleteAudit, EndAudit, AuditIsOver
<1>8. AuditsOver => UNCHANGED auditVars
  BY DEF AuditsOver
<1> QED BY <1>3, <1>4, <1>5, <1>6, <1>7, <1>8 DEF AuditNext

\* A save: the artifact is one the current phase still owed, and no other moves.
LEMMA SaveFacts ==
  ASSUME AuditTypeOK, PhasesInv, NEW a \in Artifact, NEW alarm \in BOOLEAN, Save(a, alarm)
  PROVE  /\ phases # <<>> /\ Current \in Phase /\ a \in ToSet(Writes[Current]) /\ auditStatus = "running"
         /\ Tail(unsaved) \in Seq(Artifact) /\ ToSet(unsaved) = {a} \cup ToSet(Tail(unsaved))
         /\ a \notin ToSet(Tail(unsaved))
         /\ \A i, j \in DOMAIN Tail(unsaved) : i # j => Tail(unsaved)[i] # Tail(unsaved)[j]
         /\ store'[a].from = From(a) /\ store'[a].alarm = alarm
         /\ \A b \in Artifact \ {a} : store'[b] = store[b]
         /\ \A p, b : Wrote(p, b)' <=> Wrote(p, b) \/ (p = Current /\ b = a)
<1> USE DEF Save
<1>1. phases # <<>> /\ ToSet(unsaved) \subseteq ToSet(Writes[Current]) /\ auditStatus = "running"
  BY DEF PhasesInv, AuditTypeOK
<1>2. unsaved \in Seq(Artifact) /\ unsaved # <<>> /\ a = Head(unsaved)
  BY DEF AuditTypeOK
<1>3. Tail(unsaved) \in Seq(Artifact) /\ ToSet(unsaved) = {a} \cup ToSet(Tail(unsaved))
  BY <1>2, HeadTailType, ToSetTail
<1>4. /\ DOMAIN unsaved = 1..Len(unsaved) /\ DOMAIN Tail(unsaved) = 1..(Len(unsaved) - 1) /\ Len(unsaved) \in Nat \ {0}
      /\ \A i \in DOMAIN Tail(unsaved) : Tail(unsaved)[i] = unsaved[i + 1]
      /\ a = unsaved[1]
  BY <1>2
<1>5. \A i, j \in DOMAIN unsaved : i # j => unsaved[i] # unsaved[j]
  BY DEF PhasesInv
<1>6. a \notin ToSet(Tail(unsaved))
  <2>1. ASSUME NEW i \in DOMAIN Tail(unsaved) PROVE Tail(unsaved)[i] # a
    <3>1. 1 \in DOMAIN unsaved /\ i + 1 \in DOMAIN unsaved /\ i + 1 # 1 BY <1>4
    <3> QED BY <1>4, <1>5, <3>1
  <2> QED BY <2>1 DEF ToSet
<1>7. ASSUME NEW i \in DOMAIN Tail(unsaved), NEW j \in DOMAIN Tail(unsaved), i # j
      PROVE Tail(unsaved)[i] # Tail(unsaved)[j]
  <2>1. i + 1 \in DOMAIN unsaved /\ j + 1 \in DOMAIN unsaved /\ i + 1 # j + 1 BY <1>4, <1>7
  <2> QED BY <1>4, <1>5, <2>1
<1>8. Current \in Phase BY <1>1, PhasesLeft
<1>9. DOMAIN store = Artifact BY DEF AuditTypeOK
<1>10. /\ store'[a] = [from |-> From(a), alarm |-> alarm]
       /\ \A b \in Artifact \ {a} : store'[b] = store[b]
  BY <1>9
<1>11. store'[a].from = From(a) /\ store'[a].alarm = alarm
  BY <1>10
<1>12. stage = "writing" /\ stage' = "writing" /\ phases' = phases /\ unsaved' = Tail(unsaved)
  OBVIOUS
<1>13. Current' = Current BY <1>12 DEF Current
<1>14. ASSUME NEW p, NEW b PROVE Wrote(p, b)' <=> Wrote(p, b) \/ (p = Current /\ b = a)
  <2>1. Current \in ToSet(phases) BY <1>1, PhasesLeft
  <2>2. Wrote(p, b)' <=> p \notin ToSet(phases) \/ (Current = p /\ b \notin ToSet(Tail(unsaved)))
    BY <1>12, <1>13 DEF Wrote
  <2>3. Wrote(p, b) <=> p \notin ToSet(phases) \/ (Current = p /\ b \notin ToSet(unsaved))
    BY <1>12 DEF Wrote
  <2> QED BY <1>3, <1>6, <2>1, <2>2, <2>3
<1> QED BY <1>1, <1>3, <1>6, <1>7, <1>8, <1>10, <1>11, <1>14

LEMMA AuditInitInv == AuditInit => AuditInv
<1> SUFFICES ASSUME AuditInit PROVE AuditInv
  OBVIOUS
<1> USE DEF AuditInit
<1>1. Absent \in [from : SUBSET (1..MaxAudits), alarm : BOOLEAN] /\ Absent.from = {}
  BY DEF Absent
<1>2. store \in [Artifact -> [from : SUBSET (1..MaxAudits), alarm : BOOLEAN]]
  BY <1>1
<1>3. phases \in Seq(Phase) /\ unsaved \in Seq(Artifact)
  OBVIOUS
<1>4. AuditTypeOK
  <2>1. environmentReady \in BOOLEAN
    BY Zenon
  <2>2. audit \in 0..MaxAudits /\ breaks \in 0..MaxBreaks
    BY AuditWorkflowAssumption
  <2> QED BY <1>2, <1>3, <2>1, <2>2 DEF AuditTypeOK
<1>5. \A a \in Artifact : store[a].from = {}
  BY <1>1
<1>6. PhasesInv
  BY <1>5 DEF PhasesInv
<1>7. FreshInv
  BY DEF FreshInv, Going
<1>8. "correlated_findings" \in Artifact
  BY DEF Artifact, Sources
<1>9. AlarmInv
  BY <1>5, <1>8 DEF AlarmInv, Alarmed, Going
<1>10. GateInv
  BY DEF GateInv, OpenGateIsExplained
<1> QED BY <1>4, <1>6, <1>7, <1>9, <1>10 DEF AuditInv

LEMMA SavesFacts ==
  ASSUME NEW p \in Phase, NEW s \in Saves(p)
  PROVE  /\ s \in Seq(Artifact) /\ ToSet(s) \subseteq ToSet(Writes[p])
         /\ \A i, j \in DOMAIN s : i # j => s[i] # s[j]
         /\ p # "execution" => s = Writes[p]
         /\ p = "execution" => s = <<>> \/ "execution_results" \in ToSet(s)
<1>1. CASE s = Writes[p]
  <2>1. "execution_results" \in ToSet(Writes["execution"])
    BY CoreFacts DEF Core, Maker
  <2> QED BY <1>1, <2>1, WritesType
<1>2. CASE s # Writes[p]
  <2>1. p = "execution" /\ s \in {<<>>, <<"execution_results">>}
    <3>1. Tail(<<"findings", "execution_results">>) = <<"execution_results">>
      OBVIOUS
    <3>2. Tail(Writes["execution"]) = <<"execution_results">>
      BY <3>1, WritesFacts
    <3>3. p = "execution" /\ s \in {Tail(Writes[p]), <<>>}
      BY <1>2 DEF Saves
    <3> QED BY <3>2, <3>3
  <2>2. s = <<>> => s \in Seq(Artifact) /\ ToSet(s) = {} /\ DOMAIN s = {}
    BY ToSetEmpty
  <2>3. s = <<"execution_results">> =>
          /\ s \in Seq(Artifact) /\ ToSet(s) = {"execution_results"} /\ DOMAIN s = {1}
    BY WritesFacts DEF ToSet
  <2>4. "execution_results" \in ToSet(Writes["execution"])
    BY CoreFacts DEF Core, Maker
  <2> QED BY <2>1, <2>2, <2>3, <2>4
<1> QED BY <1>1, <1>2

\* Results are made of audits there have been.
LEMMA FromFacts ==
  ASSUME AuditTypeOK, PhasesInv, auditStatus = "running", NEW a \in Artifact
  PROVE  From(a) \subseteq 1..audit /\ From(a) \subseteq 1..MaxAudits /\ audit \in From(a)
<1>1. Sources[a] \subseteq Artifact
  BY DEF Artifact, Sources, PlannerReads, AuditReads, ExecutionReads, CorrelatorReads, RiskReads,
    RuntimeRiskReads, ValidatorReads, AnalyzerReads, ReplayerReads, EvidenceReads, ComparatorReads,
    GateReads, SummaryReads
<1>2. \A b \in Sources[a] : store[b].from \subseteq 1..audit
  BY <1>1 DEF PhasesInv
<1>3. audit \in 0..MaxAudits /\ MaxAudits \in Nat
  BY AuditWorkflowAssumption DEF AuditTypeOK
<1>4. audit # 0
  BY DEF PhasesInv
<1>5. audit \in 1..audit /\ 1..audit \subseteq 1..MaxAudits
  BY <1>3, <1>4
<1> QED BY <1>2, <1>5 DEF From

LEMMA AuditTypeStep ==
  ASSUME AuditTypeOK, PhasesInv, [AuditNext]_auditVars
  PROVE  AuditTypeOK'
<1> USE DEF AuditTypeOK
<1>b. audit \in 0..MaxAudits /\ MaxAudits \in Nat /\ breaks \in 0..MaxBreaks /\ MaxBreaks \in Nat
  BY AuditWorkflowAssumption
<1>e. <<>> \in Seq(Phase) /\ <<>> \in Seq(Artifact)
  OBVIOUS
<1>f. FALSE \in BOOLEAN
  OBVIOUS
<1>n. NextPhase /\ phases # <<>> =>
        /\ phases' \in Seq(Phase) /\ stage' \in {"next", "writing"} /\ unsaved' \in Seq(Artifact)
        /\ UNCHANGED <<auditStatus, store>> /\ Current \in Phase
  <2>1. SUFFICES ASSUME NextPhase, phases # <<>>
        PROVE phases' \in Seq(Phase) /\ stage' \in {"next", "writing"} /\ unsaved' \in Seq(Artifact)
              /\ UNCHANGED <<auditStatus, store>> /\ Current \in Phase
    OBVIOUS
  <2>2. Tail(phases) \in Seq(Phase) /\ Current \in Phase BY <2>1, PhasesLeft
  <2> QED BY <1>e, <2>1, <2>2 DEF NextPhase
<1>d. \A s \in {"completed", "failed", "cancelled", "killed"} : EndAudit(s) =>
        /\ phases' \in Seq(Phase) /\ stage' \in {"next", "writing"} /\ unsaved' \in Seq(Artifact)
        /\ auditStatus' \in {"not_started", "running", "completed", "failed", "cancelled", "killed"}
        /\ UNCHANGED store
  BY <1>e DEF EndAudit
<1>p. PhaseFails /\ phases # <<>> =>
        /\ phases' \in Seq(Phase) /\ stage' \in {"next", "writing"} /\ unsaved' \in Seq(Artifact)
        /\ auditStatus' \in {"not_started", "running", "completed", "failed", "cancelled", "killed"}
        /\ UNCHANGED store /\ unmet' \subseteq Phase
  <2>1. phases # <<>> => Current \in Phase BY PhasesLeft
  <2> QED BY <1>d, <1>n, <2>1 DEF PhaseFails
<1>w. stage = "writing" => phases # <<>>
  BY DEF PhasesInv
<1>t. Tears => torn' \subseteq Artifact
  <2>1. unsaved # <<>> => Head(unsaved) \in Artifact BY HeadTailType
  <2> QED BY <2>1 DEF Tears
<1>s. ASSUME NEW a \in Artifact, NEW alarm \in BOOLEAN, Save(a, alarm)
      PROVE /\ unsaved' \in Seq(Artifact) /\ torn' \subseteq Artifact
            /\ store' \in [Artifact -> [from : SUBSET (1..MaxAudits), alarm : BOOLEAN]]
            /\ UNCHANGED <<audit, phases, stage, environmentReady, auditStatus, unmet, breaks>>
  <2>1. Tail(unsaved) \in Seq(Artifact) /\ auditStatus = "running"
    BY <1>s, SaveFacts
  <2>2. From(a) \subseteq 1..MaxAudits
    BY <2>1, FromFacts
  <2>3. [from |-> From(a), alarm |-> alarm] \in [from : SUBSET (1..MaxAudits), alarm : BOOLEAN]
    BY <2>2
  <2> QED BY <1>s, <2>1, <2>3 DEF Save
<1>1. ASSUME NEW plan \in Plans, StartAudit(plan) PROVE AuditTypeOK'
  <2>1. plan \in Seq(Phase) /\ audit + 1 \in 0..MaxAudits
    BY <1>1, <1>b, PlansAreOrdered DEF StartAudit
  <2>2. environmentReady' \in BOOLEAN /\ alarming' \subseteq OwnResults
    BY <1>1, Zenon DEF StartAudit
  <2> QED BY <1>1, <1>b, <1>e, <2>1, <2>2 DEF StartAudit
<1>2. CASE SkipPhase
  BY <1>2, <1>n DEF SkipPhase
<1>3. ASSUME NEW p \in Phase, BeginPhase(p) PROVE AuditTypeOK'
  <2>1. unsaved' \in Seq(Artifact) BY <1>3, SavesFacts DEF BeginPhase
  <2>2. environmentReady' \in BOOLEAN BY <1>3, Zenon DEF BeginPhase
  <2>3. unmet' \subseteq Phase BY <1>3 DEF BeginPhase
  <2> QED BY <1>3, <2>1, <2>2, <2>3 DEF BeginPhase
<1>4. CASE FailToLoad
  BY <1>4, <1>p, <1>w DEF FailToLoad
<1>5. ASSUME NEW a \in Artifact, NEW alarm \in BOOLEAN, SaveResults(a, alarm) PROVE AuditTypeOK'
  <2>1. alarming' \subseteq OwnResults BY <1>5 DEF SaveResults
  <2> QED BY <1>5, <1>s, <2>1 DEF SaveResults
<1>6. ASSUME NEW a \in Artifact, SaveDerived(a) PROVE AuditTypeOK'
  <2>1. (a = "correlated_findings" /\ \E b \in Sources[a] : store[b].alarm) \in BOOLEAN
    BY Zenon
  <2> QED BY <1>6, <1>s, <2>1 DEF SaveDerived
<1>7. ASSUME NEW d \in {"blocked", "open"}, DecideGate(d) PROVE AuditTypeOK'
  <2>1. "release_gate_decision" \in Artifact BY DEF Artifact, Sources
  <2> QED BY <1>7, <1>f, <1>s, <2>1 DEF DecideGate
<1>8. CASE EndPhase
  BY <1>8, <1>n, <1>w DEF EndPhase
<1>9. CASE FailPhase
  <2>1. breaks' \in 0..MaxBreaks BY <1>9, <1>b DEF FailPhase
  <2> QED BY <1>9, <1>p, <1>t, <1>w, <2>1 DEF FailPhase
<1>10. CASE StopAudit
  <2>1. breaks' \in 0..MaxBreaks BY <1>10, <1>b DEF StopAudit
  <2> QED BY <1>10, <1>d, <1>t, <2>1 DEF StopAudit
<1>11. CASE KillAudit
  <2>1. breaks' \in 0..MaxBreaks BY <1>11, <1>b DEF KillAudit
  <2> QED BY <1>11, <1>d, <1>t, <2>1 DEF KillAudit
<1>12. CASE CompleteAudit
  BY <1>12, <1>d DEF CompleteAudit
<1>13. CASE UNCHANGED auditVars
  BY <1>13 DEF auditVars, progress
<1>14. CASE AuditsOver
  BY <1>13, <1>14 DEF AuditsOver
<1> QED BY <1>1, <1>2, <1>3, <1>4, <1>5, <1>6, <1>7, <1>8, <1>9, <1>10, <1>11, <1>12, <1>13, <1>14
  DEF AuditNext

LEMMA PhasesStep ==
  ASSUME AuditTypeOK, PhasesInv, [AuditNext]_auditVars
  PROVE  PhasesInv'
<1>f. "release_gate_decision" \in Artifact
  BY DEF Artifact, Sources
<1>s. ASSUME NEW a \in Artifact, NEW alarm \in BOOLEAN, Save(a, alarm)
      PROVE /\ phases # <<>> /\ auditStatus = "running" /\ ToSet(unsaved) = {a} \cup ToSet(Tail(unsaved))
            /\ \A i, j \in DOMAIN Tail(unsaved) : i # j => Tail(unsaved)[i] # Tail(unsaved)[j]
            /\ \A b \in Artifact : store'[b].from \subseteq 1..audit
  <2>1. /\ phases # <<>> /\ auditStatus = "running" /\ ToSet(unsaved) = {a} \cup ToSet(Tail(unsaved))
        /\ \A i, j \in DOMAIN Tail(unsaved) : i # j => Tail(unsaved)[i] # Tail(unsaved)[j]
        /\ store'[a].from = From(a)
        /\ \A b \in Artifact \ {a} : store'[b] = store[b]
    BY <1>s, SaveFacts
  <2>2. From(a) \subseteq 1..audit BY <2>1, FromFacts
  <2>3. \A b \in Artifact : store[b].from \subseteq 1..audit BY DEF PhasesInv
  <2> QED BY <2>1, <2>2, <2>3
<1>n. phases # <<>> =>
        \A i, j \in DOMAIN Tail(phases) :
          i < j => Rank[Tail(phases)[i]] < Rank[Tail(phases)[j]] \/ Rank[Tail(phases)[j]] = AtTheEnd
  BY PhasesLeft
<1>c. \/ \E plan \in Plans : StartAudit(plan)
      \/ PhaseIsOver \/ AuditIsOver
      \/ \E p \in Phase : BeginPhase(p)
      \/ \E a \in Artifact, alarm \in BOOLEAN : SaveResults(a, alarm)
      \/ \E a \in Artifact : SaveDerived(a)
      \/ \E d \in {"blocked", "open"} : DecideGate(d)
      \/ UNCHANGED auditVars
  BY AuditSteps
<1> USE DEF PhasesInv
<1>e. DOMAIN <<>> = {} /\ ToSet(<<>>) = {}
  BY ToSetEmpty
<1>1. ASSUME NEW plan \in Plans, StartAudit(plan) PROVE PhasesInv'
  <2>1. \A i, j \in DOMAIN plan : i < j => Rank[plan[i]] < Rank[plan[j]] \/ Rank[plan[j]] = AtTheEnd
    BY PlansAreOrdered
  <2>2. audit + 1 # 0 /\ 1..audit \subseteq 1..(audit + 1)
    BY AuditWorkflowAssumption DEF AuditTypeOK
  <2> QED BY <1>1, <1>e, <2>1, <2>2 DEF StartAudit
<1>2. CASE PhaseIsOver
  <2>1. /\ \A i, j \in DOMAIN Tail(phases) :
             i < j => Rank[Tail(phases)[i]] < Rank[Tail(phases)[j]] \/ Rank[Tail(phases)[j]] = AtTheEnd
        /\ auditStatus = "running"
    BY <1>2, <1>n DEF PhaseIsOver
  <2> QED BY <1>2, <1>e, <2>1 DEF PhaseIsOver
<1>3. CASE AuditIsOver
  BY <1>3, <1>e DEF AuditIsOver
<1>4. ASSUME NEW p \in Phase, BeginPhase(p) PROVE PhasesInv'
  <2>1. /\ ToSet(unsaved') \subseteq ToSet(Writes[p])
        /\ \A i, j \in DOMAIN unsaved' : i # j => unsaved'[i] # unsaved'[j]
    BY <1>4, SavesFacts DEF BeginPhase
  <2>2. Current' = p /\ phases' = phases /\ phases # <<>> /\ auditStatus = "running"
    BY <1>4 DEF BeginPhase, Runs, Current
  <2> QED BY <1>4, <2>1, <2>2 DEF BeginPhase
<1>5. ASSUME NEW a \in Artifact, NEW alarm \in BOOLEAN, Save(a, alarm) PROVE PhasesInv'
  <2>1. Current' = Current BY <1>5 DEF Save, Current
  <2> QED BY <1>5, <1>s, <2>1 DEF Save
<1>6. CASE UNCHANGED auditVars
  BY <1>6 DEF auditVars, progress, Current
<1>7. ASSUME NEW a \in Artifact, SaveDerived(a) PROVE PhasesInv'
  <2>1. (a = "correlated_findings" /\ \E b \in Sources[a] : store[b].alarm) \in BOOLEAN
    BY Zenon
  <2> QED BY <1>5, <1>7, <2>1 DEF SaveDerived
<1>8. ASSUME NEW d \in {"blocked", "open"}, DecideGate(d) PROVE PhasesInv'
  BY <1>5, <1>8, <1>f DEF DecideGate
<1> QED BY <1>1, <1>2, <1>3, <1>4, <1>5, <1>6, <1>7, <1>8, <1>c DEF SaveResults

\* What the other steps do to what has been written.
LEMMA WroteSteps ==
  ASSUME AuditTypeOK, PhasesInv, NEW p \in Phase, NEW a
  PROVE  /\ PhaseIsOver =>
              /\ Wrote(p, a)' => Wrote(p, a) \/ (p = Current /\ p \in unmet')
              /\ Wrote(p, a) /\ Rank[p] < AtTheEnd => Wrote(p, a)'
         /\ AuditIsOver => Wrote(p, a)' /\ (phases = <<>> => Wrote(p, a))
         /\ \A q \in Phase : BeginPhase(q) =>
              /\ Wrote(p, a)' => Wrote(p, a) \/ (p = q /\ a \notin ToSet(unsaved'))
              /\ Wrote(p, a) => Wrote(p, a)'
         /\ \A plan \in Plans : StartAudit(plan) => (Wrote(p, a)' <=> p \notin ToSet(plan))
<1>1. ASSUME PhaseIsOver
      PROVE /\ Wrote(p, a)' => Wrote(p, a) \/ (p = Current /\ p \in unmet')
            /\ Wrote(p, a) /\ Rank[p] < AtTheEnd => Wrote(p, a)'
  <2>1. phases # <<>> /\ phases' = Tail(phases) /\ stage' = "next"
    BY <1>1 DEF PhaseIsOver
  <2>2. Wrote(p, a)' <=> p \notin ToSet(Tail(phases))
    BY <2>1 DEF Wrote
  <2>3. /\ ToSet(phases) = {Current} \cup ToSet(Tail(phases))
        /\ Rank[Current] < AtTheEnd => Current \notin ToSet(Tail(phases))
    BY <2>1, PhasesLeft
  <2>4. Current \in unmet' \/ (stage = "writing" /\ ToSet(unsaved) = {})
    BY <1>1, ToSetEmpty DEF PhaseIsOver
  <2> QED BY <2>2, <2>3, <2>4 DEF Wrote
<1>2. AuditIsOver => Wrote(p, a)' /\ (phases = <<>> => Wrote(p, a))
  BY ToSetEmpty DEF AuditIsOver, Wrote
<1>3. ASSUME NEW q \in Phase, BeginPhase(q)
      PROVE /\ Wrote(p, a)' => Wrote(p, a) \/ (p = q /\ a \notin ToSet(unsaved'))
            /\ Wrote(p, a) => Wrote(p, a)'
  <2>1. stage = "next" /\ phases' = phases /\ Current' = q
    BY <1>3 DEF BeginPhase, Runs, Current
  <2> QED BY <2>1 DEF Wrote
<1>4. ASSUME NEW plan \in Plans, StartAudit(plan)
      PROVE Wrote(p, a)' <=> p \notin ToSet(plan)
  BY <1>4 DEF StartAudit, Wrote
<1> QED BY <1>1, <1>2, <1>3, <1>4

\* Every plan either makes all there is to make or is known to miss a part.
LEMMA PlansMake ==
  ASSUME NEW plan \in Plans, NEW a \in Core
  PROVE  Maker[a] \in ToSet(plan) \/ "execution" \notin ToSet(plan)
<1>1. CASE plan \in {DefaultPhases, CiPhases}
  <2>1. \A i \in 1..13 : i \in DOMAIN plan /\ plan[i] = Common[i]
    BY <1>1 DEF DefaultPhases, CiPhases, Common
  <2>2. \A i \in 1..13 : Common[i] \in ToSet(plan)
    BY <2>1 DEF ToSet
  <2>3. \E i \in 1..13 : Common[i] = Maker[a]
    <3>1. /\ Common[1] = "discovery" /\ Common[2] = "planning" /\ Common[4] = "execution"
          /\ Common[5] = "security_audit" /\ Common[6] = "api_audit"
          /\ Common[8] = "finding_correlation" /\ Common[9] = "rca"
          /\ Common[10] = "runtime_validation" /\ Common[13] = "evidence_correlation"
      BY DEF Common
    <3> QED BY <3>1 DEF Core, Maker
  <2> QED BY <2>2, <2>3
<1>2. CASE plan = StaticPhases
  <2>1. DOMAIN plan = 1..12 /\ \A i \in 1..12 : plan[i] # "execution"
    BY <1>2 DEF StaticPhases
  <2> QED BY <2>1 DEF ToSet
<1> QED BY <1>1, <1>2 DEF Plans

LEMMA FreshStep ==
  ASSUME AuditTypeOK, PhasesInv, FreshInv, [AuditNext]_auditVars
  PROVE  FreshInv'
<1> SUFFICES ASSUME Going', unmet' \subseteq {"behavior_analysis"}, NEW a \in Core, Made(a)'
             PROVE  store'[a].from = {audit'}
  BY DEF FreshInv
<1>m. /\ Maker[a] \in Phase /\ Rank[Maker[a]] < AtTheEnd /\ Maker[a] # "behavior_analysis" /\ a \in Artifact
      /\ a \in ToSet(Writes[Maker[a]])
  BY CoreFacts
<1>i. Going /\ unmet \subseteq {"behavior_analysis"} => \A b \in Core : Made(b) => store[b].from = {audit}
  BY DEF FreshInv
<1>1. ASSUME NEW plan \in Plans, StartAudit(plan) PROVE FALSE
  <2>1. Maker[a] \notin ToSet(plan)
    BY <1>1, <1>m, WroteSteps DEF Made
  <2>2. "execution" \in Phase BY PhaseSet
  <2> QED BY <1>1, <2>1, <2>2, PlansMake DEF StartAudit
<1>2. CASE PhaseIsOver
  <2>1. unmet \subseteq unmet' /\ Going /\ UNCHANGED <<store, audit>>
    BY <1>2 DEF PhaseIsOver, Going
  <2>2. Wrote(Maker[a], a)
    BY <1>2, <1>m, WroteSteps DEF Made
  <2> QED BY <1>i, <2>1, <2>2 DEF Made
<1>3. CASE AuditIsOver
  <2>1. unmet \subseteq unmet' /\ Going /\ phases = <<>> /\ UNCHANGED <<store, audit>>
    BY <1>3 DEF AuditIsOver, Going
  <2>2. Wrote(Maker[a], a)
    BY <1>3, <1>m, <2>1, WroteSteps
  <2> QED BY <1>i, <2>1, <2>2 DEF Made
<1>4. ASSUME NEW p \in Phase, BeginPhase(p) PROVE store'[a].from = {audit'}
  <2>1. unmet \subseteq unmet' /\ Going /\ UNCHANGED <<store, audit>>
    BY <1>4 DEF BeginPhase, Going
  <2>2. p = Maker[a] => a \in ToSet(unsaved')
    <3>1. CASE p # "execution"
      BY <1>4, <1>m, <3>1, SavesFacts DEF BeginPhase
    <3>2. CASE p = "execution"
      <4>1. "execution" \notin unmet' OBVIOUS
      <4>2. unsaved' # <<>> BY <1>4, <3>2, <4>1 DEF BeginPhase
      <4>3. "execution_results" \in ToSet(unsaved') BY <1>4, <3>2, <4>2, SavesFacts DEF BeginPhase
      <4>4. "execution" = Maker[a] => a = "execution_results" BY DEF Core, Maker
      <4> QED BY <3>2, <4>3, <4>4
    <3> QED BY <3>1, <3>2
  <2>3. Wrote(Maker[a], a)
    BY <1>4, <1>m, <2>2, WroteSteps DEF Made
  <2> QED BY <1>i, <2>1, <2>3 DEF Made
<1>5. ASSUME NEW c \in Artifact, NEW alarm \in BOOLEAN, Save(c, alarm) PROVE store'[a].from = {audit'}
  <2>1. unmet' = unmet /\ Going /\ audit' = audit
    BY <1>5 DEF Save, Going
  <2>2. /\ phases # <<>> /\ Current \in Phase /\ c \in ToSet(Writes[Current])
        /\ store'[c].from = From(c)
        /\ \A b \in Artifact \ {c} : store'[b] = store[b]
        /\ Wrote(Maker[a], a)' <=> Wrote(Maker[a], a) \/ (Maker[a] = Current /\ a = c)
    BY <1>5, SaveFacts
  <2>3. CASE a # c
    BY <1>i, <1>m, <2>1, <2>2, <2>3 DEF Made
  <2>4. CASE a = c
    <3>1. \A b \in Sources[a] : b \in Core /\ Rank[Maker[b]] < Rank[Current]
      BY <2>2, <2>4, MakerFacts
    <3>2. \A p \in ToSet(phases) : Rank[Current] <= Rank[p] /\ p \in Phase
      BY <2>2, PhasesLeft
    <3>3. \A b \in Sources[a] : Maker[b] \notin ToSet(phases)
      <4>1. \A b \in Core : Maker[b] \in Phase BY CoreFacts
      <4>2. \A p \in Phase : Rank[p] \in 1..AtTheEnd BY CoreFacts
      <4> QED BY <2>2, <3>1, <3>2, <4>1, <4>2
    <3>4. \A b \in Sources[a] : store[b].from = {audit}
      BY <1>i, <2>1, <3>1, <3>3 DEF Made, Wrote
    <3>5. From(a) = {audit}
      BY <3>4 DEF From
    <3> QED BY <2>1, <2>2, <2>4, <3>5
  <2> QED BY <2>3, <2>4
<1>6. ASSUME NEW c \in Artifact, SaveDerived(c) PROVE store'[a].from = {audit'}
  <2>1. (c = "correlated_findings" /\ \E b \in Sources[c] : store[b].alarm) \in BOOLEAN
    BY Zenon
  <2> QED BY <1>5, <1>6, <2>1 DEF SaveDerived
<1>7. ASSUME NEW d \in {"blocked", "open"}, DecideGate(d) PROVE store'[a].from = {audit'}
  <2>1. "release_gate_decision" \in Artifact BY DEF Artifact, Sources
  <2> QED BY <1>5, <1>7, <2>1 DEF DecideGate
<1>8. CASE UNCHANGED auditVars
  <2>1. Made(a) /\ Going
    BY <1>8 DEF auditVars, progress, Made, Wrote, Current, Going
  <2> QED BY <1>8, <1>i, <2>1 DEF auditVars, progress
<1>9. ASSUME NEW c \in Artifact, NEW alarm \in BOOLEAN, SaveResults(c, alarm) PROVE store'[a].from = {audit'}
  BY <1>5, <1>9 DEF SaveResults
<1> QED BY <1>1, <1>2, <1>3, <1>4, <1>6, <1>7, <1>8, <1>9, AuditSteps

\* What a save does to findings.
LEMMA SaveFindings ==
  ASSUME AuditTypeOK, PhasesInv, AlarmInv, NEW a \in Artifact, NEW alarm \in BOOLEAN, Save(a, alarm)
  PROVE  /\ a = "correlated_findings" =>
              /\ {"security_audit", "api_audit"} \cap ToSet(phases) = {}
              /\ audit \in store'["correlated_findings"].from
         /\ a \in OwnResults => ~Told(a) /\ Told(a)'
         /\ a \in Audited => audit \notin store["correlated_findings"].from
<1>1. /\ phases # <<>> /\ Current \in Phase /\ a \in ToSet(Writes[Current]) /\ auditStatus = "running"
      /\ ToSet(unsaved) = {a} \cup ToSet(Tail(unsaved)) /\ store'[a].from = From(a)
      /\ \A p, b : Wrote(p, b)' <=> Wrote(p, b) \/ (p = Current /\ b = a)
  BY SaveFacts
<1>2. /\ Current \in ToSet(phases) /\ \A p \in ToSet(phases) : Rank[Current] <= Rank[p]
  BY <1>1, PhasesLeft
<1>3. ASSUME a = "correlated_findings"
      PROVE /\ {"security_audit", "api_audit"} \cap ToSet(phases) = {}
            /\ audit \in store'["correlated_findings"].from
  <2>1. Current \in {"finding_correlation", "rca"} BY <1>1, <1>3, MakerFacts
  <2>2. Rank[Current] \in {8, 9} /\ Rank["security_audit"] = 5 /\ Rank["api_audit"] = 6
    BY <2>1 DEF Rank
  <2> QED BY <1>1, <1>2, <1>3, <2>2, FromFacts
<1>4. ASSUME a \in OwnResults
      PROVE /\ ~Told(a) /\ Told(a)'
            /\ a \in Audited => audit \notin store["correlated_findings"].from
  <2>1. Current = Teller[a] BY <1>1, <1>4, MakerFacts
  <2>2. ~Told(a) /\ Told(a)'
    BY <1>1, <1>2, <2>1 DEF Told, Wrote
  <2>3. a \in Audited => {"security_audit", "api_audit"} \cap ToSet(phases) # {}
    BY <1>2, <2>1 DEF Audited, Teller
  <2> QED BY <2>2, <2>3 DEF AlarmInv
<1>5. Audited \subseteq OwnResults
  BY DEF Audited, OwnResults
<1> QED BY <1>3, <1>4, <1>5

LEMMA AlarmStep ==
  ASSUME AuditTypeOK, PhasesInv, AlarmInv, [AuditNext]_auditVars
  PROVE  AlarmInv'
<1>a. /\ "security_audit_results" \in Core /\ "api_audit_results" \in Core
      /\ "correlated_findings" \in Artifact /\ "security_audit_results" \in Artifact
      /\ "api_audit_results" \in Artifact /\ "release_gate_decision" \in Artifact
      /\ Sources["correlated_findings"] = CorrelatorReads
  BY DEF Core, Maker, Artifact, Sources
<1>m. \A a \in OwnResults : Teller[a] \in Phase /\ Rank[Teller[a]] < AtTheEnd
  BY PhaseSet DEF OwnResults, Teller, Rank, AtTheEnd
<1>p. \A p \in {"finding_correlation", "rca"} :
        p \in Phase /\ p # "execution" /\ "correlated_findings" \in ToSet(Writes[p])
  <2>1. "correlated_findings" \in ToSet(Writes["rca"])
    <3>1. 1 \in DOMAIN Writes["rca"] /\ Writes["rca"][1] = "correlated_findings" BY WritesFacts
    <3> QED BY <3>1 DEF ToSet
  <2>2. "correlated_findings" \in ToSet(Writes["finding_correlation"])
    BY CoreFacts DEF Core, Maker
  <2> QED BY <2>1, <2>2, PhaseSet DEF Rank
<1>i. /\ \A a \in alarming : store[a].alarm /\ Told(a)
      /\ {"security_audit", "api_audit"} \cap ToSet(phases) # {}
           => audit \notin store["correlated_findings"].from
      /\ Alarmed /\ audit \in store["correlated_findings"].from => store["correlated_findings"].alarm
      /\ \A p \in {"finding_correlation", "rca"} :
           Going /\ p \notin unmet /\ Wrote(p, "correlated_findings")
             => audit \in store["correlated_findings"].from
  BY DEF AlarmInv
<1>c. /\ alarming \subseteq OwnResults /\ OwnResults \subseteq Artifact
      /\ CorrelatorReads \cap OwnResults = Audited /\ "correlated_findings" \notin OwnResults
  BY DEF AuditTypeOK, OwnResults, Audited, CorrelatorReads, Artifact, Sources
<1>d. UNCHANGED alarming => (Alarmed' <=> Alarmed)
  BY DEF Alarmed
<1>1. ASSUME NEW plan \in Plans, StartAudit(plan) PROVE AlarmInv'
  <2>1. alarming' = {} /\ ~Alarmed' /\ audit' = audit + 1 /\ store' = store /\ unmet' = Phase \ ToSet(plan)
    BY <1>1 DEF StartAudit, Alarmed
  <2>2. audit' \notin store'["correlated_findings"].from
    <3>1. store["correlated_findings"].from \subseteq 1..audit BY <1>a DEF PhasesInv
    <3>2. audit \in Nat BY AuditWorkflowAssumption DEF AuditTypeOK
    <3> QED BY <2>1, <3>1, <3>2
  <2>3. ASSUME NEW p \in {"finding_correlation", "rca"}, p \notin unmet'
        PROVE ~Wrote(p, "correlated_findings")'
    BY <1>1, <1>p, <2>1, <2>3, WroteSteps
  <2> QED BY <2>1, <2>2, <2>3 DEF AlarmInv
<1>2. CASE PhaseIsOver
  <2>1. UNCHANGED <<audit, auditStatus, store, alarming>> /\ unmet \subseteq unmet'
        /\ phases # <<>> /\ phases' = Tail(phases)
    BY <1>2 DEF PhaseIsOver
  <2>2. ToSet(phases') \subseteq ToSet(phases) BY <2>1, PhasesLeft
  <2>3. \A a \in OwnResults : Told(a) => Told(a)'
    BY <1>2, <1>m, WroteSteps DEF Told
  <2>4. \A p \in {"finding_correlation", "rca"} : p \notin unmet' /\ Wrote(p, "correlated_findings")'
                                                  => Wrote(p, "correlated_findings")
    BY <1>2, <1>p, WroteSteps
  <2>5. Going' = Going BY <2>1 DEF Going
  <2> QED BY <1>c, <1>d, <1>i, <2>1, <2>2, <2>3, <2>4, <2>5 DEF AlarmInv
<1>3. CASE AuditIsOver
  <2>1. UNCHANGED <<audit, store, alarming>> /\ unmet \subseteq unmet' /\ ToSet(phases') = {}
    BY <1>3, ToSetEmpty DEF AuditIsOver
  <2>2. \A a \in OwnResults : Told(a)'
    BY <1>3, <1>m, WroteSteps DEF Told
  <2>3. Going' => Going /\ phases = <<>>
    BY <1>3 DEF AuditIsOver, Going
  <2>4. \A p \in {"finding_correlation", "rca"} : phases = <<>> => Wrote(p, "correlated_findings")
    BY <1>3, <1>p, WroteSteps
  <2> QED BY <1>c, <1>d, <1>i, <2>1, <2>2, <2>3, <2>4 DEF AlarmInv
<1>4. ASSUME NEW p \in Phase, BeginPhase(p) PROVE AlarmInv'
  <2>1. UNCHANGED <<audit, phases, auditStatus, store, alarming>> /\ unmet \subseteq unmet' /\ unsaved' \in Saves(p)
    BY <1>4 DEF BeginPhase
  <2>2. \A a \in OwnResults : Told(a) => Told(a)'
    BY <1>4, <1>m, WroteSteps DEF Told
  <2>3. \A q \in {"finding_correlation", "rca"} : q = p => "correlated_findings" \in ToSet(unsaved')
    BY <1>p, <2>1, SavesFacts
  <2>4. \A q \in {"finding_correlation", "rca"} : Wrote(q, "correlated_findings")'
                                                  => Wrote(q, "correlated_findings")
    BY <1>4, <1>p, <2>3, WroteSteps
  <2>5. Going' = Going BY <2>1 DEF Going
  <2> QED BY <1>c, <1>d, <1>i, <2>1, <2>2, <2>4, <2>5 DEF AlarmInv
<1>5. ASSUME NEW c \in Artifact, NEW alarm \in BOOLEAN, Save(c, alarm),
             \/ c \in OwnResults /\ alarming' = IF alarm THEN alarming \cup {c} ELSE alarming
             \/ c \notin OwnResults /\ alarming' = alarming,
             c = "correlated_findings" /\ Alarmed => alarm
      PROVE AlarmInv'
  <2>1. UNCHANGED <<audit, phases, auditStatus, unmet>> /\ Going' = Going
    BY <1>5 DEF Save, Going
  <2>2. /\ store'[c].from = From(c) /\ store'[c].alarm = alarm
        /\ \A b \in Artifact \ {c} : store'[b] = store[b]
        /\ \A p, b : Wrote(p, b)' <=> Wrote(p, b) \/ (p = Current /\ b = c)
    BY <1>5, SaveFacts
  <2>3. /\ c = "correlated_findings" =>
             /\ {"security_audit", "api_audit"} \cap ToSet(phases) = {}
             /\ audit \in store'["correlated_findings"].from
        /\ c \in OwnResults => ~Told(c) /\ Told(c)'
        /\ c \in Audited => audit \notin store["correlated_findings"].from
    BY <1>5, SaveFindings
  <2>4. c \notin alarming
    BY <1>c, <1>i, <2>3
  <2>5. ASSUME NEW a \in alarming' PROVE store'[a].alarm /\ Told(a)'
    <3>1. CASE a = c
      <4>1. alarm /\ c \in OwnResults BY <1>5, <2>4, <3>1
      <4> QED BY <2>2, <2>3, <3>1, <4>1
    <3>2. CASE a # c
      <4>1. a \in alarming /\ a \in Artifact BY <1>5, <1>c, <3>2
      <4>2. Told(a) => Told(a)' BY <2>2 DEF Told
      <4> QED BY <1>i, <2>2, <3>2, <4>1, <4>2
    <3> QED BY <3>1, <3>2
  <2>6. {"security_audit", "api_audit"} \cap ToSet(phases) # {} => audit \notin store'["correlated_findings"].from
    BY <1>a, <1>i, <2>2, <2>3
  <2>7. Alarmed' /\ audit \in store'["correlated_findings"].from => store'["correlated_findings"].alarm
    <3>1. CASE c = "correlated_findings" BY <1>5, <1>c, <1>d, <2>2, <3>1
    <3>2. CASE c # "correlated_findings"
      <4>1. store'["correlated_findings"] = store["correlated_findings"] BY <1>a, <2>2, <3>2
      <4>2. Alarmed' => Alarmed \/ c \in Audited
        BY <1>5, <1>c DEF Alarmed
      <4> QED BY <1>i, <2>3, <4>1, <4>2
    <3> QED BY <3>1, <3>2
  <2>8. ASSUME NEW p \in {"finding_correlation", "rca"}, Going, p \notin unmet, Wrote(p, "correlated_findings")'
        PROVE audit \in store'["correlated_findings"].from
    <3>1. CASE c = "correlated_findings" BY <2>3, <3>1
    <3>2. CASE c # "correlated_findings"
      BY <1>a, <1>i, <2>2, <2>8, <3>2
    <3> QED BY <3>1, <3>2
  <2> QED BY <2>1, <2>5, <2>6, <2>7, <2>8 DEF AlarmInv
<1>6. ASSUME NEW c \in Artifact, NEW alarm \in BOOLEAN, SaveResults(c, alarm) PROVE AlarmInv'
  <2>1. c \in OwnResults /\ Save(c, alarm) /\ alarming' = IF alarm THEN alarming \cup {c} ELSE alarming
    BY <1>6 DEF SaveResults
  <2>2. c # "correlated_findings" BY <1>c, <2>1
  <2> QED BY <1>5, <2>1, <2>2
<1>7. ASSUME NEW c \in Artifact, SaveDerived(c) PROVE AlarmInv'
  <2>1. (c = "correlated_findings" /\ \E b \in Sources[c] : store[b].alarm) \in BOOLEAN
    BY Zenon
  <2>2. c = "correlated_findings" /\ Alarmed => \E b \in Sources[c] : store[b].alarm
    BY <1>a, <1>i DEF Alarmed
  <2>3. /\ Save(c, c = "correlated_findings" /\ \E b \in Sources[c] : store[b].alarm)
        /\ alarming' = alarming /\ c \notin OwnResults
    BY <1>7 DEF SaveDerived
  <2> QED BY <1>5, <2>1, <2>2, <2>3
<1>8. ASSUME NEW d \in {"blocked", "open"}, DecideGate(d) PROVE AlarmInv'
  <2>1. Save("release_gate_decision", FALSE) /\ alarming' = alarming
    BY <1>8 DEF DecideGate
  <2>2. "release_gate_decision" \notin OwnResults BY DEF OwnResults
  <2> QED BY <1>5, <1>a, <2>1, <2>2
<1>9. CASE UNCHANGED auditVars
  BY <1>9, <1>d DEF auditVars, progress, AlarmInv, Told, Wrote, Current, Going
<1> QED BY <1>1, <1>2, <1>3, <1>4, <1>6, <1>7, <1>8, <1>9, AuditSteps

LEMMA GateStep ==
  ASSUME AuditTypeOK, PhasesInv, AlarmInv, GateInv, [AuditNext]_auditVars
  PROVE  GateInv'
<1>a. /\ "correlated_findings" \in Artifact /\ "evidence_graph" \in Artifact /\ "release_gate_decision" \in Artifact
      /\ "finding_correlation" \in Phase /\ "rca" \in Phase
  BY PhaseSet DEF Artifact, Sources, Rank
<1>i. /\ gate # "none" => \A p \in ToSet(phases) : Rank[p] = AtTheEnd
      /\ gate = "open" => /\ Present("evidence_graph")
                          /\ Alarmed => /\ {"finding_correlation", "rca"} \subseteq unmet
                                        /\ audit \notin store["correlated_findings"].from
                          /\ "findings" \in alarming => Present("correlated_findings")
  BY DEF GateInv, OpenGateIsExplained, Alarmed
<1>k. ASSUME UNCHANGED <<audit, store, gate, alarming>>, unmet \subseteq unmet', ToSet(phases') \subseteq ToSet(phases)
      PROVE GateInv'
  BY <1>i, <1>k DEF GateInv, OpenGateIsExplained, Present
<1>1. ASSUME NEW plan \in Plans, StartAudit(plan) PROVE GateInv'
  BY <1>1 DEF StartAudit, GateInv, OpenGateIsExplained
<1>2. CASE PhaseIsOver
  BY <1>2, <1>k, PhasesLeft DEF PhaseIsOver
<1>3. CASE AuditIsOver
  BY <1>3, <1>k, ToSetEmpty DEF AuditIsOver
<1>4. ASSUME NEW p \in Phase, BeginPhase(p) PROVE GateInv'
  BY <1>4, <1>k DEF BeginPhase
<1>5. ASSUME NEW c \in Artifact, NEW alarm \in BOOLEAN, Save(c, alarm), gate # "none",
             c \in OwnResults \/ alarming' = alarming, gate' = gate
      PROVE GateInv'
  <2>1. UNCHANGED <<audit, phases, unmet>>
    BY <1>5 DEF Save
  <2>2. /\ phases # <<>> /\ Current \in Phase /\ c \in ToSet(Writes[Current])
        /\ \A b \in Artifact \ {c} : store'[b] = store[b]
    BY <1>5, SaveFacts
  <2>3. Rank[Current] = AtTheEnd BY <1>5, <1>i, <2>2, PhasesLeft
  <2>4. c \in {"baseline_comparison", "release_gate_decision", "audit_summary"}
    BY <2>2, <2>3, MakerFacts
  <2>5. store'["correlated_findings"] = store["correlated_findings"]
        /\ store'["evidence_graph"] = store["evidence_graph"]
    BY <1>a, <2>2, <2>4
  <2>6. alarming' = alarming BY <1>5, <2>4 DEF OwnResults
  <2> QED BY <1>5, <1>i, <2>1, <2>5, <2>6 DEF GateInv, OpenGateIsExplained, Alarmed, Present
<1>6. ASSUME gate' = "none" PROVE GateInv'
  BY <1>6 DEF GateInv, OpenGateIsExplained
<1>t. gate # "none" \/ gate = "none"
  OBVIOUS
<1>7. ASSUME NEW c \in Artifact, NEW alarm \in BOOLEAN, SaveResults(c, alarm) PROVE GateInv'
  <2>1. Save(c, alarm) /\ gate' = gate /\ c \in OwnResults BY <1>7 DEF SaveResults
  <2> QED BY <1>5, <1>6, <2>1
<1>8. ASSUME NEW c \in Artifact, SaveDerived(c) PROVE GateInv'
  <2>1. (c = "correlated_findings" /\ \E b \in Sources[c] : store[b].alarm) \in BOOLEAN
    BY Zenon
  <2>2. Save(c, c = "correlated_findings" /\ \E b \in Sources[c] : store[b].alarm)
        /\ alarming' = alarming /\ gate' = gate
    BY <1>8 DEF SaveDerived
  <2> QED BY <1>5, <1>6, <2>1, <2>2
<1>9. ASSUME NEW d \in {"blocked", "open"}, DecideGate(d) PROVE GateInv'
  <2>1. Save("release_gate_decision", FALSE) /\ alarming' = alarming /\ gate' = d /\ d \in Decisions
    BY <1>9 DEF DecideGate
  <2>2. /\ phases # <<>> /\ Current \in Phase /\ "release_gate_decision" \in ToSet(Writes[Current])
        /\ auditStatus = "running"
        /\ \A b \in Artifact \ {"release_gate_decision"} : store'[b] = store[b]
    BY <1>a, <2>1, SaveFacts
  <2>3. Current = "release_gate_evaluation" BY <2>2, MakerFacts
  <2>4. \A p \in ToSet(phases) : Rank[p] = AtTheEnd
    <3>1. Rank[Current] = AtTheEnd BY <2>3 DEF Rank
    <3>2. \A p \in Phase : Rank[p] \in 1..AtTheEnd BY CoreFacts
    <3>3. \A p \in ToSet(phases) : p \in Phase /\ Rank[Current] <= Rank[p] BY <2>2, PhasesLeft
    <3> QED BY <3>1, <3>2, <3>3 DEF AtTheEnd
  <2>5. /\ UNCHANGED <<audit, phases, unmet>>
        /\ store'["correlated_findings"] = store["correlated_findings"]
        /\ store'["evidence_graph"] = store["evidence_graph"]
    BY <1>a, <2>1, <2>2 DEF Save
  <2>6. ASSUME d = "open"
        PROVE /\ Present("evidence_graph")
              /\ Alarmed => /\ {"finding_correlation", "rca"} \subseteq unmet
                            /\ audit \notin store["correlated_findings"].from
              /\ "findings" \in alarming => Present("correlated_findings")
    <3>1. Present("evidence_graph")
      BY <2>1, <2>6 DEF Decisions
    <3>2. store["correlated_findings"].alarm => Present("correlated_findings")
      BY DEF Present, Absent
    <3>3. ~store["correlated_findings"].alarm
      BY <2>1, <2>6, <3>2 DEF Decisions
    <3>4. Alarmed => audit \notin store["correlated_findings"].from
      BY <3>3 DEF AlarmInv
    <3>5. \A p \in {"finding_correlation", "rca"} : Wrote(p, "correlated_findings")
      <4>1. Rank["finding_correlation"] # AtTheEnd /\ Rank["rca"] # AtTheEnd BY DEF Rank, AtTheEnd
      <4> QED BY <2>4, <4>1 DEF Wrote
    <3>6. Alarmed => {"finding_correlation", "rca"} \subseteq unmet
      BY <2>2, <3>4, <3>5 DEF AlarmInv, Going
    <3>7. "findings" \in alarming => Present("correlated_findings")
      BY <2>1, <2>6 DEF AlarmInv, Decisions
    <3> QED BY <3>1, <3>4, <3>6, <3>7
  <2> QED BY <2>1, <2>4, <2>5, <2>6 DEF GateInv, OpenGateIsExplained, Alarmed, Present
<1>10. CASE UNCHANGED auditVars
  BY <1>10, <1>k DEF auditVars, progress
<1> QED BY <1>1, <1>2, <1>3, <1>4, <1>7, <1>8, <1>9, <1>10, AuditSteps

LEMMA AuditInvStep == AuditInv /\ [AuditNext]_auditVars => AuditInv'
BY AuditTypeStep, PhasesStep, FreshStep, AlarmStep, GateStep DEF AuditInv

LEMMA AuditInvariance == AuditSpec => []AuditInv
<1> QED BY AuditInitInv, AuditInvStep, PTL DEF AuditSpec

\* An audit that completed and missed nothing leaves findings, risks and
\* evidence made of its own results only (WorkflowEngine.run over one artifacts
\* directory), whatever earlier audits left and whatever broke.
THEOREM CompletedAuditIsItsOwnHolds == AuditSpec => []CompletedAuditIsItsOwn
<1>1. AuditInv => CompletedAuditIsItsOwn
  <2>1. SUFFICES ASSUME AuditInv, auditStatus = "completed", unmet \subseteq {"behavior_analysis"},
                        NEW a \in {"correlated_findings", "overall_risk_report", "verified_findings", "evidence_graph"}
                 PROVE store[a].from = {audit}
    BY DEF CompletedAuditIsItsOwn
  <2>2. phases = <<>> BY <2>1 DEF AuditInv, PhasesInv
  <2>3. Made(a) BY <2>2, ToSetEmpty DEF Made, Wrote
  <2>4. a \in Core BY DEF Core, Maker
  <2> QED BY <2>1, <2>3, <2>4 DEF AuditInv, FreshInv, Going
<1> QED BY <1>1, AuditInvariance, PTL

\* A release gate opens on evidence, and over a critical finding of an audit
\* that is correlated only if both phases that correlate failed and what it
\* looked at is an earlier audit's or nothing; over one of the tests' only if
\* there are correlated findings to look at instead (ReleaseGateEngine).
THEOREM OpenGateIsExplainedHolds == AuditSpec => []OpenGateIsExplained
<1>1. AuditInv => OpenGateIsExplained
  BY DEF AuditInv, GateInv
<1> QED BY <1>1, AuditInvariance, PTL

-----------------------------------------------------------------------------
(* The services side by side *)

\* The runs look at the services together: whatever service a behaviour is
\* about, it is a behaviour of each of them (which for the four that stand
\* still says that they do not move), so what holds of each one's own
\* specification holds of all behaviours of ServicesSpec.
THEOREM ServicesAreEachTheirOwn ==
  ServicesSpec => Spec /\ StepSpec /\ BaselineSpec /\ RoutingSpec /\ HealthSpec
<1>1. ServicesInit => Init /\ StepInit /\ BaselineInit /\ RoutingInit /\ HealthInit
  BY DEF ServicesInit
<1>2. [ServicesNext]_servicesVars => /\ [Next]_vars /\ [StepNext]_stepVars /\ [BaselineNext]_baselineVars
                                     /\ [RoutingNext]_routingVars /\ [HealthNext]_healthVars
  BY DEF ServicesNext, servicesVars
<1> QED BY <1>1, <1>2, PTL
  DEF ServicesSpec, Spec, StepSpec, BaselineSpec, RoutingSpec, HealthSpec

\* The state of every service stays in the sets its code keeps it in, the
\* queues of the event stream within their limit.
THEOREM ServicesTypeOKHolds == ServicesSpec => []ServicesTypeOK
<1>1. TypeInv => TypeOK BY DEF TypeInv
<1>2. StepInv => StepTypeOK BY DEF StepInv
<1>3. BaselineInv => BaselineTypeOK BY DEF BaselineInv
<1>4. RoutingInv => RoutingTypeOK BY DEF RoutingInv
<1>5. HealthInv => HealthTypeOK BY DEF HealthInv
<1>7. ServicesSpec => []TypeInv
  BY ServicesAreEachTheirOwn, InitTypeInv, NextTypeInv, PTL DEF Spec
<1>8. ServicesSpec => []StepInv
  BY ServicesAreEachTheirOwn, StepInvariance, PTL
<1>9. ServicesSpec => []BaselineInv
  BY ServicesAreEachTheirOwn, BaselineInitInv, BaselineInvStep, PTL DEF BaselineSpec
<1>10. ServicesSpec => []RoutingInv
  BY ServicesAreEachTheirOwn, RoutingInitInv, RoutingInvStep, PTL DEF RoutingSpec
<1>11. ServicesSpec => []HealthInv
  BY ServicesAreEachTheirOwn, HealthInvariance, PTL
<1>12. TypeOK /\ StepTypeOK /\ BaselineTypeOK /\ RoutingTypeOK /\ HealthTypeOK => ServicesTypeOK
  BY DEF ServicesTypeOK
<1> QED BY <1>1, <1>2, <1>3, <1>4, <1>5, <1>7, <1>8, <1>9, <1>10, <1>11, <1>12, PTL
=============================================================================
