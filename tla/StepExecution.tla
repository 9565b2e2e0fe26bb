--------------------------- MODULE StepExecution ---------------------------
(***************************************************************************)
(* How a run's thread executes its steps: which engine takes a step, how   *)
(* the browser's context is reset or continued, when the application is    *)
(* loaded first, what the engine's attempt, the checks laid over it and    *)
(* the evidence make of the step's status, and when the loop stops.  One   *)
(* thread; the hazards are failures in any of these places, and state that *)
(* one step leaves for the next.  The rows the thread writes belong to     *)
(* RunLifecycle, the baselines of visual steps to VisualBaseline.          *)
(***************************************************************************)
EXTENDS Naturals

CONSTANTS
  Case,     \* test cases
  NoCase,   \* a step that belongs to none
  MaxPlan   \* bound: steps of the run

ASSUME StepExecutionAssumption == NoCase \notin Case /\ MaxPlan \in Nat

VARIABLES
  continuous,    \* options.continuous (never changes)
  hasUrl,        \* whether the run's target has a URL to load (never changes)
  cancelSet,     \* the run's cancel flag
  at,            \* where the thread is
  step,          \* the step being executed
  browser,       \* whether a browser was launched
  page,          \* the page of the engine's context
  touched,       \* cases whose steps have acted in that context
  previousCase,  \* the local of _execute
  flow,          \* continue_flow
  result,        \* the step's result so far
  responded,     \* whether api_context has a last_response
  executed,      \* steps that are over
  failures,      \* whether any of them counts as failed
  conclusion,    \* final_status
  troubled       \* history: cases with a failed step

engineVars == <<browser, page, touched, previousCase, flow>>
stepVars == <<continuous, hasUrl, cancelSet, at, step, engineVars, result, responded, executed, failures, conclusion, troubled>>

\* Actions by family; "act" stands for all web actions the engine judges
\* alone, "measure" for those among them that write a report of their own
\* (performance, accessibility).
Browser == {"navigate", "act", "measure", "security", "visual"}
Api == {"request", "assertion"}
Kind == Browser \cup Api \cup {"dry", "unavailable"}
Steps == [kind : Kind, case : Case \cup {NoCase}]

\* raised: the attempt ended in an exception.
Statuses == {"passed", "failed", "error", "capability_gap", "inconclusive", "dry_run_only", "cancelled"}
Results == [status : Statuses, raised : BOOLEAN]
Outcome(s) == [status |-> s, raised |-> FALSE]
Raised == [status |-> "error", raised |-> TRUE]
NoStep == [kind |-> "dry", case |-> NoCase]

StepInit ==
  /\ continuous \in BOOLEAN /\ hasUrl \in BOOLEAN /\ cancelSet = FALSE
  /\ at = "loop" /\ step = NoStep
  /\ browser = "none" /\ page = "none" /\ touched = {} /\ previousCase = NoCase /\ flow = FALSE
  /\ result = Outcome("passed") /\ responded = FALSE
  /\ executed = 0 /\ failures = FALSE /\ conclusion = "none"
  /\ troubled = {}

-----------------------------------------------------------------------------
\* RunManager.cancel_run
SetCancel ==
  /\ conclusion = "none" /\ ~cancelSet /\ cancelSet' = TRUE
  /\ UNCHANGED <<continuous, hasUrl, at, step, engineVars, result, responded, executed, failures, conclusion, troubled>>

\* The head of the loop, and classify_action_family.
BeginStep(s) ==
  /\ at = "loop" /\ executed < MaxPlan /\ ~cancelSet
  /\ step' = s
  /\ at' = IF s.kind \in Browser THEN "prepare" ELSE "act"
  /\ UNCHANGED <<continuous, hasUrl, cancelSet, engineVars, result, responded, executed, failures, conclusion, troubled>>

Prepared == at' = "preload" /\ UNCHANGED result
Unprepared == at' = "record" /\ result' = Outcome("error")
FreshContext == page' = "blank" /\ touched' = {}

\* reset_context
ResetContext ==
  \/ FreshContext /\ Prepared
  \/ page' = "none" /\ touched' = {} /\ Unprepared

\* Mutant: a flow is continued from one case into the next.
ContinuesAnyFlow == continuous /\ step.case # NoCase

ContinuesFlow == continuous /\ step.case # NoCase /\ step.case = previousCase

\* A browser is launched when there is none, with a context of its own; then
\* the context is continued within a test case, and reset otherwise.
PrepareBrowser ==
  /\ at = "prepare" /\ previousCase' = step.case
  /\ \/ browser = "none" /\ UNCHANGED browser
        /\ page' = "none" /\ touched' = {} /\ flow' = FALSE /\ Unprepared
     \/ browser = "none" /\ browser' = "up" /\ ContinuesFlow
        /\ FreshContext /\ flow' = TRUE /\ Prepared
     \/ (browser = "up" \/ ~ContinuesFlow) /\ browser' = "up" /\ flow' = FALSE /\ ResetContext
     \/ browser = "up" /\ ContinuesFlow /\ page \notin {"none", "gone"}
        /\ flow' = TRUE /\ Prepared /\ UNCHANGED <<browser, page, touched>>
  /\ UNCHANGED <<continuous, hasUrl, cancelSet, step, responded, executed, failures, conclusion, troubled>>

\* Mutant: the application is loaded for the first step of the run only.
PreloadOnce ==
  /\ at = "preload" /\ at' = "act"
  /\ page' = IF executed = 0 THEN "loaded" ELSE page
  /\ UNCHANGED <<continuous, hasUrl, cancelSet, step, browser, touched, previousCase, flow, result, responded, executed, failures, conclusion, troubled>>

\* The application is loaded first, unless the step navigates itself or
\* continues a flow, or there is no target_url.
Preload ==
  /\ at = "preload"
  /\ \/ (step.kind = "navigate" \/ flow \/ ~hasUrl) /\ at' = "act" /\ UNCHANGED <<page, result>>
     \/ step.kind # "navigate" /\ ~flow /\ hasUrl
        /\ \/ at' = "act" /\ page' = "loaded" /\ UNCHANGED result
           \/ at' = "record" /\ result' = Raised /\ UNCHANGED page
  /\ UNCHANGED <<continuous, hasUrl, cancelSet, step, browser, touched, previousCase, flow, responded, executed, failures, conclusion, troubled>>

-----------------------------------------------------------------------------
(* The attempt                                                              *)

\* execute_action: refused before it is tried, ended by an exception, tried
\* and not met, or done.  A security or visual action is judged later.  What
\* is done may close the page.
ActInBrowser ==
  /\ at = "act" /\ step.kind \in Browser /\ ~cancelSet
  /\ touched' = touched \cup {step.case}
  /\ \/ result' = Outcome("failed") /\ UNCHANGED page
     \/ result' = Raised /\ page' \in {page, "gone"}
     \/ step.kind \in {"act", "measure"} /\ result' = Outcome("failed") /\ page' \in {page, "gone"}
     \/ result' = Outcome("passed")
        /\ page' \in {IF step.kind = "navigate" THEN "loaded" ELSE page, "gone"}
  /\ at' = "judge"
  /\ UNCHANGED <<continuous, hasUrl, cancelSet, step, browser, previousCase, flow, responded, executed, failures, conclusion, troubled>>

\* _execute_request: refused or not answered, last_response stays what it was.
SendRequest ==
  /\ at = "act" /\ step.kind = "request"
  /\ \/ result' \in {Outcome("failed"), Raised} /\ UNCHANGED responded
     \/ result' \in {Outcome("passed"), Outcome("failed")} /\ responded' = TRUE
  /\ at' = "judge"
  /\ UNCHANGED <<continuous, hasUrl, cancelSet, step, engineVars, executed, failures, conclusion, troubled>>

\* _execute_assertion
AssertResponse ==
  /\ at = "act" /\ step.kind = "assertion"
  /\ \/ result' = Outcome("failed")
     \/ responded /\ result' = Outcome("passed")
  /\ at' = "judge"
  /\ UNCHANGED <<continuous, hasUrl, cancelSet, step, engineVars, responded, executed, failures, conclusion, troubled>>

\* _run_step_safe, the unavailable families, and a step cancelled at its start.
ActWithoutEngine ==
  /\ at = "act" /\ at' = "record"
  /\ \/ step.kind = "dry" /\ ~cancelSet /\ result' \in {Outcome("dry_run_only"), Outcome("inconclusive")}
     \/ step.kind = "unavailable" /\ result' = Outcome("capability_gap")
     \/ step.kind \in Browser \cup {"dry"} /\ cancelSet /\ result' = Outcome("cancelled")
  /\ UNCHANGED <<continuous, hasUrl, cancelSet, step, engineVars, responded, executed, failures, conclusion, troubled>>

-----------------------------------------------------------------------------
(* What becomes of it                                                       *)

\* Mutant: so does the comparison of a visual step.
JudgementsWhatever ==
  IF step.kind = "security" THEN {"passed", "failed"}
  ELSE IF step.kind = "visual" THEN {"passed", "failed", "capability_gap"}
  ELSE {result.status}

\* The findings of a security step decide, whatever its attempt came to; the
\* comparison of a visual step decides if its attempt passed.
Judgements ==
  IF step.kind = "security" THEN {"passed", "failed"}
  ELSE IF step.kind = "visual" /\ result.status = "passed"
       THEN {"passed", "failed", "capability_gap"}
  ELSE {result.status}

Judge ==
  /\ at = "judge" /\ at' = "evidence"
  /\ result' \in {[result EXCEPT !.status = s] : s \in Judgements}
  /\ UNCHANGED <<continuous, hasUrl, cancelSet, step, engineVars, responded, executed, failures, conclusion, troubled>>

\* Evidence that cannot be stored is logged (screenshot, console, network,
\* HTML) or ends the run with an exception (all other).
StoreEvidence ==
  /\ at = "evidence"
  /\ \/ at' = "record" /\ UNCHANGED conclusion
     \/ step.kind \in Api \cup {"measure", "security"} /\ at' = "ended" /\ conclusion' = "failed"
  /\ UNCHANGED <<continuous, hasUrl, cancelSet, step, engineVars, result, responded, executed, failures, troubled>>

Counted == {"failed", "error", "capability_gap", "inconclusive"}

\* The end of the loop's body, for a step that is optional or not.
RecordStep(optional) ==
  /\ at = "record"
  /\ executed' = executed + 1
  /\ failures' = (failures \/ result.status \in Counted)
  /\ troubled' = IF result.status \in {"failed", "error"} THEN troubled \cup {step.case} ELSE troubled
  /\ at' = IF cancelSet \/ (result.status \in {"failed", "error"} /\ ~optional) THEN "finish" ELSE "loop"
  /\ step' = NoStep /\ result' = Outcome("passed")
  /\ UNCHANGED <<continuous, hasUrl, cancelSet, engineVars, responded, conclusion>>

\* After the last step, the break or the loop's look at the flag.
Conclude ==
  /\ at \in {"loop", "finish"} /\ at' = "ended"
  /\ conclusion' = IF cancelSet THEN "cancelled" ELSE IF failures THEN "failed" ELSE "completed"
  /\ UNCHANGED <<continuous, hasUrl, cancelSet, step, engineVars, result, responded, executed, failures, troubled>>

RunOver == at = "ended" /\ UNCHANGED stepVars

StepNext ==
  \/ SetCancel \/ (\E s \in Steps : BeginStep(s)) \/ PrepareBrowser \/ Preload
  \/ ActInBrowser \/ SendRequest \/ AssertResponse \/ ActWithoutEngine
  \/ Judge \/ StoreEvidence \/ (\E o \in BOOLEAN : RecordStep(o)) \/ Conclude \/ RunOver

StepSpec == StepInit /\ [][StepNext]_stepVars
-----------------------------------------------------------------------------
(* Properties *)

StepTypeOK ==
  /\ continuous \in BOOLEAN /\ hasUrl \in BOOLEAN /\ cancelSet \in BOOLEAN /\ flow \in BOOLEAN
  /\ at \in {"loop", "prepare", "preload", "act", "judge", "evidence", "record", "finish", "ended"}
  /\ step \in Steps /\ result \in Results
  /\ browser \in {"none", "up"} /\ page \in {"none", "blank", "loaded", "gone"}
  /\ touched \subseteq Case \cup {NoCase} /\ previousCase \in Case \cup {NoCase}
  /\ responded \in BOOLEAN /\ executed \in 0..MaxPlan /\ failures \in BOOLEAN
  /\ troubled \subseteq Case \cup {NoCase}
  /\ conclusion \in {"none", "completed", "failed", "cancelled"}

Acting == at = "act" /\ step.kind \in Browser

\* "Continue the page and session only inside one test case; every other step
\* starts clean": whatever failed before, the context a browser step acts in
\* has seen no step of another case, and none at all unless the run is
\* continuous.
StepsAreIsolated ==
  Acting => touched \subseteq (IF continuous THEN {step.case} \ {NoCase} ELSE {})

\* Where the target has a URL, a browser step acts on the application it was
\* to load.  The exception is what continue_flow makes of a case whose earlier
\* step failed before the page was there: its next step is not loaded again
\* and meets a blank page.  (A target without a URL is loaded by no one but
\* the run's own navigate steps.)
BlankOnlyAfterFailure ==
  hasUrl /\ Acting /\ step.kind # "navigate" /\ page # "loaded" => flow /\ step.case \in troubled

\* "Browser/API runtime exception after a real attempt: `error`, honest
\* provenance": whatever is laid over an attempt that ended in an exception, it
\* stays an error.  Security steps are left out: their findings alone decide,
\* and an attempt that raised is "passed" where there are none.
ErrorIsKept == at = "record" /\ result.raised /\ step.kind # "security" => result.status = "error"
=============================================================================
