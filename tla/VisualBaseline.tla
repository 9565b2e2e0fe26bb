--------------------------- MODULE VisualBaseline ---------------------------
(***************************************************************************)
(* The approved image of one step of one application: a row of             *)
(* visual_baselines and the file it names, shared by the visual steps of   *)
(* concurrent runs and by POST /baselines.  Each operation reads the row,  *)
(* then writes file and row in statements of its own, in an order that     *)
(* differs from one to the other; nothing serialises them and nothing      *)
(* undoes half of one.  An image is named after the operation it was       *)
(* taken for.                                                              *)
(***************************************************************************)
EXTENDS Naturals, Sequences, SequencesExt

CONSTANTS
  Operation,   \* visual steps and requests, one execution each
  Earlier,     \* the image approved before all of them
  NoImage, TornImage   \* the file: absent, or written in part

ASSUME VisualBaselineAssumption ==
  /\ Earlier \notin Operation \cup {NoImage, TornImage}
  /\ NoImage \notin Operation \cup {TornImage} /\ TornImage \notin Operation

VARIABLES
  doing,      \* the kind of each operation, "none" before it begins
  opc,        \* where it stands
  seen,       \* the baseline it has read, or NoImage
  baselines,  \* the rows, in the order of the INSERTs, by their image
  imageFile,  \* what the file holds
  latest,     \* history: the image approved last
  disturbed   \* history: operations overlapped, or one failed

baselineVars == <<doing, opc, seen, baselines, imageFile, latest, disturbed>>

Image == Operation \cup {Earlier}

\* "capture" is a visual_capture to approve (a candidate goes to a file of
\* its own); "match" and "compare" are assert_visual_match and visual_compare;
\* "register" is POST /baselines.
Operations == {"capture", "match", "compare", "register"}
Under(o) == opc[o] \notin {"away", "done", "failed"}

BaselineInit ==
  /\ doing = [o \in Operation |-> "none"] /\ opc = [o \in Operation |-> "away"]
  /\ seen = [o \in Operation |-> NoImage]
  /\ latest \in {NoImage, Earlier} /\ imageFile = latest
  /\ baselines = IF latest = NoImage THEN <<>> ELSE <<latest>>
  /\ disturbed = FALSE

Go(o, pc) == opc' = [opc EXCEPT ![o] = pc]

-----------------------------------------------------------------------------
\* get_visual_baseline_by_step: the first row.
ReadBaseline(o, kind) ==
  LET found == IF baselines = <<>> THEN NoImage ELSE Head(baselines) IN
  /\ opc[o] = "away"
  /\ doing' = [doing EXCEPT ![o] = kind] /\ seen' = [seen EXCEPT ![o] = found]
  /\ Go(o, IF kind = "register" /\ found # NoImage THEN "delete"
           ELSE IF kind \in {"capture", "register"} \/ (kind = "match" /\ found = NoImage) THEN "open"
           ELSE IF found = NoImage THEN "done"
           ELSE "judge")
  /\ disturbed' = (disturbed \/ \E p \in Operation : Under(p))
  /\ UNCHANGED <<baselines, imageFile, latest>>

\* Path.write_bytes truncates the file ...
OpenFile(o) ==
  /\ opc[o] = "open" /\ Go(o, "fill") /\ imageFile' = TornImage
  /\ UNCHANGED <<doing, seen, baselines, latest, disturbed>>

\* Mutant: a capture keeps the row it found, which names the same file.
FillKeepsRow(o) ==
  /\ opc[o] = "fill" /\ imageFile' = o /\ Go(o, "insert")
  /\ UNCHANGED <<doing, seen, baselines, latest, disturbed>>

\* ... and fills it; what two that fill it together leave may be neither's.
\* A capture goes on to delete the row it has read, the others to the INSERT.
FillFile(o) ==
  /\ opc[o] = "fill"
  /\ \/ imageFile' = o
     \/ (\E p \in Operation \ {o} : opc[p] = "fill") /\ imageFile' = TornImage
  /\ Go(o, IF doing[o] = "capture" /\ seen[o] # NoImage THEN "delete" ELSE "insert")
  /\ UNCHANGED <<doing, seen, baselines, latest, disturbed>>

\* delete_visual_baseline, by the id that was read.  POST /baselines writes
\* the file after it.
DeleteRow(o) ==
  /\ opc[o] = "delete"
  /\ \/ \E i \in DOMAIN baselines : baselines[i] = seen[o] /\ baselines' = RemoveAt(baselines, i)
     \/ (\A i \in DOMAIN baselines : baselines[i] # seen[o]) /\ UNCHANGED baselines
  /\ Go(o, IF doing[o] = "capture" THEN "insert" ELSE "open")
  /\ UNCHANGED <<doing, seen, imageFile, latest, disturbed>>

\* Mutant: the row that was read is updated, where there was one.
UpdateRow(o) ==
  /\ opc[o] = "insert" /\ Go(o, "done") /\ latest' = o
  /\ baselines' = IF seen[o] = NoImage THEN Append(baselines, o)
                  ELSE [i \in DOMAIN baselines |-> IF baselines[i] = seen[o] THEN o ELSE baselines[i]]
  /\ UNCHANGED <<doing, seen, imageFile, disturbed>>

\* create_visual_baseline
InsertRow(o) ==
  /\ opc[o] = "insert" /\ Go(o, "done")
  /\ baselines' = Append(baselines, o) /\ latest' = o
  /\ UNCHANGED <<doing, seen, imageFile, disturbed>>

\* compare_images opens the file; one that is no image fails the step.
JudgeImage(o) ==
  /\ opc[o] = "judge"
  /\ Go(o, IF imageFile \in {NoImage, TornImage} THEN "failed" ELSE "done")
  /\ UNCHANGED <<doing, seen, baselines, imageFile, latest, disturbed>>

\* A statement or a write that fails ends the operation where it is ("failed"
\* in the run, 500 for the request); so does the end of the server.
FailOperation(o) ==
  /\ Under(o) /\ Go(o, "failed") /\ disturbed' = TRUE
  /\ UNCHANGED <<doing, seen, baselines, imageFile, latest>>

OperationsOver == (\A o \in Operation : opc[o] \in {"done", "failed"}) /\ UNCHANGED baselineVars

BaselineStep(o) ==
  \/ \E kind \in Operations : ReadBaseline(o, kind)
  \/ OpenFile(o) \/ FillFile(o) \/ DeleteRow(o) \/ InsertRow(o) \/ JudgeImage(o) \/ FailOperation(o)

BaselineNext == OperationsOver \/ \E o \in Operation : BaselineStep(o)
BaselineSpec == BaselineInit /\ [][BaselineNext]_baselineVars
-----------------------------------------------------------------------------
(* Properties *)

BaselineTypeOK ==
  /\ doing \in [Operation -> Operations \cup {"none"}]
  /\ opc \in [Operation -> {"away", "open", "fill", "delete", "insert", "judge", "done", "failed"}]
  /\ seen \in [Operation -> Image \cup {NoImage}]
  /\ baselines \in Seq(Image) /\ latest \in Image \cup {NoImage}
  /\ imageFile \in Image \cup {NoImage, TornImage}
  /\ disturbed \in BOOLEAN

\* An operation that has deleted the row it read and not put one in its place.
Replacing(o) ==
  /\ seen[o] # NoImage
  /\ \/ doing[o] = "capture" /\ opc[o] \in {"insert", "failed"}
     \/ doing[o] = "register" /\ opc[o] \in {"open", "fill", "insert", "failed"}

\* A step that has an approved image keeps one, however operations overlap,
\* unless one of them is between its DELETE and its INSERT, or failed there:
\* then the next assert_visual_match approves whatever is on its screen.
BaselineNotLost == latest # NoImage /\ baselines = <<>> => \E o \in Operation : Replacing(o)

Writing(o) == opc[o] \in {"open", "fill", "delete", "insert"}

\* Done one after the other and without a failure, operations leave one row
\* and a file that are the image approved last: what the next one is judged by.
ApprovedIsKept ==
  ~disturbed /\ (\A o \in Operation : ~Writing(o)) =>
    /\ imageFile = latest
    /\ baselines = IF latest = NoImage THEN <<>> ELSE <<latest>>
=============================================================================
