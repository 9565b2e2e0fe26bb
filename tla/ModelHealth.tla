---------------------------- MODULE ModelHealth ----------------------------
(***************************************************************************)
(* What LLMRouter keeps of one model's health, and when it lets a call     *)
(* through: a circuit breaker that opens after consecutive failures and    *)
(* closes again after a cooldown, and an availability that the breaker and *)
(* check_all_models both write.  Up to max_concurrent threads share it     *)
(* without a lock: every read and write of a shared field is a step.       *)
(***************************************************************************)
EXTENDS Naturals, FiniteSets

CONSTANTS
  Asker,       \* threads that call the model (max_concurrent)
  Threshold,   \* circuit_breaker_threshold
  MaxCount     \* bound: the failure_count to which a failure is added

ASSUME ModelHealthAssumption ==
  Threshold \in Nat \ {0} /\ IsFiniteSet(Asker) /\ MaxCount \in Nat

VARIABLES
  circuitOpen, failureCount, isAvailable,   \* ModelHealth
  cooled,       \* circuit_opened_at is longer ago than the cooldown
  apc,          \* where each thread stands
  countRead,    \* the failure_count each thread is adding to
  trials,       \* history: calls let through since the last success or opening
  counted,      \* history: failures since then that failureCount accounts for
  lost,         \* history: failures since then that it does not
  pingFailed,   \* history: is_available was last written by a failed ping
  overtaken     \* history: ... by an opening whose circuit had been closed again

tally == <<trials, counted, lost>>
excuses == <<pingFailed, overtaken>>
healthVars == <<circuitOpen, failureCount, isAvailable, cooled, apc, countRead, tally, excuses>>

HealthInit ==
  /\ circuitOpen = FALSE /\ failureCount = 0 /\ isAvailable = TRUE
  /\ cooled = TRUE
  /\ apc = [a \in Asker |-> "idle"] /\ countRead = [a \in Asker |-> 0]
  /\ trials = 0 /\ counted = 0 /\ lost = 0
  /\ pingFailed = FALSE /\ overtaken = FALSE

Move(a, from, to) == apc[a] = from /\ apc' = [apc EXCEPT ![a] = to]
Forget == trials' = 0 /\ counted' = 0 /\ lost' = 0
Unexcused == pingFailed' = FALSE /\ overtaken' = FALSE

-----------------------------------------------------------------------------
(* _call_with_fallback, for this model                                      *)

\* _is_circuit_open, first the flag and then the clock.
LookAtCircuit(a) ==
  /\ Move(a, "idle", IF circuitOpen THEN "cooldown" ELSE "healthy")
  /\ UNCHANGED <<circuitOpen, failureCount, isAvailable, cooled, countRead, tally, excuses>>

LookAtClock(a) ==
  /\ Move(a, "cooldown", IF cooled THEN "close" ELSE "idle")
  /\ UNCHANGED <<circuitOpen, failureCount, isAvailable, cooled, countRead, tally, excuses>>

\* Its last branch: the circuit is closed, the count cleared, the model made
\* available.  (_half_open is only ever reported.)
CloseCircuit(a) ==
  /\ Move(a, "close", "clear") /\ circuitOpen' = FALSE
  /\ UNCHANGED <<failureCount, isAvailable, cooled, countRead, tally, excuses>>

ClearCount(a) ==
  /\ Move(a, "clear", "enable") /\ failureCount' = 0
  /\ lost' = lost + counted /\ counted' = 0
  /\ UNCHANGED <<circuitOpen, isAvailable, cooled, countRead, trials, excuses>>

Enable(a) ==
  /\ Move(a, "enable", "healthy") /\ isAvailable' = TRUE /\ Unexcused
  /\ UNCHANGED <<circuitOpen, failureCount, cooled, countRead, tally>>

\* _is_healthy: the call is made or skipped.
LookAtHealth(a) ==
  /\ Move(a, "healthy", IF isAvailable THEN "call" ELSE "idle")
  /\ trials' = IF isAvailable THEN trials + 1 ELSE trials
  /\ UNCHANGED <<circuitOpen, failureCount, isAvailable, cooled, countRead, counted, lost, excuses>>

\* _call_with_retry, with all its attempts.
CallModel(a) ==
  /\ \E to \in {"succeeded", "count"} : Move(a, "call", to)
  /\ UNCHANGED <<circuitOpen, failureCount, isAvailable, cooled, countRead, tally, excuses>>

-----------------------------------------------------------------------------
(* _record_success and _record_failure                                      *)

ClearFailures(a) ==
  /\ Move(a, "succeeded", "recover") /\ failureCount' = 0 /\ Forget
  /\ UNCHANGED <<circuitOpen, isAvailable, cooled, countRead, excuses>>

Recover(a) ==
  /\ Move(a, "recover", "idle") /\ isAvailable' = TRUE /\ Unexcused
  /\ UNCHANGED <<circuitOpen, failureCount, cooled, countRead, tally>>

\* failure_count += 1 is a read and a write, and the comparison another read.
ReadCount(a) ==
  /\ failureCount < MaxCount
  /\ Move(a, "count", "store") /\ countRead' = [countRead EXCEPT ![a] = failureCount]
  /\ UNCHANGED <<circuitOpen, failureCount, isAvailable, cooled, tally, excuses>>

StoreCount(a) ==
  LET kept == IF counted <= countRead[a] THEN counted ELSE countRead[a]
  IN
  /\ Move(a, "store", "compare") /\ failureCount' = countRead[a] + 1
  /\ counted' = kept + 1 /\ lost' = lost + (counted - kept)
  /\ UNCHANGED <<circuitOpen, isAvailable, cooled, countRead, trials, excuses>>

\* Mutant: one failure more is allowed.
CompareLater(a) ==
  /\ Move(a, "compare", IF failureCount > Threshold THEN "open" ELSE "idle")
  /\ UNCHANGED <<circuitOpen, failureCount, isAvailable, cooled, countRead, tally, excuses>>

Compare(a) ==
  /\ Move(a, "compare", IF failureCount >= Threshold THEN "open" ELSE "idle")
  /\ UNCHANGED <<circuitOpen, failureCount, isAvailable, cooled, countRead, tally, excuses>>

\* circuit_open, circuit_opened_at and is_available are written one by one.
OpenCircuit(a) ==
  /\ Move(a, "open", "stamp") /\ circuitOpen' = TRUE /\ Forget
  /\ UNCHANGED <<failureCount, isAvailable, cooled, countRead, excuses>>

StampCircuit(a) ==
  /\ Move(a, "stamp", "disable") /\ cooled' = FALSE
  /\ UNCHANGED <<circuitOpen, failureCount, isAvailable, countRead, tally, excuses>>

Disable(a) ==
  /\ Move(a, "disable", "idle") /\ isAvailable' = FALSE
  /\ pingFailed' = FALSE /\ overtaken' = ~circuitOpen
  /\ UNCHANGED <<circuitOpen, failureCount, cooled, countRead, tally>>

-----------------------------------------------------------------------------
CooldownElapses ==
  /\ ~cooled /\ cooled' = TRUE
  /\ UNCHANGED <<circuitOpen, failureCount, isAvailable, apc, countRead, tally, excuses>>

\* check_all_models, for this model.
CheckModel ==
  /\ isAvailable' \in BOOLEAN /\ pingFailed' = ~isAvailable' /\ overtaken' = FALSE
  /\ UNCHANGED <<circuitOpen, failureCount, cooled, apc, countRead, tally>>

AskerStep(a) ==
  \/ LookAtCircuit(a) \/ LookAtClock(a) \/ CloseCircuit(a) \/ ClearCount(a) \/ Enable(a)
  \/ LookAtHealth(a) \/ CallModel(a) \/ ClearFailures(a) \/ Recover(a)
  \/ ReadCount(a) \/ StoreCount(a) \/ Compare(a) \/ OpenCircuit(a) \/ StampCircuit(a) \/ Disable(a)

HealthNext == CooldownElapses \/ CheckModel \/ \E a \in Asker : AskerStep(a)
HealthSpec == HealthInit /\ [][HealthNext]_healthVars
-----------------------------------------------------------------------------
(* Properties *)

Place == {"idle", "cooldown", "close", "clear", "enable", "healthy", "call", "succeeded", "recover",
          "count", "store", "compare", "open", "stamp", "disable"}

HealthTypeOK ==
  /\ circuitOpen \in BOOLEAN /\ isAvailable \in BOOLEAN /\ cooled \in BOOLEAN
  /\ pingFailed \in BOOLEAN /\ overtaken \in BOOLEAN
  /\ failureCount \in Nat /\ trials \in Nat /\ counted \in Nat /\ lost \in Nat
  /\ apc \in [Asker -> Place] /\ countRead \in [Asker -> Nat]

\* A model is skipped for a reason: its circuit is open, or a thread is about
\* to make it available again; or a ping failed, and none since that did not;
\* or the thread that opened the circuit was overtaken by one that closed it
\* again before the first got to its last write.  (That one leaves the model
\* unavailable, with its circuit closed, until a ping succeeds.)
SkippedHasACause ==
  ~isAvailable =>
    circuitOpen \/ pingFailed \/ overtaken \/ \E a \in Asker : apc[a] \in {"clear", "enable"}

\* "Reset circuit to half-open (allow one try)": the circuit lets more than
\* one call through, for it closes; but between two successes or openings no
\* more than the threshold allows and each thread can have under way, and one
\* for each failure whose count another thread's write has undone.
TrialsAreBounded == trials <= Threshold - 1 + Cardinality(Asker) + lost
=============================================================================
