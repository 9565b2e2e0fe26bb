--------------------------- MODULE PackScheduler ---------------------------
(***************************************************************************)
(* The validation-pack scheduler: one daemon thread that reads the         *)
(* scheduled packs, counts the active runs and then walks the packs it     *)
(* read, firing, skipping or deferring each.  It shares the tables         *)
(* validation_packs and live_runs with the PATCH, DELETE and run requests  *)
(* of the API, takes no lock between its reads and its writes, and works   *)
(* on the copy of the packs it read when the tick began.                   *)
(***************************************************************************)
EXTENDS Integers, SequencesExt

CONSTANTS
  Pack,           \* validation packs
  Client,         \* PATCH requests of schedule settings, one each
  Period,         \* lengths of the interval schedules, in clock units
  MaxConcurrent,  \* MAX_CONCURRENT
  RunsWindow,     \* limit of list_runs in _count_active_runs
  PackWindow,     \* limit of list_runs(pack_id) in _pack_is_active
  MaxClock,       \* bound: the last time the clock shows
  MaxUserRuns,    \* bound: runs started by users
  MaxTrouble      \* bound: failing storage calls plus deaths of the process

ASSUME PackSchedulerAssumption ==
  /\ IsFiniteSet(Pack)
  /\ Period \subseteq Nat \ {0} /\ Period # {}
  /\ {MaxConcurrent, RunsWindow, PackWindow, MaxClock} \subseteq Nat \ {0}
  /\ {MaxUserRuns, MaxTrouble} \subseteq Nat

VARIABLES
  clock,    \* the wall clock
  packs,    \* validation_packs: schedule_enabled, schedule, next_run_at
  runs,     \* live_runs, oldest first
  tpc,      \* where the scheduler thread stands
  now,      \* _tick: the time read at its start
  todo,     \* _tick: the packs read at its start, still to be visited
  running,  \* _tick: running_count
  fired,    \* _tick: whether schedule_run returned an id
  patch,    \* the PATCH requests
  late,     \* history: occurrences whose slot a PATCH wrote back after their
            \* time, and that have not fired since
  faults, crashes

tick == <<tpc, now, todo, running, fired>>
request == <<patch, late>>
budget == <<faults, crashes>>
vars == <<clock, packs, runs, tick, request, budget>>

NoSlot == 0   \* next_run_at IS NULL; sorts before every time
NoRow == [there |-> FALSE, enabled |-> FALSE, every |-> 0, slot |-> NoSlot]
Row == [there : {TRUE}, enabled : BOOLEAN, every : Period, slot : Nat]

\* An enabled pack may already have a slot when the server starts, or lack one
\* ("enabled by hand in the database").
InitialRow ==
  [there : {TRUE}, enabled : {FALSE}, every : Period, slot : {NoSlot}]
    \cup [there : {TRUE}, enabled : {TRUE}, every : Period, slot : {NoSlot, 1}]
Unsent == [at |-> "unsent"]
Answered == [at |-> "answered"]

\* by: who started the run; slot: the occurrence the scheduler fired it for;
\* state: "live" while a thread (or, for a manual run, a person) is on it,
\* "orphan" when its process died and its row is still pending or running.
NewRun(p, by, slot) == [pack |-> p, by |-> by, slot |-> slot, state |-> "live"]

\* compute_next_run_at for an interval schedule.
NextRunAt(every, after) == after + every

IsActive(run) == run.state # "over"
RunsOf(p) == {i \in DOMAIN runs : runs[i].pack = p}

\* list_runs, of every pack and of one: the newest rows, up to the limit.
Newest(rows, limit) == {i \in rows : Cardinality({j \in rows : j > i}) < limit}
Listed == Newest(DOMAIN runs, RunsWindow)
ListedOf(p) == Newest(RunsOf(p), PackWindow)

\* The end of _tick: its locals are gone.
Sleep == tpc' = "asleep" /\ todo' = <<>> /\ now' = 0 /\ running' = 0 /\ fired' = FALSE

Works == UNCHANGED faults
Fails == faults + crashes < MaxTrouble /\ faults' = faults + 1

Init ==
  /\ clock = 1
  /\ packs \in [Pack -> InitialRow]
  /\ runs = <<>>
  /\ tpc = "asleep" /\ now = 0 /\ todo = <<>> /\ running = 0 /\ fired = FALSE
  /\ patch = [c \in Client |-> Unsent] /\ late = {}
  /\ faults = 0 /\ crashes = 0

-----------------------------------------------------------------------------
(* PackScheduler._tick                                                      *)

\* get_scheduled_packs: what it returns is a copy, sorted by next_run_at, in
\* the order of the table where two packs have the same slot.
RowId == CHOOSE id \in [Pack -> 1..Cardinality(Pack)] : \A p, q \in Pack : p # q => id[p] # id[q]
Sorted(p, q) ==
  packs[p].slot < packs[q].slot \/ (packs[p].slot = packs[q].slot /\ RowId[p] < RowId[q])
Scheduled == {p \in Pack : packs[p].there /\ packs[p].enabled}
Copy(p) == [pack |-> p, every |-> packs[p].every, slot |-> packs[p].slot]
Snapshots ==
  {[i \in DOMAIN order |-> Copy(order[i])] :
     order \in {o \in SetToSeqs(Scheduled) : \A i, j \in DOMAIN o : i < j => Sorted(o[i], o[j])}}

BeginTick ==
  /\ tpc = "asleep" /\ tpc' = "read" /\ now' = clock
  /\ UNCHANGED <<clock, packs, runs, todo, running, fired, request, budget>>

ReadPacks ==
  /\ tpc = "read"
  /\ \/ todo' \in Snapshots /\ tpc' = "count" /\ Works /\ UNCHANGED <<now, running, fired>>
     \/ Sleep /\ Fails      \* caught by _loop
  /\ UNCHANGED <<clock, packs, runs, request, crashes>>

\* _count_active_runs: every active run counts, whoever started it; a failing
\* read counts as none.
CountActiveRuns ==
  /\ tpc = "count" /\ tpc' = "visit"
  /\ \/ running' = Cardinality({i \in Listed : IsActive(runs[i])}) /\ Works
     \/ running' = 0 /\ Fails
  /\ UNCHANGED <<clock, packs, runs, now, todo, fired, request, crashes>>

EndTick ==
  /\ tpc = "visit"
  /\ todo = <<>> \/ running >= MaxConcurrent
  /\ Sleep
  /\ UNCHANGED <<clock, packs, runs, request, budget>>

Visiting == tpc = "visit" /\ todo # <<>> /\ running < MaxConcurrent

\* update_pack_schedule_run(next_run_at): writes the slot computed from the
\* copy into the pack's row, if the pack is still there.
StoreSlot(p, slot) ==
  packs' = IF packs[p].there THEN [packs EXCEPT ![p].slot = slot] ELSE packs

\* A failing write leaves the tick: _loop logs it and goes back to sleep.
AbortTick == Sleep /\ UNCHANGED packs

\* Mutant: it is passed over, as packs without a slot once were.
GiveFirstSlotNever ==
  /\ Visiting /\ Head(todo).slot = NoSlot
  /\ todo' = Tail(todo)
  /\ UNCHANGED <<clock, packs, runs, tpc, now, running, fired, request, budget>>

\* A pack that is enabled and has no slot gets its first one.
GiveFirstSlot ==
  /\ Visiting /\ Head(todo).slot = NoSlot
  /\ \/ /\ StoreSlot(Head(todo).pack, NextRunAt(Head(todo).every, now)) /\ Works
        /\ todo' = Tail(todo) /\ UNCHANGED <<tpc, now, running, fired>>
     \/ AbortTick /\ Fails
  /\ UNCHANGED <<clock, runs, request, crashes>>

PassNotDue ==
  /\ Visiting /\ Head(todo).slot > now
  /\ todo' = Tail(todo)
  /\ UNCHANGED <<clock, packs, runs, tpc, now, running, fired, request, budget>>

\* _pack_is_active: looks at the newest runs of the pack; a failing read
\* means "not active".
PackIsActive(p) == \E i \in ListedOf(p) : IsActive(runs[i])

CheckActive ==
  /\ Visiting /\ Head(todo).slot # NoSlot /\ Head(todo).slot <= now
  /\ \/ tpc' = (IF PackIsActive(Head(todo).pack) THEN "skip" ELSE "fire") /\ Works
     \/ tpc' = "fire" /\ Fails
  /\ UNCHANGED <<clock, packs, runs, now, todo, running, fired, request, crashes>>

\* Mutant: the "continue" after the skip is lost, and the pack fires.
SkipWithoutContinue ==
  /\ tpc = "skip" /\ tpc' = "fire"
  /\ StoreSlot(Head(todo).pack, NextRunAt(Head(todo).every, now))
  /\ UNCHANGED <<clock, runs, now, todo, running, fired, request, budget>>

SkipOccurrence ==
  /\ tpc = "skip"
  /\ \/ /\ StoreSlot(Head(todo).pack, NextRunAt(Head(todo).every, now)) /\ Works
        /\ todo' = Tail(todo) /\ tpc' = "visit" /\ UNCHANGED <<now, running, fired>>
     \/ AbortTick /\ Fails
  /\ UNCHANGED <<clock, runs, request, crashes>>

\* RunManager.schedule_run: no run when the pack or its app target is gone; an
\* exception after the INSERT leaves an orphan row and reports no run.
FireRun ==
  LET p == Head(todo).pack
      run == NewRun(p, "scheduler", Head(todo).slot)
  IN
  /\ tpc = "fire" /\ tpc' = "advance"
  /\ \/ packs[p].there /\ runs' = Append(runs, run) /\ fired' = TRUE /\ Works
     \/ fired' = FALSE /\ Works /\ UNCHANGED runs
     \/ /\ packs[p].there /\ fired' = FALSE /\ Fails
        /\ runs' \in {runs, Append(runs, [run EXCEPT !.state = "orphan"])}
  /\ late' = IF runs' = runs THEN late ELSE late \ {<<p, run.slot>>}
  /\ UNCHANGED <<clock, packs, now, todo, running, patch, crashes>>

\* Mutants: the fired run is not counted; the slot is left as it was.
AdvanceSlotUncounted ==
  /\ tpc = "advance" /\ tpc' = "visit"
  /\ StoreSlot(Head(todo).pack, NextRunAt(Head(todo).every, now))
  /\ todo' = Tail(todo) /\ fired' = FALSE
  /\ UNCHANGED <<clock, runs, now, running, request, budget>>
AdvanceSlotForgotten ==
  /\ tpc = "advance" /\ tpc' = "visit"
  /\ running' = running + (IF fired THEN 1 ELSE 0)
  /\ todo' = Tail(todo) /\ fired' = FALSE
  /\ UNCHANGED <<clock, packs, runs, now, request, budget>>

AdvanceSlot ==
  /\ tpc = "advance"
  /\ \/ /\ StoreSlot(Head(todo).pack, NextRunAt(Head(todo).every, now)) /\ Works
        /\ running' = running + (IF fired THEN 1 ELSE 0)
        /\ todo' = Tail(todo) /\ tpc' = "visit" /\ fired' = FALSE /\ UNCHANGED now
     \/ AbortTick /\ Fails
  /\ UNCHANGED <<clock, runs, request, crashes>>

Tick ==
  \/ BeginTick \/ ReadPacks \/ CountActiveRuns \/ EndTick \/ GiveFirstSlot \/ PassNotDue
  \/ CheckActive \/ SkipOccurrence \/ FireRun \/ AdvanceSlot

-----------------------------------------------------------------------------
(* Everyone else                                                            *)

\* PATCH /validation-packs/{id}: the UPDATE ...
PatchSchedule(c) ==
  /\ patch[c] = Unsent
  /\ \E p \in Pack, on \in BOOLEAN, every \in Period :
       /\ packs[p].there
       /\ packs' = [packs EXCEPT ![p].enabled = on, ![p].every = every]
       /\ patch' = [patch EXCEPT ![c] = [at |-> "stored", pack |-> p]]
  /\ UNCHANGED <<clock, runs, tick, late, budget>>

\* ... the SELECT that re-reads the row, which another request may have
\* changed by now (a row that is gone has nothing left to notify about) ...
RereadPack(c) ==
  LET p == patch[c].pack IN
  /\ patch[c].at = "stored"
  /\ patch' = [patch EXCEPT ![c] =
       IF packs[p].there
       THEN [at |-> "reread", pack |-> p, enabled |-> packs[p].enabled, every |-> packs[p].every]
       ELSE Answered]
  /\ UNCHANGED <<clock, packs, runs, tick, late, budget>>

\* ... and notify_schedule_changed with what was re-read: the slot is
\* forgotten, or computed afresh from the clock ...
NotifyScheduleChanged(c) ==
  LET asked == patch[c] IN
  /\ asked.at = "reread"
  /\ IF asked.enabled
     THEN /\ patch' = [patch EXCEPT ![c] =
                [at |-> "computed", pack |-> asked.pack, slot |-> NextRunAt(asked.every, clock)]]
          /\ UNCHANGED packs
     ELSE StoreSlot(asked.pack, NoSlot) /\ patch' = [patch EXCEPT ![c] = Answered]
  /\ UNCHANGED <<clock, runs, tick, late, budget>>

\* ... and stored, by when it may be in the past.
StoreComputed(c) ==
  LET asked == patch[c] IN
  /\ asked.at = "computed"
  /\ StoreSlot(asked.pack, asked.slot) /\ patch' = [patch EXCEPT ![c] = Answered]
  /\ late' = IF asked.slot <= clock THEN late \cup {<<asked.pack, asked.slot>>} ELSE late
  /\ UNCHANGED <<clock, runs, tick, budget>>

DeletePack(p) ==
  /\ packs[p].there
  /\ packs' = [packs EXCEPT ![p] = NoRow]
  /\ UNCHANGED <<clock, runs, tick, request, budget>>

\* POST /validation-packs/{id}/run by a user, automated or manual.
UserRun(p) ==
  /\ packs[p].there
  /\ Cardinality({i \in DOMAIN runs : runs[i].by # "scheduler"}) < MaxUserRuns
  /\ \E by \in {"user", "manual"} : runs' = Append(runs, NewRun(p, by, NoSlot))
  /\ UNCHANGED <<clock, packs, tick, request, budget>>

\* The run's thread finishes (or a person finalizes a manual run), or a user
\* cancels a row that an earlier process left unfinished.
RunEnds(i) ==
  /\ i \in DOMAIN runs /\ IsActive(runs[i])
  /\ runs' = [runs EXCEPT ![i].state = "over"]
  /\ UNCHANGED <<clock, packs, tick, request, budget>>

TimePasses ==
  /\ clock < MaxClock
  /\ clock' = clock + 1
  /\ UNCHANGED <<packs, runs, tick, request, budget>>

\* The process dies and comes back: automated runs become orphans, the tick
\* and the PATCH requests in flight are forgotten, the tables stay.
Restart ==
  /\ faults + crashes < MaxTrouble
  /\ crashes' = crashes + 1
  /\ runs' = [i \in DOMAIN runs |->
                IF runs[i].state = "live" /\ runs[i].by # "manual"
                THEN [runs[i] EXCEPT !.state = "orphan"] ELSE runs[i]]
  /\ patch' = [c \in Client |-> IF patch[c].at = "unsent" THEN Unsent ELSE Answered]
  /\ Sleep
  /\ UNCHANGED <<clock, packs, late, faults>>

Answer(c) == RereadPack(c) \/ NotifyScheduleChanged(c) \/ StoreComputed(c)

Next ==
  \/ Tick \/ TimePasses \/ Restart
  \/ \E c \in Client : PatchSchedule(c) \/ Answer(c)
  \/ \E p \in Pack : DeletePack(p) \/ UserRun(p)
  \/ \E i \in DOMAIN runs : RunEnds(i)

\* The scheduler thread wakes again and again, request handlers finish and so
\* does every automated run that has a thread; nothing makes a person finish
\* a manual run or clear an orphan, or the clock move.
ThreadEnds == \E i \in DOMAIN runs : runs[i].state = "live" /\ runs[i].by # "manual" /\ RunEnds(i)
Fairness ==
  /\ WF_vars(Tick)
  /\ \A c \in Client : WF_vars(Answer(c))
  /\ WF_vars(ThreadEnds)

Spec == Init /\ [][Next]_vars
FairSpec == Spec /\ Fairness
\* Packs and requests are interchangeable (for the runs that check no liveness).
Symmetric == Permutations(Pack) \cup Permutations(Client)
-----------------------------------------------------------------------------
(* Properties *)

RunRow == [pack : Pack, by : {"scheduler", "user", "manual"}, slot : Nat,
           state : {"live", "orphan", "over"}]
PackCopy == [pack : Pack, every : Period, slot : Nat]

TypeOK ==
  /\ clock \in 1..MaxClock
  /\ packs \in [Pack -> Row \cup {NoRow}]
  /\ runs \in Seq(RunRow)
  /\ todo \in Seq(PackCopy)
  /\ tpc \in {"asleep", "read", "count", "visit", "skip", "fire", "advance"}
  /\ tpc \in {"skip", "fire", "advance"} => todo # <<>>
  /\ now \in 0..MaxClock /\ running \in Nat /\ fired \in BOOLEAN
  /\ late \subseteq Pack \X Nat

ScheduledBy(p) == {i \in DOMAIN runs : runs[i].by = "scheduler" /\ runs[i].pack = p}
ActiveScheduled(p) == {i \in ScheduledBy(p) : IsActive(runs[i])}

\* "If a pack is already in a running/pending state when its next_run_at
\* fires, that occurrence is skipped": no pack ever has two scheduled runs
\* unfinished at once, orphans of an earlier process included, or one more for
\* each storage call that failed.
OneScheduledRunPerPack ==
  \A p \in Pack : Cardinality(ActiveScheduled(p)) <= 1 + faults

\* "At most MAX_CONCURRENT scheduled runs may be in-flight at once", although
\* the count is taken once per tick, while runs end and users start others;
\* a storage call that failed may let one more tick's worth of them start.
AtMostMaxConcurrent ==
  Cardinality(UNION {ActiveScheduled(p) : p \in Pack}) <= MaxConcurrent * (1 + faults)

\* Undisturbed, an occurrence fires at most once, and later occurrences never
\* before earlier ones, whatever PATCH requests rewrite meanwhile - but for one
\* whose slot a PATCH computed before its time and stored after it, which fires
\* once more for each time that was done.
OccurrenceFiresOnce ==
  [][faults' = 0 /\ crashes' = 0 =>
       \A p \in Pack : \A j \in ScheduledBy(p)' \ ScheduledBy(p) : \A i \in ScheduledBy(p) :
         runs[i].slot < runs'[j].slot \/ <<p, runs'[j].slot>> \in late]_vars

\* Runs that take a place of MAX_CONCURRENT and that no thread will finish.
Stuck == {i \in DOMAIN runs :
            runs[i].state = "orphan" \/ (runs[i].state = "live" /\ runs[i].by = "manual")}

Due(p) == packs[p].there /\ packs[p].enabled /\ packs[p].slot <= clock

\* A due pack is fired or moved to its next slot, and one that has no slot
\* gets one, as long as orphans and open manual runs leave a place: no tick,
\* however often it fails or defers, loses a pack.
DuePackIsServed ==
  \A p \in Pack : Due(p) ~> (~Due(p) \/ Cardinality(Stuck) >= MaxConcurrent)
=============================================================================
