------------------------------- MODULE Session -------------------------------
(***************************************************************************)
(* Processes that run PRDs one after the other with one agent at a time,   *)
(* and the people who stop them.  A process is a batch or a single loop; a *)
(* run holds the lock of its prefix from its start until it has returned.  *)
(* Processes share the task table, the stop files, the run records and the *)
(* locks.  A stop comes from `loop stop`, which writes a file in three     *)
(* steps, or from a signal; waits on the account hear only the global file.*)
(***************************************************************************)
EXTENDS Sequences, FiniteSets, AgentWatch

CONSTANTS
  Procs, NoProc,   \* processes, and no process
  Batches,         \* those that run a batch, the others run one loop
  Plan,            \* the prefixes each process runs, in order
  Tasks, NoTask,   \* task ids, and none (Option::None)
  TasksOf,         \* prefix -> its tasks
  InitialStatus,   \* the rows as earlier runs have left them
  DependsOn,       \* task_relationships of type dependsOn
  Spillable,       \* tasks a fallback provider may take in a blackout
  OnRung,          \* tasks that need the rung a limit makes unavailable
  Spillover,       \* processes that have routing.spillover
  Metered,         \* processes that ask the usage API before an iteration
  AgentsOf,        \* process -> the outcomes its agents can have
  MaxIterations,   \* --max-iterations of each process, a function
  MaxCrashes,      \* config.max_crashes
  MaxAttempts,     \* TRANSIENT_MAX_ATTEMPTS
  MaxStale,        \* threshold of StaleTracker
  MaxDisturbances  \* bound: `loop stop` commands, signals and kills together

Prefixes == DOMAIN TasksOf
Statuses == {"todo", "in_progress", "done", "blocked"}

ASSUME SessionAssumption ==
  /\ NoProc \notin Procs /\ NoTask \notin Tasks /\ Batches \subseteq Procs
  /\ \A P \in Prefixes : TasksOf[P] \subseteq Tasks
  /\ InitialStatus \in [Tasks -> Statuses]
  /\ Plan \in [Procs -> Seq(Prefixes)] /\ \A p \in Procs : Plan[p] # <<>>
  /\ \A p \in Procs \ Batches : Len(Plan[p]) = 1
  /\ MaxIterations \in [Procs -> Nat] /\ {MaxCrashes, MaxStale} \subseteq Nat \ {0}
  /\ {MaxAttempts, MaxDisturbances} \subseteq Nat

Waits == {"gate", "limited", "backoff", "deferred"}
InRun == Waits \cup {"head", "select", "agent"}
NotRunning == {"off", "over", "dead"}
Stages == NotRunning \cup InRun \cup
          {"check", "lock", "record", "closing", "cleaned", "decide"}
\* IterationOutcome, as far as the loop tells them apart; "stop" is Empty with
\* should_stop, "silent" is NoEligibleTasks, "auth" a runner's auth failure,
\* "too_long" a crash with PromptTooLong, "oversize" is PromptOverflow.
AgentOutcomes == {"completed", "blocked", "crash", "too_long", "empty", "silent",
                  "reorder", "rate_limit", "transient", "auth"}
ASSUME AgentsAssumption == AgentsOf \in [Procs -> SUBSET AgentOutcomes]
Outcomes == AgentOutcomes \cup {"none", "stop", "oversize"}
Reasons == {"none", "max", "deadline", "signal", "stop", "quota", "complete",
            "blocked", "parked", "stale", "crashes", "stopped", "wait_stopped",
            "halted_done", "oversize", "error"}

VARIABLES
  status,      \* tasks.status
  lock,        \* prefix -> the process that holds loop-<prefix>.lock
  stopGlobal,  \* .stop exists
  stopPrefix,  \* prefixes with a .stop-<prefix>
  loopRecord,  \* prefix -> process named by its run record
  batchRecord, \* process named by the one batch run record
  chain,       \* batches started with --chain
  run,         \* the local state of each process
  watch,       \* the watchdog of its agent
  cli,         \* the `loop stop` command in flight
  late,        \* ghost: prefixes whose stop file outlived or missed its run
  disturbed    \* stops, signals and kills so far

files == <<stopGlobal, stopPrefix>>
records == <<loopRecord, batchRecord>>
outside == <<chain, cli, late, disturbed>>
vars == <<status, lock, files, records, run, watch, outside>>

\* The last three fields are ghosts: whether its last rate limit still waits for
\* a reaction, whether it was signalled from outside, and whether this process
\* has met a spend limit.
FreshRun == [pc |-> "off", at |-> 1, iter |-> 0, last |-> NoTask,
             task |-> NoTask, snap |-> "none", live |-> "none", halt |-> FALSE,
             crashes |-> 0, attempts |-> 0, stale |-> 0, flag |-> FALSE,
             blackout |-> FALSE, rungs |-> FALSE, spent |-> FALSE,
             code |-> 0, why |-> "none", stopped |-> FALSE, complete |-> FALSE,
             unheeded |-> FALSE, signaled |-> FALSE,
             broke |-> FALSE]
NoCommand == [pc |-> "idle", prefix |-> "none", proc |-> NoProc]

Init ==
  /\ status = InitialStatus
  /\ lock = [P \in Prefixes |-> NoProc]
  /\ stopGlobal = FALSE /\ stopPrefix = {}
  /\ loopRecord = [P \in Prefixes |-> NoProc] /\ batchRecord = NoProc
  /\ chain \in SUBSET Batches
  /\ run = [p \in Procs |-> FreshRun]
  /\ watch = [p \in Procs |-> NewWatch]
  /\ cli = NoCommand /\ late = {}
  /\ disturbed = 0

-----------------------------------------------------------------------------
(* The task table.                                                         *)

Prefix(p) == Plan[p][run[p].at]
Open(P, s) == {t \in TasksOf[P] : s[t] \in {"todo", "in_progress"}}
Todo(P, s) == {t \in TasksOf[P] : s[t] = "todo"}

\* recover_in_progress_for_prefix
RecoveredNone(P, s) == s
Recovered(P, s) == [t \in Tasks |-> IF t \in TasksOf[P] /\ s[t] = "in_progress"
                                    THEN "todo" ELSE s[t]]

Eligible(P, s, blackout, rungs) ==
  {t \in Todo(P, s) : /\ \A d \in DependsOn[t] : s[d] = "done"
                      /\ blackout => t \in Spillable
                      /\ rungs => t \notin OnRung}

\* A map of expiries is read through the clock: what is in it may have expired.
Unexpired(entry) == {entry, FALSE}

-----------------------------------------------------------------------------
(* The end of a run: the exit code is reconciled with the table, and the   *)
(* task of the last iteration goes back if it is still claimed.  What only *)
(* a chain asks of the result is kept for chains alone.                    *)

Returned(last, s) == IF last # NoTask /\ s[last] = "in_progress"
                     THEN [s EXCEPT ![last] = "todo"] ELSE s

\* reconcile_ambiguous_exit
ReconciledNot(P, s, code, why) == code
Reconciled(P, s, code, why) ==
  IF code = 0 /\ why \in {"max", "deadline"} /\ Open(P, s) # {} THEN 1 ELSE code

Finish(p, r, s, code, why) ==
  /\ status' = Returned(r.last, s)
  /\ LET chained == p \in chain IN
     run' = [run EXCEPT ![p] =
       [FreshRun EXCEPT !.pc = "closing", !.at = r.at, !.why = why,
                        !.code = Reconciled(Prefix(p), s, code, why),
                        !.stopped = why = "stop",
                        !.rungs = chained /\ r.rungs, !.spent = chained /\ r.spent,
                        !.broke = chained /\ r.broke,
                        !.complete = chained /\ Open(Prefix(p), s) = {}]]

Continue(p, r, s) == status' = s /\ run' = [run EXCEPT ![p] = r]

-----------------------------------------------------------------------------
(* A process, its batch loop, and the start and return of a run.           *)

GoTo(p, stage) == run' = [run EXCEPT ![p].pc = stage]

Launch(p) ==
  /\ run[p].pc = "off"
  /\ IF p \in Batches THEN GoTo(p, "check") /\ batchRecord' = p
                      ELSE GoTo(p, "lock") /\ UNCHANGED batchRecord
  /\ UNCHANGED <<status, lock, files, loopRecord, watch, outside>>

\* The head of the batch loop; the guard of the record is dropped at its end.
Over(p) == run' = [run EXCEPT ![p] = [FreshRun EXCEPT !.pc = "over"]]
EndBatch(p) == Over(p) /\ batchRecord' = NoProc

BatchCheck(p) ==
  /\ run[p].pc = "check"
  /\ LET more == run[p].at <= Len(Plan[p]) IN
     \/ ~more /\ EndBatch(p) /\ UNCHANGED stopGlobal
     \/ more /\ stopGlobal /\ EndBatch(p) /\ stopGlobal' = FALSE
     \/ /\ more /\ ~stopGlobal
        /\ GoTo(p, "lock") /\ UNCHANGED <<stopGlobal, batchRecord>>
  /\ UNCHANGED <<status, lock, stopPrefix, loopRecord, watch, outside>>

FreeAlways(P) == TRUE
Free(P) == lock[P] = NoProc

TakeLock(p) ==
  /\ run[p].pc = "lock"
  /\ \/ /\ Free(Prefix(p))
        /\ lock' = [lock EXCEPT ![Prefix(p)] = p]
        /\ status' = Recovered(Prefix(p), status)
        /\ GoTo(p, "record")
     \/ /\ ~Free(Prefix(p))
        /\ run' = [run EXCEPT ![p] = [@ EXCEPT !.pc = "decide", !.code = 1,
                                               !.rungs = FALSE]]
        /\ UNCHANGED <<lock, status>>
  /\ UNCHANGED <<files, records, watch, outside>>

WriteRecord(p) ==
  /\ run[p].pc = "record"
  /\ loopRecord' = [loopRecord EXCEPT ![Prefix(p)] = p]
  /\ GoTo(p, "head")
  /\ UNCHANGED <<status, lock, files, batchRecord, watch, outside>>

\* The exit removes the global file too, whoever it was meant for.
SweptNone(p) == stopPrefix
Swept(p) == stopPrefix \ {Prefix(p)}

CleanSignals(p) ==
  /\ run[p].pc = "closing"
  /\ stopGlobal' = FALSE /\ stopPrefix' = Swept(p)
  /\ late' = late \ {Prefix(p)}
  /\ run' = [run EXCEPT ![p].pc = "cleaned", ![p].why = "none"]
  /\ UNCHANGED <<status, lock, records, watch, chain, cli, disturbed>>

DropRecord(p) ==
  /\ run[p].pc = "cleaned"
  /\ loopRecord' = [loopRecord EXCEPT ![Prefix(p)] = NoProc]
  /\ GoTo(p, "decide")
  /\ UNCHANGED <<status, lock, files, batchRecord, watch, outside>>

\* Whether a chain builds on the run that has just returned.
ChainIgnoresAccount(r) == r.code = 0 /\ (r.complete \/ r.rungs)
ChainIgnoresOpenTasks(r) == ~r.spent /\ r.code = 0
ChainGoesOn(r) == ~r.spent /\ r.code = 0 /\ (r.complete \/ r.rungs)

GoesOn(p) == ~run[p].stopped /\ (p \in chain => ChainGoesOn(run[p]))

Decide(p) ==
  /\ run[p].pc = "decide"
  /\ lock' = [P \in Prefixes |-> IF lock[P] = p THEN NoProc ELSE lock[P]]
  /\ \/ p \notin Batches /\ Over(p) /\ UNCHANGED batchRecord
     \/ p \in Batches /\ ~GoesOn(p) /\ EndBatch(p)
     \/ /\ p \in Batches /\ GoesOn(p)
        /\ run' = [run EXCEPT ![p] =
             [FreshRun EXCEPT !.pc = "check", !.at = run[p].at + 1,
                              !.rungs = p \in chain /\ run[p].rungs,
                              !.broke = run[p].broke]]
        /\ UNCHANGED batchRecord
  /\ UNCHANGED <<status, files, loopRecord, watch, outside>>

-----------------------------------------------------------------------------
(* The head of an iteration: budget, deadline, signal, stop file, account. *)

StopUnseen(p) == FALSE
StopSeen(p) == stopGlobal \/ Prefix(p) \in stopPrefix

Unclaimed(r) == [r EXCEPT !.last = NoTask]

\* The usage gate: room, a wait for the reset, a stop beyond the horizon that
\* binds the account or one rung only, or a question nobody answered.
Gate(p, r) ==
  \/ \E rungs \in BOOLEAN :
       Continue(p, [r EXCEPT !.pc = "select", !.rungs = rungs], status)
  \/ Continue(p, [r EXCEPT !.pc = "gate"], status)
  \/ \E account \in BOOLEAN :
       LET stopped == [Unclaimed(r) EXCEPT !.spent = account, !.rungs = ~account,
                                           !.broke = @ \/ account]
       IN Finish(p, stopped, Recovered(Prefix(p), status), 0, "quota")
  \/ Finish(p, Unclaimed(r), status, 0, "quota")

IterationHead(p) ==
  /\ run[p].pc = "head"
  /\ LET r == [run[p] EXCEPT !.iter = @ + 1] IN
     \/ run[p].iter >= MaxIterations[p] /\ Finish(p, run[p], status, 0, "max")
     \/ /\ run[p].iter < MaxIterations[p]
        /\ \/ Finish(p, r, status, 0, "deadline")
           \/ r.flag /\ Finish(p, r, status, 130, "signal")
           \/ ~r.flag /\ StopSeen(p) /\ Finish(p, Unclaimed(r), status, 0, "stop")
           \/ ~r.flag /\ ~StopSeen(p) /\ p \in Metered /\ Gate(p, r)
           \/ /\ ~r.flag /\ ~StopSeen(p) /\ p \notin Metered
              /\ Continue(p, [r EXCEPT !.pc = "select"], status)
  /\ UNCHANGED <<lock, files, records, watch, outside>>

-----------------------------------------------------------------------------
(* The agent and its watchdog.                                             *)

Poll(p) ==
  /\ run[p].pc = "agent" /\ watch[p].killer = "nobody"
  /\ \E active, tagged \in BOOLEAN :
       watch' = [watch EXCEPT ![p] = Polled(@, run[p].flag, active, tagged)]
  /\ UNCHANGED <<status, lock, files, records, run, outside>>

-----------------------------------------------------------------------------
(* What follows an iteration: the pipeline, the account reaction on the     *)
(* outcome from before the pipeline, the back-off on the one after it.      *)

LimitedAfterPipeline(r) == r.live = "rate_limit"
Limited(r) == r.snap = "rate_limit"

\* What the pipeline finds, whatever the outcome was: the claimed task completed,
\* by a tag or a commit, a peer that was complete already, or the claimed row
\* closed by a status tag.  Any completion makes the outcome a completion.  Tags
\* need an output; the text that armed the grace window counts as one.
Effects(p, x, s) ==
  LET claimed == s[x.task] = "in_progress"
      unladdered == x.snap = "too_long" /\ claimed   \* it has a completion tag
      tagged == x.snap \notin {"oversize", "empty"}
      peers == \E t \in TasksOf[Prefix(p)] \ {x.task} : s[t] = "done"
  IN {e \in {"nothing", "done", "closed", "peer"} :
        CASE e = "nothing" -> ~unladdered
          [] e = "done" -> claimed
          [] e = "closed" -> claimed /\ tagged
          [] e = "peer" -> /\ peers /\ ~unladdered
                           /\ tagged \/ watch[p].killer = "grace"}
Piped(x, effect) ==
  CASE effect = "done" -> [x EXCEPT !.live = "completed", !.last = NoTask, !.crashes = 0]
    [] effect = "peer" -> [x EXCEPT !.live = "completed", !.crashes = 0]
    [] OTHER -> x
Marked(x, effect, s) ==
  CASE effect = "done" -> [s EXCEPT ![x.task] = "done"]
    [] effect = "closed" -> [s EXCEPT ![x.task] = "blocked"]
    [] OTHER -> s

\* sequential_consumes_budget
ConsumesBudget(r) ==
  CASE r.snap \in {"rate_limit", "reorder"} -> FALSE
    [] r.snap = "transient" -> r.live = "crash"
    [] OTHER -> r.live \notin {"reorder", "rate_limit", "transient"}

Budgeted(r) == IF ConsumesBudget(r) THEN r ELSE [r EXCEPT !.iter = @ - 1]

\* handle_task_failure counts the failure and may park the row; the count is
\* left out, so that it may be the last one at any time.
FailureCounts(r, s) ==
  /\ r.task # NoTask /\ s[r.task] = "in_progress"
  /\ r.live \notin {"completed", "stop", "empty", "reorder", "rate_limit",
                    "transient", "auth"}
Parkings(r, s) == {s} \cup (IF FailureCounts(r, s)
                            THEN {[s EXCEPT ![r.task] = "blocked"]} ELSE {})

\* The next iteration starts with no output in hand.
Again(r) == [r EXCEPT !.pc = "head", !.task = NoTask, !.snap = "none",
                      !.live = "none", !.halt = FALSE]

\* Nothing to select, or an output that says nothing.
Idled(p, r, s) ==
  \E blackout \in Unexpired(r.blackout), rungs \in Unexpired(r.rungs) :
    LET P == Prefix(p)
        starved == rungs /\ ~blackout /\ Todo(P, s) # {} /\ Todo(P, s) \subseteq OnRung
        deferred == blackout /\ Todo(P, s) # {}
        cleared == [r EXCEPT !.blackout = @ /\ ~blackout]
    IN \/ starved /\ Finish(p, r, Recovered(P, s), 0, "quota")
       \/ deferred /\ Continue(p, [Again(r) EXCEPT !.pc = "deferred"], s)
       \/ /\ ~starved /\ ~deferred
          /\ IF Open(P, s) = {}
             THEN \/ (\A t \in TasksOf[P] : s[t] = "done")
                       /\ Finish(p, r, s, 0, "complete")
                  \/ (\E t \in TasksOf[P] : s[t] # "done")
                       /\ Finish(p, r, s, 1, "parked")
             ELSE \/ r.stale + 1 >= MaxStale /\ Finish(p, r, s, 1, "stale")
                  \/ /\ r.stale + 1 < MaxStale
                     /\ Continue(p, [Again(cleared) EXCEPT !.stale = @ + 1], s)

\* How should_stop and the outcome become the exit code; a completion got its
\* should_stop from the outcome of before the pipeline.
Halted(p, r, s) ==
  CASE r.live = "completed" -> Finish(p, r, s, 0, "halted_done")
    [] r.live = "blocked" -> Finish(p, r, s, 2, "blocked")
    [] r.live \in {"crash", "too_long"} -> Finish(p, r, s, 1, "crashes")
    [] r.live = "oversize" -> Finish(p, r, s, 3, "oversize")
    [] r.live \in {"stop", "empty"} /\ r.flag -> Finish(p, r, s, 130, "signal")
    [] r.live = "stop" /\ ~r.flag /\ ~r.spent -> Finish(p, r, s, 0, "stop")
    [] r.live \in {"stop", "empty"} /\ ~r.flag -> Finish(p, r, s, 0, "quota")
    [] OTHER -> Finish(p, r, s, 1, "stopped")

Judged(p, x, t) ==
  \E s \in Parkings(x, t) :
    LET r == Budgeted(x) IN
    \/ r.live = "silent" /\ Idled(p, r, s)
    \/ r.live # "silent" /\ r.halt /\ Halted(p, [r EXCEPT !.stale = 0], s)
    \/ r.live # "silent" /\ ~r.halt /\ Continue(p, [Again(r) EXCEPT !.stale = 0], s)

\* react_to_transient: the back-off doubles up to a cap and the attempts end.
AttemptedNot(r) == r
Attempted(r) == [r EXCEPT !.attempts = @ + 1]

AttemptsLeftOneMore(r) == r.attempts <= MaxAttempts
AttemptsLeft(r) == r.attempts < MaxAttempts

Settled(p, r, s) ==
  \/ r.live # "transient" /\ Judged(p, [r EXCEPT !.attempts = 0], s)
  \/ /\ r.live = "transient" /\ ~AttemptsLeft(r)
     /\ Judged(p, [r EXCEPT !.live = "crash"], s)
  \/ /\ r.live = "transient" /\ AttemptsLeft(r)
     /\ Continue(p, [r EXCEPT !.pc = "backoff"], Recovered(Prefix(p), s))

\* The output of an agent: the pipeline works on any outcome, the account hears
\* of the one from before it.
Heard(p, x, t) ==
  \E effect \in Effects(p, x, t) :
    LET r == Piped([x EXCEPT !.last = x.task], effect)
        s == Marked(x, effect, t)
        back == Recovered(Prefix(p), s)
        heeded == [r EXCEPT !.unheeded = FALSE]
    IN \/ ~Limited(r) /\ Settled(p, r, s)
       \/ Limited(r) /\ Settled(p, [heeded EXCEPT !.live = "stop", !.halt = TRUE,
                                      !.spent = TRUE, !.broke = TRUE], back)
       \/ /\ Limited(r) /\ p \in Spillover
          /\ Settled(p, [heeded EXCEPT !.blackout = TRUE], back)
       \/ /\ Limited(r) /\ p \notin Spillover
          /\ Continue(p, [r EXCEPT !.pc = "limited"], back)
       \/ Limited(r) /\ Continue(p, [r EXCEPT !.pc = "limited", !.rungs = TRUE], back)

\* A claim, whose prompt may turn out too large to send: that stops the run.
Claim(p, t, s) ==
  LET r == [run[p] EXCEPT !.task = t]
      claimed == [s EXCEPT ![t] = "in_progress"]
  IN \/ /\ Continue(p, [r EXCEPT !.pc = "agent"], claimed)
        /\ watch' = [watch EXCEPT ![p] = NewWatch]
     \/ /\ IF r.flag THEN Finish(p, r, claimed, 130, "signal")
           ELSE Heard(p, [r EXCEPT !.snap = "oversize", !.live = "oversize",
                                   !.halt = TRUE], claimed)
        /\ UNCHANGED watch

\* When nothing is eligible the prefix is recovered and tried again.
Select(p) ==
  /\ run[p].pc = "select"
  /\ \E blackout \in Unexpired(run[p].blackout), rungs \in Unexpired(run[p].rungs) :
       LET P == Prefix(p)
           now == Eligible(P, status, blackout, rungs)
           s == Recovered(P, status)
           again == Eligible(P, s, blackout, rungs)
           done == \A t \in TasksOf[P] : status[t] = "done"
       IN \/ \E t \in now : Claim(p, t, status)
          \/ /\ now = {} /\ done /\ UNCHANGED watch
             /\ Finish(p, Unclaimed(run[p]), status, 0, "complete")
          \/ now = {} /\ ~done /\ \E t \in again : Claim(p, t, s)
          \/ /\ now = {} /\ ~done /\ again = {} /\ UNCHANGED watch
             /\ Settled(p, [Unclaimed(run[p]) EXCEPT !.snap = "silent",
                                                       !.live = "silent"], s)
  /\ UNCHANGED <<lock, files, records, outside>>

\* update_trackers: crashes and empty outputs in a row.
Failing == {"crash", "too_long", "empty"}
CrashesAfter(r, out) == CASE out \in {"completed", "blocked"} -> 0
                          [] out \in Failing -> r.crashes + 1
                          [] OTHER -> r.crashes

\* A prompt the runner rejects: a rung of the recovery ladder puts the row back,
\* the last one parks it, and a completion tag skips the ladder.
Laddered(t, out) ==
  IF out = "too_long" THEN {[status EXCEPT ![t] = new] : new \in {"todo", "blocked"}}
                           \cup {status}
  ELSE {status}

\* The agent is reaped: by itself, by the watchdog, or by a signal of its own.
\* A signal drops its output; past the deadline it crashed, whatever it says.
AgentEnds(p) ==
  /\ run[p].pc = "agent"
  /\ \E terminated \in {FALSE, watch[p].killer # "nobody"} :
       LET r == run[p]
           overdue == watch[p].killer = "deadline"
           flag == r.flag \/ (~overdue /\ MeansSignal(watch[p], terminated))
       IN \/ flag /\ Finish(p, r, status, 130, "signal")
          \/ /\ ~flag /\ overdue
             /\ Heard(p, [r EXCEPT !.snap = "crash", !.live = "crash"], status)
          \/ /\ ~flag /\ ~overdue
             /\ \E out \in AgentsOf[p] :
                  LET crashes == CrashesAfter(r, out)
                      heard == [r EXCEPT !.snap = out, !.live = out,
                        !.crashes = crashes,
                        !.halt = out \in Failing /\ crashes >= MaxCrashes,
                        !.unheeded = out = "rate_limit"]
                  IN \E s \in Laddered(r.task, out) : Heard(p, heard, s)
          \/ Finish(p, r, status, 1, "error")
  /\ watch' = [watch EXCEPT ![p] = NewWatch]
  /\ UNCHANGED <<lock, files, records, outside>>

\* A wait ends by the clock or by a probe.  What is checked every few seconds is
\* the global file alone, and the last stretch is not checked.
WaitOver(p) ==
  /\ run[p].pc \in Waits
  /\ LET r == run[p] IN
     CASE r.pc = "gate" -> Continue(p, [r EXCEPT !.pc = "select"], status)
       [] r.pc = "limited" ->
            Settled(p, [r EXCEPT !.unheeded = FALSE], status)
       [] r.pc = "backoff" -> Judged(p, Attempted(r), status)
       [] r.pc = "deferred" ->
            Continue(p, [r EXCEPT !.pc = "head", !.blackout = FALSE], status)
  /\ UNCHANGED <<lock, files, records, watch, outside>>

WaitStopped(p) ==
  /\ run[p].pc \in Waits /\ stopGlobal
  /\ LET r == run[p] IN
     \/ /\ r.pc = "gate"
        /\ IF r.flag THEN Finish(p, r, status, 130, "signal")
           ELSE Finish(p, Unclaimed(r), status, 0, "stop")
     \/ /\ r.pc = "limited"
        /\ Settled(p, [r EXCEPT !.unheeded = FALSE, !.live = "stop", !.halt = TRUE],
                   status)
     \/ /\ r.pc = "backoff"
        /\ Judged(p, [r EXCEPT !.halt = TRUE], status)
     \/ r.pc = "deferred" /\ Finish(p, r, status, 130, "wait_stopped")
  /\ UNCHANGED <<lock, files, records, watch, outside>>

-----------------------------------------------------------------------------
(* Signals, kills, and `loop stop`.                                        *)

Disturb == disturbed < MaxDisturbances /\ disturbed' = disturbed + 1

Interrupt(p) ==
  /\ run[p].pc \in InRun
  /\ Disturb
  /\ run' = [run EXCEPT ![p].flag = TRUE, ![p].signaled = TRUE]
  /\ UNCHANGED <<status, lock, files, records, watch, chain, cli, late>>

\* Somebody else ends the agent, not the loop.
Terminate(p) ==
  /\ run[p].pc = "agent" /\ watch[p].killer = "nobody"
  /\ Disturb
  /\ run' = [run EXCEPT ![p].signaled = TRUE]
  /\ watch' = [watch EXCEPT ![p] = Killed("outside")]
  /\ UNCHANGED <<status, lock, files, records, chain, cli, late>>

\* The kernel gives the lock back; files, records and claims stay.
Kill(p) ==
  /\ run[p].pc \notin NotRunning
  /\ Disturb
  /\ run' = [run EXCEPT ![p] = [FreshRun EXCEPT !.pc = "dead"]]
  /\ watch' = [watch EXCEPT ![p] = NewWatch]
  /\ lock' = [P \in Prefixes |-> IF lock[P] = p THEN NoProc ELSE lock[P]]
  /\ late' = late \cup {P \in stopPrefix : lock[P] = p}
  /\ UNCHANGED <<status, files, records, chain, cli>>

Live(q) == q # NoProc /\ run[q].pc \notin NotRunning

\* The record of the prefix, else the record of a batch; no file without one.
StopResolve(P) ==
  /\ cli.pc = "idle"
  /\ Disturb
  /\ \/ /\ Live(loopRecord[P])
        /\ cli' = [pc |-> "write", prefix |-> P, proc |-> loopRecord[P]]
     \/ /\ ~Live(loopRecord[P]) /\ Live(batchRecord)
        /\ cli' = [pc |-> "write", prefix |-> "none", proc |-> batchRecord]
     \/ ~Live(loopRecord[P]) /\ ~Live(batchRecord) /\ UNCHANGED cli
  /\ UNCHANGED <<status, lock, files, records, run, watch, chain, late>>

\* A run of P that will still look at its stop file, or remove it.
Hearing(P) == lock[P] # NoProc /\ run[lock[P]].pc \in InRun \cup {"record", "closing"}

StopWrite ==
  /\ cli.pc = "write" /\ cli' = [cli EXCEPT !.pc = "recheck"]
  /\ \/ cli.prefix = "none" /\ stopGlobal' = TRUE /\ UNCHANGED <<stopPrefix, late>>
     \/ /\ cli.prefix \in Prefixes /\ stopPrefix' = stopPrefix \cup {cli.prefix}
        /\ late' = IF Hearing(cli.prefix) THEN late ELSE late \cup {cli.prefix}
        /\ UNCHANGED stopGlobal
  /\ UNCHANGED <<status, lock, records, run, watch, chain, disturbed>>

\* The process died meanwhile: the command removes the file it wrote.
StopRecheck ==
  /\ cli.pc = "recheck" /\ cli' = NoCommand
  /\ \/ Live(cli.proc) /\ UNCHANGED <<files, late>>
     \/ /\ ~Live(cli.proc) /\ cli.prefix = "none"
        /\ stopGlobal' = FALSE /\ UNCHANGED <<stopPrefix, late>>
     \/ /\ ~Live(cli.proc) /\ cli.prefix \in Prefixes
        /\ stopPrefix' = stopPrefix \ {cli.prefix} /\ late' = late \ {cli.prefix}
        /\ UNCHANGED stopGlobal
  /\ UNCHANGED <<status, lock, records, run, watch, chain, disturbed>>

-----------------------------------------------------------------------------
Step(p) ==
  \/ BatchCheck(p) \/ TakeLock(p) \/ WriteRecord(p) \/ IterationHead(p) \/ Select(p)
  \/ Poll(p) \/ AgentEnds(p)
  \/ WaitOver(p) \/ WaitStopped(p)
  \/ CleanSignals(p) \/ DropRecord(p) \/ Decide(p)

Next ==
  \/ \E p \in Procs : Launch(p) \/ Step(p) \/ Interrupt(p) \/ Terminate(p) \/ Kill(p)
  \/ \E P \in Prefixes : StopResolve(P)
  \/ StopWrite \/ StopRecheck

\* A running process goes on: its waits are timed, its watchdog polls.  Step(p)
\* is enabled as long as p runs and always changes the state of p, what else
\* changes it is bounded: this is WF_vars(Step(p)), in a form TLC evaluates fast.
Fairness ==
  \A p \in Procs : \/ []<>(run[p].pc \in NotRunning)
                   \/ []<><<TRUE>>_<<run[p], watch[p]>>

Spec == Init /\ [][Next]_vars /\ Fairness

-----------------------------------------------------------------------------
Runs == [pc : Stages, at : Nat, iter : Nat,
         last : Tasks \cup {NoTask}, task : Tasks \cup {NoTask},
         snap : Outcomes, live : Outcomes, halt : BOOLEAN,
         crashes : 0 .. MaxCrashes, attempts : 0 .. MaxAttempts,
         stale : 0 .. MaxStale, flag : BOOLEAN, blackout : BOOLEAN,
         rungs : BOOLEAN, spent : BOOLEAN, code : {0, 1, 2, 3, 130},
         why : Reasons, stopped : BOOLEAN, complete : BOOLEAN,
         unheeded : BOOLEAN, signaled : BOOLEAN, broke : BOOLEAN]

\* Every variable has its type; the transient attempts and the crashes of a run
\* stay within the limits their back-offs are computed for.
TypeOK ==
  /\ status \in [Tasks -> Statuses]
  /\ lock \in [Prefixes -> Procs \cup {NoProc}]
  /\ stopGlobal \in BOOLEAN /\ stopPrefix \subseteq Prefixes
  /\ loopRecord \in [Prefixes -> Procs \cup {NoProc}]
  /\ batchRecord \in Procs \cup {NoProc}
  /\ chain \subseteq Batches
  /\ run \in [Procs -> Runs] /\ watch \in [Procs -> Watches]
  /\ cli \in [pc : {"idle", "write", "recheck"}, prefix : Prefixes \cup {"none"},
              proc : Procs \cup {NoProc}]
  /\ late \subseteq Prefixes
  /\ disturbed \in 0 .. MaxDisturbances

Claims(p) == run[p].pc = "select" /\ run'[p].pc = "agent"
Ends(p) == run[p].pc \in InRun /\ run'[p].pc = "closing"

\* A run starts from a prefix without claimed rows, whatever an earlier run left
\* behind or died with, and until its end nobody else claims one of its rows.
ClaimsAreOwn ==
  [][\A p \in Procs : run'[p].pc \in {"record"} \cup InRun =>
       \A t \in {u \in TasksOf[Prefix(p)] : status'[u] = "in_progress"} :
         /\ run[p].pc \in InRun
         /\ status[t] = "in_progress" \/ Claims(p)]_vars

\* After a rate limit the loop claims nothing before it has waited, rerouted or
\* stopped, even where the pipeline made the outcome of that iteration a
\* completion.
RateLimitHeeded == [][\A p \in Procs : Claims(p) => ~run[p].unheeded]_vars

\* A chain whose account met a spend limit starts no other run, also when an
\* unavailable rung would otherwise let it build on an unfinished PRD.
SpendStopsChain ==
  [][\A p \in chain : run[p].broke => run'[p].pc # "lock"]_vars

\* A chain goes on to its next PRD only from a run that ended with code 0 and
\* left no open task in the table, or met an unavailable rung.
ChainBuildsOnDone ==
  [][\A p \in chain : run'[p].at > run[p].at =>
       /\ run[p].code = 0
       /\ Open(Prefix(p), status) = {} \/ run[p].rungs]_vars

\* A run ends as signalled only if it, or its agent, was signalled from outside:
\* the kills of its own watchdog are not taken for Ctrl-C.
SignalsAreReal ==
  [][\A p \in Procs : Ends(p) /\ run'[p].why = "signal" => run[p].signaled]_vars

\* A stop file of a prefix nobody runs was written after its run had cleaned up,
\* or its run was killed: an orderly run leaves none for the next one to obey.
NoStaleStop == \A P \in stopPrefix : lock[P] = NoProc => P \in late

\* Code 0 of a run that was neither stopped nor short of quota means that no
\* task is open, but for a run that is halted in an iteration that completed a task.
ExitZeroIsEarned ==
  [][\A p \in Procs :
       Ends(p) /\ run'[p].code = 0 /\ run'[p].why \notin {"stop", "quota", "halted_done"}
         => Open(Prefix(p), status') = {}]_vars

\* A stop file written for a running prefix is removed, as that run ends, or the
\* run dies: neither free iterations nor an agent that is always active put the
\* end off for ever.
StopsAreServed ==
  \A P \in Prefixes :
    (P \in stopPrefix /\ lock[P] # NoProc) ~> (P \notin stopPrefix \/ lock[P] = NoProc)

\* An agent that was rate limited, or asked for another task: the iteration is
\* not counted.  A transient failure is not counted either, but waits first.
TakesNoTurn(p) ==
  /\ run[p].pc = "agent"
  /\ run'[p].pc = "limited" \/ (run'[p].pc = "head" /\ run'[p].iter < run[p].iter)

\* A process that was started ends, unless its agents are rate limited or ask
\* for another task for ever: everything else is paid for from some budget.
OnlyLimitsRunForever ==
  \A p \in Procs :
    \/ []<><<TakesNoTurn(p)>>_vars
    \/ (run[p].pc # "off") ~> (run[p].pc \in NotRunning)
=============================================================================
