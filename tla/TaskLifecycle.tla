--------------------------- MODULE TaskLifecycle ---------------------------
(***************************************************************************)
(* The task table and the PRD file as the two processes that share them    *)
(* see them: statement by statement.  The CLI's write commands exclude one *)
(* another through tasks.db.lock, the loop does not take that lock, so at  *)
(* any moment one command ("cli") runs beside one verb of the loop         *)
(* ("loop").  A verb is either one conditional UPDATE, or a SELECT that is *)
(* judged first and an unconditional UPDATE afterwards, and the other      *)
(* process, or a crash, comes between.  A command on several tasks is the  *)
(* same steps repeated; here it names one.                                 *)
(***************************************************************************)
EXTENDS Naturals, FiniteSets

CONSTANTS
  Tasks,            \* ids a command may name
  NoTask,           \* no task (Option::None)
  DependsOn,        \* task_relationships of type dependsOn
  MaxRetries,       \* tasks.max_retries, 0 = never auto-block
  DecayThreshold,   \* --decay-threshold, 0 = off
  MaxIterations,    \* iterations the loop's own counter may show
  MaxCommands,      \* bound: verbs each process may start, a function
  MaxCrashes        \* bound: processes killed in the middle of a verb

Procs == {"cli", "loop"}
Statuses == {"todo", "in_progress", "done", "blocked", "skipped", "irrelevant"}
Open == {"todo", "in_progress"}
Terminal == Statuses \ Open
Parked == {"blocked", "skipped"}

ASSUME ConstantsAssumption ==
  /\ NoTask \notin Tasks
  /\ DependsOn \in [Tasks -> SUBSET Tasks]
  /\ MaxRetries \in Nat /\ DecayThreshold \in Nat /\ MaxIterations \in Nat
  /\ MaxCommands \in [Procs -> Nat] /\ MaxCrashes \in Nat

\* The recovery sweeps and the retry limit touch claimed rows only.
ClaimedOrParked == {"in_progress", "blocked", "skipped"}
Claimed == {"in_progress"}

\* One UPDATE ... SET status = SweepTo WHERE status IN SweepFrom.
SweepFrom ==
  [next           |-> {"todo"},
   claim          |-> {"todo", "in_progress"},
   recover        |-> Claimed,
   reopen         |-> {"in_progress", "done"},
   auto_block     |-> Claimed,
   prd_done       |-> {"todo", "in_progress"},
   prd_irrelevant |-> {"todo", "in_progress", "done"},
   doctor_todo    |-> {"in_progress", "blocked", "skipped"},
   doctor_done    |-> {"todo", "in_progress"}]
SweepTo ==
  [next |-> "in_progress", claim |-> "in_progress", recover |-> "todo",
   reopen |-> "todo", auto_block |-> "blocked", prd_done |-> "done",
   prd_irrelevant |-> "irrelevant", doctor_todo |-> "todo",
   doctor_done |-> "done"]
Sweeps == DOMAIN SweepFrom

\* The status a failed, skipped or irrelevant report parks the row in.
ParkedAsTagged == [fail_blocked |-> "failed", fail_skipped |-> "skipped",
                   fail_irrelevant |-> "irrelevant"]
ParkedAs == [fail_blocked |-> "blocked", fail_skipped |-> "skipped",
             fail_irrelevant |-> "irrelevant"]

\* Read, judge, then UPDATE ... WHERE id = ? (apply_one, decay_reset).  The
\* [complete] and [tag_done] judge by the matrix, the others by their own rule.
ApplyFrom ==
  [complete        |-> {"in_progress", "done"},
   tag_done        |-> {"todo", "in_progress", "done"},
   fail_blocked    |-> Statuses,
   fail_skipped    |-> Statuses,
   fail_irrelevant |-> Statuses,
   skip            |-> Statuses \ {"done"},
   irrelevant      |-> Statuses \ {"done"},
   unblock         |-> {"blocked"},
   unskip          |-> {"skipped"},
   reset           |-> Statuses \ {"todo"},
   resolve         |-> Statuses,
   decay           |-> {"blocked", "skipped"}]
ApplyTo ==
  [complete |-> "done", tag_done |-> "done",
   fail_blocked |-> ParkedAs["fail_blocked"],
   fail_skipped |-> ParkedAs["fail_skipped"],
   fail_irrelevant |-> ParkedAs["fail_irrelevant"],
   skip |-> "skipped", irrelevant |-> "irrelevant", unblock |-> "todo",
   unskip |-> "todo", reset |-> "todo", resolve |-> "todo", decay |-> "todo"]
Applies == DOMAIN ApplyFrom
Fails == {"fail_blocked", "fail_skipped", "fail_irrelevant"}

\* The verbs that write the PRD file or the table from a copy of the file.
FileVerbs == {"add", "mutate_add", "mutate_irrelevant", "import"}
Verbs == Sweeps \cup Applies \cup FileVerbs \cup {"failure"}
CliVerbs == Fails \cup {"complete", "skip", "irrelevant", "unblock", "unskip",
                        "reset", "resolve", "decay", "next", "doctor_todo",
                        "doctor_done", "add", "import"}
\* The sequential loop claims by `next`, a wave by `claim`.  auto_block is reached
\* through failure only; prd_done has a check of its own.
LoopVerbs == {"complete", "tag_done", "fail_blocked", "skip", "irrelevant",
              "unblock", "reset", "next", "claim", "recover", "reopen", "failure",
              "prd_done", "mutate_add", "mutate_irrelevant", "import"}
VerbsOf == [cli |-> CliVerbs, loop |-> LoopVerbs]
Steps == {"idle", "check", "advance", "read", "claim", "stamp", "write", "clear",
          "sweep", "number", "count", "insert", "load", "store", "commit"}

NoRow == "none"                                  \* no row with this id
Unstamped == MaxIterations + MaxCommands["cli"] + MaxCommands["loop"] + 1   \* a NULL column
Stamps == 0 .. Unstamped

VARIABLES
  status,       \* tasks.status, "none" where there is no row
  fails,        \* tasks.consecutive_failures
  blockedAt,    \* tasks.blocked_at_iteration
  skippedAt,    \* tasks.skipped_at_iteration
  counter,      \* global_state.iteration_counter
  stories,      \* ids with a story in the PRD file
  passes,       \* stories with passes: true
  proc,         \* what each process is executing
  parkedSince,  \* ghost: counter read by the `fail` that parked it, or Unstamped
  commands,     \* verbs started by each process
  crashes       \* processes killed

rows == <<status, fails, blockedAt, skippedAt, counter>>
prd  == <<stories, passes>>
vars == <<rows, prd, proc, parkedSince, commands, crashes>>

NoFile == [stories |-> {}, passes |-> {}]
Idle == [verb |-> "none", task |-> NoTask, forced |-> FALSE, step |-> "idle",
         prev |-> NoRow, stamp |-> Unstamped, result |-> "none",
         disturbed |-> FALSE, seen |-> NoFile]
Ops == [verb : Verbs \cup {"none"}, task : Tasks \cup {NoTask},
        forced : BOOLEAN, step : Steps, prev : Statuses \cup {NoRow},
        stamp : Nat, result : {"none", "success", "refused"}, disturbed : BOOLEAN,
        seen : [stories : SUBSET Tasks, passes : SUBSET Tasks]]

\* A database and a PRD in which every story is a row, as an import leaves
\* them; a parked row may carry no stamp, as after `skip`.
Init ==
  /\ stories \in SUBSET Tasks
  /\ status \in [Tasks -> Statuses \cup {NoRow}]
  /\ \A t \in Tasks : status[t] = NoRow <=> t \notin stories
  /\ passes \in SUBSET {t \in stories : status[t] = "done"}
  /\ fails = [t \in Tasks |-> 0]
  /\ blockedAt = [t \in Tasks |-> Unstamped]
  /\ skippedAt = [t \in Tasks |-> Unstamped]
  /\ counter = 0
  /\ proc = [p \in Procs |-> Idle]
  /\ parkedSince = [t \in Tasks |-> Unstamped]
  /\ commands = [p \in Procs |-> 0] /\ crashes = 0

-----------------------------------------------------------------------------
(* Helpers.                                                                *)

DepsSatisfied(t) == \A d \in DependsOn[t] : status[d] \in {"done", "irrelevant"}

\* The loop's own completion paths and its <task-status> tags sync the PRD.
SyncsPrd(p) == p = "loop" /\ proc[p].verb \in {"complete", "tag_done"}

\* The candidates of apply_decay.
AgedEarly(t) ==
  /\ DecayThreshold > 0
  /\ \/ /\ status[t] = "blocked" /\ blockedAt[t] # Unstamped
        /\ counter + 1 >= blockedAt[t] + DecayThreshold
     \/ /\ status[t] = "skipped" /\ skippedAt[t] # Unstamped
        /\ counter + 1 >= skippedAt[t] + DecayThreshold
Aged(t) ==
  /\ DecayThreshold > 0
  /\ \/ /\ status[t] = "blocked" /\ blockedAt[t] # Unstamped
        /\ counter >= blockedAt[t] + DecayThreshold
     \/ /\ status[t] = "skipped" /\ skippedAt[t] # Unstamped
        /\ counter >= skippedAt[t] + DecayThreshold

\* What a command verifies before its first write.
Accepted(p) ==
  LET o == proc[p] t == o.task s == status[o.task]
  IN  CASE o.verb = "complete" ->
             \/ s = "done" \/ o.forced
             \/ (s = "in_progress" /\ DepsSatisfied(t))
        [] o.verb \in Fails -> o.forced \/ s \in {"in_progress", ApplyTo[o.verb]}
        [] o.verb \in {"skip", "irrelevant"} -> s # "done"
        [] o.verb = "decay" -> Aged(t)
        [] o.verb = "next" -> s = "todo" /\ DepsSatisfied(t)
        [] o.verb = "doctor_todo" -> s = "in_progress"
        [] o.verb = "doctor_done" -> s # "done"
        [] o.verb = "prd_done" -> /\ t \in passes /\ s \in Open
                                  /\ DepsSatisfied(t)
        [] o.verb = "failure" -> s \notin Terminal

Checked == [cli |-> Fails \cup {"complete", "skip", "irrelevant", "decay",
                                "next", "doctor_todo", "doctor_done"},
            loop |-> {"complete", "next", "prd_done", "failure"}]

FirstStep(p, v) ==
  CASE v \in Checked[p] -> "check"
    [] v \in Applies \ Checked[p] -> "read"
    [] v \in Sweeps \ Checked[p] -> "sweep"
    [] v = "add" -> "insert"
    [] v \in FileVerbs \ {"add"} -> "load"

\* p moves to record next; a change of the row the other process has begun to
\* work on (or that it is parked anew) is remembered there: a ghost, read by
\* the properties only.
Begun(q) == proc[q].step # "idle" /\ proc[q].step # FirstStep(q, proc[q].verb)
Changes(t) == status'[t] # status[t]
Touches(t) == Changes(t) \/ parkedSince'[t] # parkedSince[t]
Proceed(p, next) ==
  proc' = [q \in Procs |->
    IF q = p THEN next
    ELSE IF Begun(q) /\ Touches(proc[q].task)
         THEN [proc[q] EXCEPT !.disturbed = TRUE]
         ELSE proc[q]]
At(p, step) == proc[p].step = step
Goto(p, step) == [proc[p] EXCEPT !.step = step]
Return(p, result) == [Idle EXCEPT !.result = result]
\* After the row, if it was written: on to the PRD file, or back to the caller.
AfterRowAnyway(p, result) ==
  IF SyncsPrd(p) THEN [Goto(p, "load") EXCEPT !.result = result]
                 ELSE Return(p, result)
AfterRow(p, result) ==
  IF SyncsPrd(p) /\ result = "success"
  THEN [Goto(p, "load") EXCEPT !.result = "success"]
  ELSE Return(p, result)

\* Row t takes status s; the ghost forgets how the row came to be parked.
SetRow(t, s) == status' = [status EXCEPT ![t] = s]
Unpark(t) == parkedSince' = [parkedSince EXCEPT ![t] = Unstamped]
RowUntouched == UNCHANGED <<status, parkedSince>>
Sidecars == <<fails, blockedAt, skippedAt, counter>>
Bounds == <<commands, crashes>>

-----------------------------------------------------------------------------
(* Starting a verb, and what it reads before it writes.                    *)

\* The ids a verb may be given: `add` wants a new one, the rest an existing
\* row; --force exists for complete and fail.
Start(p) ==
  /\ At(p, "idle") /\ commands[p] < MaxCommands[p]
  /\ \E v \in VerbsOf[p], t \in Tasks, f \in BOOLEAN :
       /\ f => (p = "cli" /\ v \in Fails \cup {"complete"})
       /\ (status[t] = NoRow) <=> (v \in {"add", "mutate_add"})
       /\ proc' = [proc EXCEPT ![p] = [Idle EXCEPT !.verb = v, !.task = t,
                              !.forced = f, !.step = FirstStep(p, v)]]
  /\ commands' = [commands EXCEPT ![p] = @ + 1]
  /\ UNCHANGED <<rows, prd, parkedSince, crashes>>

\* complete, fail, skip and irrelevant validate before any write; `next`,
\* doctor, decay and the PRD sweep pick their task by a SELECT of its own.
Check(p) ==
  /\ At(p, "check")
  /\ UNCHANGED <<rows, prd, parkedSince, Bounds>>
  /\ LET o == proc[p]
         advances == /\ o.verb = "complete" /\ o.forced
                     /\ status[o.task] \notin {"in_progress", "done"}
     IN  Proceed(p,
           CASE ~Accepted(p) -> Return(p, "refused")
             [] Accepted(p) /\ advances -> Goto(p, "advance")
             [] Accepted(p) /\ ~advances /\ o.verb \in Applies -> Goto(p, "read")
             [] Accepted(p) /\ o.verb \in Sweeps -> Goto(p, "sweep")
             [] Accepted(p) /\ o.verb = "failure" -> Goto(p, "count"))

AdvanceReady(p) ==
  /\ At(p, "advance")
  /\ LET t == proc[p].task
     IN  IF status[t] = "todo"
         THEN SetRow(t, "in_progress") /\ Unpark(t)
         ELSE RowUntouched
  /\ Proceed(p, Goto(p, "read"))
  /\ UNCHANGED <<Sidecars, prd, Bounds>>

\* complete --force takes the row to in_progress by a conditional claim first.
Advance(p) ==
  /\ At(p, "advance")
  /\ LET t == proc[p].task
     IN  IF status[t] \in {"todo", "blocked", "skipped", "irrelevant"}
         THEN SetRow(t, "in_progress") /\ Unpark(t)
         ELSE RowUntouched
  /\ Proceed(p, Goto(p, "read"))
  /\ UNCHANGED <<Sidecars, prd, Bounds>>

StepAfterRead(v, s) ==
  CASE v = "tag_done" /\ s = "todo" -> "claim"
    [] v \in Fails -> "stamp"
    [] OTHER -> "write"

\* apply_one reads the status once and judges it.  complete(), skip() and
\* irrelevant() do not look at a refusal that comes back: they report success.
ReadRow(p) ==
  /\ At(p, "read")
  /\ UNCHANGED <<rows, prd, parkedSince, Bounds>>
  /\ LET o == proc[p] s == status[proc[p].task]
         silent == o.verb \in {"complete"} \cup
                     (IF p = "cli" THEN {"skip", "irrelevant"} ELSE {})
     IN  Proceed(p,
           IF s \in ApplyFrom[o.verb]
           THEN [Goto(p, StepAfterRead(o.verb, s)) EXCEPT !.prev = s]
           ELSE AfterRow(p, IF silent THEN "success" ELSE "refused"))

\* A done tag on a todo row claims it first, if it is still todo.
AutoClaim(p) ==
  /\ At(p, "claim")
  /\ LET t == proc[p].task
     IN  IF status[t] = "todo" THEN SetRow(t, "in_progress") /\ Unpark(t)
                               ELSE RowUntouched
  /\ Proceed(p, Goto(p, "write"))
  /\ UNCHANGED <<Sidecars, prd, Bounds>>

\* fail reads the global counter by a SELECT of its own; a claim may be numbered
\* between it and the UPDATE, which then writes a stamp that is already old.
ReadCounter(p) ==
  /\ At(p, "stamp")
  /\ RowUntouched
  /\ Proceed(p, [Goto(p, "write") EXCEPT !.stamp = counter])
  /\ UNCHANGED <<Sidecars, prd, Bounds>>

-----------------------------------------------------------------------------
(* Writing the row.                                                        *)

\* The unconditional UPDATE.  A row that was read as done is not written by
\* the two done verbs; fail stamps the row with the counter it read; decay
\* clears both stamps, the other verbs leave them.
WriteRow(p) ==
  /\ At(p, "write")
  /\ LET o == proc[p] t == proc[p].task v == proc[p].verb
         again == v \in {"complete", "tag_done"} /\ o.prev = "done"
     IN  /\ IF again THEN RowUntouched
            ELSE /\ SetRow(t, ApplyTo[v])
                 /\ parkedSince' = [parkedSince EXCEPT ![t] =
                      IF v \in Fails THEN o.stamp ELSE Unstamped]
         /\ blockedAt' = [blockedAt EXCEPT ![t] =
              CASE v = "fail_blocked" -> o.stamp
                [] v = "decay" -> Unstamped
                [] OTHER -> @]
         /\ skippedAt' = [skippedAt EXCEPT ![t] =
              CASE v = "fail_skipped" -> o.stamp
                [] v = "decay" -> Unstamped
                [] OTHER -> @]
         /\ Proceed(p, IF v \in {"complete", "tag_done"} /\ ~again
                       THEN [Goto(p, "clear") EXCEPT !.result = "success"]
                       ELSE AfterRow(p, "success"))
  /\ UNCHANGED <<fails, counter, prd, Bounds>>

\* complete_one ends the failure streak in a statement of its own.
ClearFailures(p) ==
  /\ At(p, "clear")
  /\ fails' = [fails EXCEPT ![proc[p].task] = 0]
  /\ UNCHANGED <<status, parkedSince, blockedAt, skippedAt, counter>>
  /\ Proceed(p, AfterRow(p, "success"))
  /\ UNCHANGED <<prd, Bounds>>

\* One conditional UPDATE.  `next` has its claim to number yet; auto_block
\* stamps the row with the iteration of the run.
Sweep(p) ==
  /\ At(p, "sweep")
  /\ LET t == proc[p].task v == proc[p].verb
         verb == IF v = "failure" THEN "auto_block"
                 ELSE IF v = "mutate_irrelevant" THEN "prd_irrelevant" ELSE v
     IN  IF status[t] \in SweepFrom[verb]
         THEN /\ SetRow(t, SweepTo[verb]) /\ Unpark(t)
              /\ IF verb = "auto_block"
                 THEN \E i \in 1 .. MaxIterations :
                        blockedAt' = [blockedAt EXCEPT ![t] = i]
                 ELSE UNCHANGED blockedAt
              /\ Proceed(p, IF verb = "next" THEN Goto(p, "number")
                                             ELSE Return(p, "success"))
         ELSE /\ RowUntouched /\ UNCHANGED blockedAt
              /\ Proceed(p, Return(p, "refused"))
  /\ UNCHANGED <<fails, skippedAt, counter, prd, Bounds>>

\* `next` advances the global counter in a statement after its claim.
NumberClaim(p) ==
  /\ At(p, "number")
  /\ counter' = counter + 1
  /\ RowUntouched
  /\ Proceed(p, Return(p, "success"))
  /\ UNCHANGED <<fails, blockedAt, skippedAt, prd, Bounds>>

\* handle_task_failure: the count is a transaction of its own, the block that
\* may follow is outside it.
CountFailure(p) ==
  /\ At(p, "count")
  /\ LET t == proc[p].task
         exhausted == MaxRetries > 0 /\ fails[t] + 1 >= MaxRetries
     IN  /\ fails' = [fails EXCEPT ![t] = @ + 1]
         /\ RowUntouched
         /\ Proceed(p, IF exhausted THEN Goto(p, "sweep")
                                    ELSE Return(p, "success"))
  /\ UNCHANGED <<blockedAt, skippedAt, counter, prd, Bounds>>

-----------------------------------------------------------------------------
(* The PRD file: read whole, changed in memory, renamed into place.        *)

\* `add`: refuse a known id, insert the row, then append the story.
InsertRow(p) ==
  /\ At(p, "insert")
  /\ UNCHANGED <<parkedSince, Sidecars, prd, Bounds>>
  /\ LET t == proc[p].task
     IN  IF status[t] = NoRow
         THEN SetRow(t, "todo") /\ Proceed(p, Goto(p, "load"))
         ELSE UNCHANGED status /\ Proceed(p, Return(p, "refused"))

\* A sync finds no story, an append finds a duplicate: the file stays as it is.
LoadPrd(p) ==
  /\ At(p, "load")
  /\ LET o == proc[p] t == proc[p].task
         loaded == [stories |-> stories, passes |-> passes]
         useless == IF o.verb = "add" THEN t \in stories
                    ELSE SyncsPrd(p) /\ t \notin stories
     IN  /\ RowUntouched
         /\ Proceed(p,
              CASE useless -> Return(p, "success")
                [] ~useless /\ o.verb = "import" ->
                     [Goto(p, "commit") EXCEPT !.seen = loaded]
                [] ~useless /\ o.verb # "import" ->
                     [Goto(p, "store") EXCEPT !.seen = loaded])
  /\ UNCHANGED <<Sidecars, prd, Bounds>>

\* The new file is the copy that was read plus the verb's change; no lock is
\* held, and the mutation's copy is as old as the agent call that answers it.
StorePrd(p) ==
  /\ At(p, "store")
  /\ LET o == proc[p] t == proc[p].task
     IN  /\ stories' = IF o.verb \in {"add", "mutate_add"}
                       THEN o.seen.stories \cup {t} ELSE o.seen.stories
         /\ passes' = IF o.verb \in {"complete", "tag_done"}
                      THEN o.seen.passes \cup {t} ELSE o.seen.passes
         /\ RowUntouched
         /\ Proceed(p, CASE o.verb = "mutate_irrelevant" -> Goto(p, "sweep")
                         [] o.verb = "mutate_add" -> Goto(p, "commit")
                         [] OTHER -> Return(p, "success"))
  /\ UNCHANGED <<Sidecars, Bounds>>

\* import: one transaction inserts the unknown stories and closes the ones
\* that pass, whatever their status; the mutation's INSERT OR IGNORE.
Commit(p) ==
  /\ At(p, "commit")
  /\ LET o == proc[p]
         imported(t) ==
           CASE t \in o.seen.passes -> "done"
             [] t \notin o.seen.passes /\ t \in o.seen.stories
                  /\ status[t] = NoRow -> "todo"
             [] OTHER -> status[t]
     IN  /\ status' = IF o.verb = "import"
                      THEN [t \in Tasks |-> imported(t)]
                      ELSE [t \in Tasks |-> IF t = o.task /\ status[t] = NoRow
                                            THEN "todo" ELSE status[t]]
         /\ parkedSince' = [t \in Tasks |->
              IF status'[t] # status[t] THEN Unstamped ELSE parkedSince[t]]
         /\ Proceed(p, Return(p, "success"))
  /\ UNCHANGED <<Sidecars, prd, Bounds>>

\* The process is killed between two statements; what it held is gone.
Crash(p) ==
  /\ ~At(p, "idle") /\ crashes < MaxCrashes
  /\ proc' = [proc EXCEPT ![p] = Idle]
  /\ crashes' = crashes + 1
  /\ UNCHANGED <<rows, prd, parkedSince, commands>>

Next ==
  \E p \in Procs :
    \/ Start(p) \/ Check(p) \/ Advance(p) \/ ReadRow(p) \/ AutoClaim(p)
    \/ ReadCounter(p) \/ WriteRow(p) \/ ClearFailures(p) \/ Sweep(p)
    \/ NumberClaim(p) \/ CountFailure(p) \/ InsertRow(p) \/ LoadPrd(p)
    \/ StorePrd(p) \/ Commit(p) \/ Crash(p)

Spec == Init /\ [][Next]_vars

-----------------------------------------------------------------------------
(* Properties.                                                             *)

\* Every field holds a value of its kind; the ghosts and stamps stay in range.
TypeOK ==
  /\ status \in [Tasks -> Statuses \cup {NoRow}]
  /\ fails \in [Tasks -> Nat]
  /\ blockedAt \in [Tasks -> Nat] /\ skippedAt \in [Tasks -> Nat]
  /\ counter \in Nat
  /\ stories \subseteq Tasks /\ passes \subseteq Tasks
  /\ proc \in [Procs -> Ops]
  /\ \A p \in Procs :
       ~At(p, "idle") => proc[p].task \in Tasks /\ proc[p].verb \in VerbsOf[p]
  /\ parkedSince \in [Tasks -> Nat]
  /\ commands \in [Procs -> Nat] /\ crashes \in Nat

RowVerbs == (Sweeps \ {"auto_block"}) \cup Applies
Goal(v) == IF v \in Sweeps THEN SweepTo[v] ELSE ApplyTo[v]
Succeeds(p) == proc[p].result = "none" /\ proc'[p].result = "success"

\* A verb that reports success has put its row where it says: complete's row
\* is done (whether it was claimed, forced from a parked status, or done
\* before), a claim's row is in progress, and so on.  The report can be wrong
\* only if the other process moved the row after the verb first looked at it.
ReportsAreTrue ==
  [][\A p \in Procs :
       Succeeds(p) /\ proc[p].verb \in RowVerbs /\ ~proc[p].disturbed
         => status'[proc[p].task] = Goal(proc[p].verb)]_vars

\* The verbs whose documented purpose is to take a row out of a closed status.
Requests(p) ==
  LET v == proc[p].verb forced == proc[p].forced
      asked == Fails \cup {"reset", "resolve"}
  IN  [done       |-> asked \cup {"reopen", "mutate_irrelevant",
                                 "prd_irrelevant"},
       blocked    |-> asked \cup {"unblock", "skip", "irrelevant", "decay",
                                 "doctor_todo", "import"}
                            \cup (IF forced THEN {"complete"} ELSE {}),
       skipped    |-> asked \cup {"unskip", "irrelevant", "decay",
                                 "doctor_todo", "import"}
                            \cup (IF forced THEN {"complete"} ELSE {}),
       irrelevant |-> asked \cup {"skip", "import"}
                            \cup (IF forced THEN {"complete"} ELSE {})]

\* A closed row (done, or parked, or irrelevant) leaves its status only by a
\* verb meant for that: no sweep, claim, tag or completion takes it by
\* accident, whatever the two processes do between each other's statements.
\* The exception is the lost update of the read-then-write verbs: the row
\* was in another status when the verb read it.
ClosedRowsKept ==
  [][\A p \in Procs, t \in Tasks :
       /\ proc'[p] # proc[p] /\ Changes(t) /\ status[t] \in Terminal
       /\ \A q \in Procs \ {p} : proc'[q].step = proc[q].step
       => \/ proc[p].verb \in Requests(p)[status[t]]
          \/ /\ At(p, "write") /\ proc[p].task = t
             /\ proc[p].prev # status[t]]_vars

\* The PRD never runs ahead of the table: when the loop flags a story as
\* passing, the row is done, unless the operator moved it while the loop was
\* completing it.  A crash in between leaves the flag behind, not ahead.
PassesFollowRow ==
  [][\A p \in Procs :
       At(p, "store") /\ SyncsPrd(p) /\ proc[p].task \in passes' \ passes
         => status[proc[p].task] = "done" \/ proc[p].disturbed]_vars

\* Decay gives a row that `fail` parked its full threshold of iterations from
\* the counter that this `fail` read: no earlier stamp, of this or of another
\* verb, ages it.  From the UPDATE that parked it the wait may be shorter, by the
\* claims `next` numbered since the read.  Rows parked by `skip` carry an older
\* stamp or none, and rows parked by the loop's auto-block carry the iteration
\* of its run: they are not covered.
DecayWaits ==
  [][\A p \in Procs :
       LET t == proc[p].task
       IN  /\ At(p, "write") /\ proc[p].verb = "decay" /\ Changes(t)
           /\ parkedSince[t] # Unstamped /\ ~proc[p].disturbed
           => counter >= parkedSince[t] + DecayThreshold]_vars
=============================================================================
