------------------------- MODULE TaskLifecycleProofs -------------------------
(***************************************************************************)
(* The types of TaskLifecycle and its four action properties, for any      *)
(* tasks, limits and number of verbs and crashes.                          *)
(***************************************************************************)
EXTENDS TaskLifecycle, TLAPS

Syncing == {"complete", "tag_done"}

\* The verbs that can be at each of the steps.
VerbsAt(p) ==
  [idle    |-> {"none"},
   check   |-> Checked[p],
   advance |-> {"complete"},
   read    |-> Applies,
   claim   |-> {"tag_done"},
   stamp   |-> Fails,
   write   |-> Applies,
   clear   |-> Syncing,
   sweep   |-> (Sweeps \ {"auto_block"}) \cup {"failure", "mutate_irrelevant"},
   number  |-> {"next"},
   count   |-> {"failure"},
   insert  |-> {"add"},
   load    |-> FileVerbs \cup Syncing,
   store   |-> (FileVerbs \ {"import"}) \cup Syncing,
   commit  |-> {"import", "mutate_add"}]

\* What a process has in hand fits the step it is at.
Fits(p, o) ==
  /\ o.verb \in VerbsAt(p)[o.step]
  /\ o.step # "idle" => o.task \in Tasks /\ o.verb \in VerbsOf[p]
  /\ o.forced => p = "cli"
  /\ o.step = "advance" => o.forced
  /\ o.step = "claim" => o.prev = "todo"
  /\ o.step \in {"stamp", "write"} => o.prev \in ApplyFrom[o.verb]
  /\ o.step \in {"load", "store"} /\ o.verb \in Syncing => p = "loop"
  /\ o.step \in {"clear", "load", "store"} /\ o.verb \in Syncing => o.result = "success"

\* What a verb has seen of its row, or done to it, is still true of the row, unless
\* the other process has moved the row since.
StillTrue(p) ==
  LET o == proc[p] s == status[proc[p].task] since == parkedSince[proc[p].task] IN
  /\ o.step = "read" /\ o.verb = "complete" => s \in {"in_progress", "done"}
  /\ o.step = "read" /\ o.verb \in {"skip", "irrelevant"} /\ p = "cli" => s # "done"
  /\ o.step = "write" /\ o.verb \in Syncing /\ o.prev = "done" => s = "done"
  /\ o.step \in {"clear", "load", "store"} /\ o.verb \in Syncing => s = "done"
  /\ o.step = "number" => s = "in_progress"
  /\ o.step \in {"read", "write"} /\ o.verb = "decay" /\ since # Unstamped =>
       counter >= since + DecayThreshold

HasRow(p) ==
  proc[p].step # "idle" /\ proc[p].verb \notin {"add", "mutate_add"} =>
    status[proc[p].task] # NoRow

\* A row that `fail` parked carries the counter which that `fail` read.
StampsAgree ==
  \A t \in Tasks : parkedSince[t] # Unstamped =>
    /\ status[t] = "blocked" => blockedAt[t] = parkedSince[t]
    /\ status[t] = "skipped" => skippedAt[t] = parkedSince[t]

Typed == TypeOK /\ \A p \in Procs : Fits(p, proc[p])
Sound ==
  /\ \A p \in Procs : HasRow(p) /\ (proc[p].disturbed \/ StillTrue(p))
  /\ StampsAgree

-----------------------------------------------------------------------------
(* Verbs, their sources and their targets.                                 *)

LEMMA SweepVerbs ==
  Sweeps = {"next", "claim", "recover", "reopen", "auto_block", "prd_done",
            "prd_irrelevant", "doctor_todo", "doctor_done"}
BY DEF Sweeps, SweepFrom

LEMMA ApplyVerbs ==
  Applies = {"complete", "tag_done", "fail_blocked", "fail_skipped", "fail_irrelevant",
             "skip", "irrelevant", "unblock", "unskip", "reset", "resolve", "decay"}
BY DEF Applies, ApplyFrom

LEMMA SweepTargets ==
  \A v \in Sweeps : SweepFrom[v] \subseteq Statuses /\ SweepTo[v] \in Statuses
BY SweepVerbs DEF SweepFrom, SweepTo, Statuses, Claimed

LEMMA ApplyTargets ==
  \A v \in Applies : ApplyFrom[v] \subseteq Statuses /\ ApplyTo[v] \in Statuses
BY ApplyVerbs DEF ApplyFrom, ApplyTo, Statuses, ParkedAs

LEMMA UnstampedIsNat == Unstamped \in Nat
BY ConstantsAssumption DEF Unstamped, Procs

LEMMA FirstSteps ==
  ASSUME NEW p \in Procs, NEW v \in VerbsOf[p]
  PROVE  /\ FirstStep(p, v) \in {"check", "read", "sweep", "insert", "load"}
         /\ v \in VerbsAt(p)[FirstStep(p, v)]
         /\ FirstStep(p, v) = "load" => v \in FileVerbs
         /\ v = "complete" => FirstStep(p, v) = "check"
         /\ p = "cli" /\ v \in {"skip", "irrelevant", "decay"} => FirstStep(p, v) = "check"
<1> USE ApplyVerbs, SweepVerbs DEF FirstStep, Checked, Fails, FileVerbs, VerbsAt,
        VerbsOf, CliVerbs, LoopVerbs
<1>1. CASE p = "cli"
  BY <1>1
<1>2. CASE p = "loop"
  BY <1>2
<1> QED
  BY <1>1, <1>2 DEF Procs

-----------------------------------------------------------------------------
(* What a step of one process leaves of the other.                         *)

LEMMA Others ==
  ASSUME NEW p \in Procs, NEW next, Proceed(p, next), proc \in [Procs -> Ops]
  PROVE  /\ proc'[p] = next
         /\ \A q \in Procs \ {p} :
              /\ proc'[q] \in Ops
              /\ proc'[q].verb = proc[q].verb /\ proc'[q].task = proc[q].task
              /\ proc'[q].forced = proc[q].forced /\ proc'[q].step = proc[q].step
              /\ proc'[q].prev = proc[q].prev /\ proc'[q].result = proc[q].result
              /\ ~proc'[q].disturbed =>
                   ~proc[q].disturbed /\ ~(Begun(q) /\ Touches(proc[q].task))
<1>1. proc'[p] = next
  BY DEF Proceed
<1>2. ASSUME NEW q \in Procs \ {p}
      PROVE  proc'[q] = IF Begun(q) /\ Touches(proc[q].task)
                        THEN [proc[q] EXCEPT !.disturbed = TRUE] ELSE proc[q]
  BY <1>2 DEF Proceed
<1>3. ASSUME NEW q \in Procs \ {p}
      PROVE  /\ proc'[q] \in Ops
             /\ proc'[q].verb = proc[q].verb /\ proc'[q].task = proc[q].task
             /\ proc'[q].forced = proc[q].forced /\ proc'[q].step = proc[q].step
             /\ proc'[q].prev = proc[q].prev /\ proc'[q].result = proc[q].result
             /\ ~proc'[q].disturbed =>
                  ~proc[q].disturbed /\ ~(Begun(q) /\ Touches(proc[q].task))
  <2>1. proc[q] \in Ops
    BY <1>3
  <2>2. CASE Begun(q) /\ Touches(proc[q].task)
    <3>1. proc'[q] = [proc[q] EXCEPT !.disturbed = TRUE]
      BY <1>2, <1>3, <2>2
    <3> QED
      BY <2>1, <3>1 DEF Ops
  <2>3. CASE ~(Begun(q) /\ Touches(proc[q].task))
    BY <1>2, <1>3, <2>1, <2>3
  <2> QED
    BY <2>2, <2>3
<1> QED
  BY <1>1, <1>3

LEMMA ProceedTypes ==
  ASSUME NEW p \in Procs, NEW next \in Ops, Proceed(p, next), Typed, Fits(p, next)
  PROVE  /\ proc' \in [Procs -> Ops]
         /\ \A q \in Procs : Fits(q, proc'[q])
<1>1. \A q \in Procs \ {p} : proc'[q] \in Ops /\ Fits(q, proc'[q])
  BY Others DEF Typed, TypeOK, Fits
<1>2. proc'[p] = next /\ DOMAIN proc' = Procs
  BY Others DEF Proceed, Typed, TypeOK
<1> QED
  BY <1>1, <1>2 DEF Proceed

LEMMA Returned ==
  ASSUME NEW p \in Procs, NEW r \in {"success", "refused"}
  PROVE  Return(p, r) \in Ops /\ Fits(p, Return(p, r))
BY UnstampedIsNat DEF Return, Idle, Ops, Fits, VerbsAt, Syncing, NoFile, Steps

LEMMA AfterRowTypes ==
  ASSUME NEW p \in Procs, NEW r \in {"success", "refused"}, Typed, ~At(p, "idle"),
         proc[p].verb \in Applies
  PROVE  AfterRow(p, r) \in Ops /\ Fits(p, AfterRow(p, r))
<1>1. CASE SyncsPrd(p) /\ r = "success"
  <2>1. AfterRow(p, r) = [proc[p] EXCEPT !.step = "load", !.result = "success"]
    BY <1>1 DEF AfterRow, Goto, Typed, TypeOK, Ops
  <2>2. proc[p] \in Ops /\ Fits(p, proc[p])
    BY DEF Typed, TypeOK
  <2>3. AfterRow(p, r) \in Ops
    BY <2>1, <2>2 DEF Ops, Steps
  <2>4. /\ AfterRow(p, r).step = "load" /\ AfterRow(p, r).result = "success"
        /\ AfterRow(p, r).verb = proc[p].verb /\ AfterRow(p, r).task = proc[p].task
        /\ AfterRow(p, r).forced = proc[p].forced
    BY <2>1, <2>2 DEF Ops
  <2> QED
    BY <1>1, <2>2, <2>3, <2>4 DEF SyncsPrd, Fits, At, VerbsAt, Syncing
<1>2. CASE ~(SyncsPrd(p) /\ r = "success")
  BY <1>2, Returned DEF AfterRow
<1> QED
  BY <1>1, <1>2

LEMMA GotoTypes ==
  ASSUME NEW p \in Procs, NEW step \in Steps, Typed
  PROVE  LET o == Goto(p, step) IN
         /\ o \in Ops /\ o.step = step
         /\ o.verb = proc[p].verb /\ o.task = proc[p].task /\ o.forced = proc[p].forced
         /\ o.prev = proc[p].prev /\ o.stamp = proc[p].stamp /\ o.result = proc[p].result
         /\ o.disturbed = proc[p].disturbed
BY DEF Goto, Typed, TypeOK, Ops

\* The task table, the PRD file and the bounds.
Tables ==
  /\ status \in [Tasks -> Statuses \cup {NoRow}]
  /\ fails \in [Tasks -> Nat]
  /\ blockedAt \in [Tasks -> Nat] /\ skippedAt \in [Tasks -> Nat]
  /\ counter \in Nat
  /\ stories \subseteq Tasks /\ passes \subseteq Tasks
  /\ parkedSince \in [Tasks -> Nat]
  /\ commands \in [Procs -> Nat] /\ crashes \in Nat

LEMMA TypedNext ==
  ASSUME Typed, NEW p \in Procs, NEW next \in Ops, Proceed(p, next), Fits(p, next), Tables'
  PROVE  Typed'
<1>1. proc' \in [Procs -> Ops] /\ \A q \in Procs : Fits(q, proc'[q])
  BY ProceedTypes
<1>2. \A q \in Procs : proc'[q].step # "idle" =>
        proc'[q].task \in Tasks /\ proc'[q].verb \in VerbsOf[q]
  BY <1>1 DEF Fits
<1> QED
  BY <1>1, <1>2 DEF Typed, TypeOK, Tables, At

LEMMA InHand ==
  ASSUME Typed, NEW p \in Procs
  PROVE  /\ proc[p] \in Ops /\ Fits(p, proc[p]) /\ Tables
         /\ ~At(p, "idle") => proc[p].task \in Tasks /\ proc[p].verb \in VerbsOf[p]
BY DEF Typed, TypeOK, Tables

LEMMA TypeStart ==
  ASSUME Typed, NEW p \in Procs, Start(p)
  PROVE  Typed'
<1>1. PICK v \in VerbsOf[p], t \in Tasks, f \in BOOLEAN :
        /\ f => p = "cli"
        /\ proc' = [proc EXCEPT ![p] = [Idle EXCEPT !.verb = v, !.task = t,
                               !.forced = f, !.step = FirstStep(p, v)]]
  BY DEF Start
<1> DEFINE o == [Idle EXCEPT !.verb = v, !.task = t, !.forced = f,
                             !.step = FirstStep(p, v)]
<1>2. /\ o.verb = v /\ o.task = t /\ o.forced = f /\ o.step = FirstStep(p, v)
      /\ FirstStep(p, v) \in {"check", "read", "sweep", "insert", "load"}
  BY FirstSteps DEF Idle
<1>3. v \in Verbs
  BY ApplyVerbs, SweepVerbs DEF VerbsOf, CliVerbs, LoopVerbs, Verbs, Fails, FileVerbs, Procs
<1>4. o \in Ops
  BY <1>2, <1>3, UnstampedIsNat DEF Idle, Ops, Steps, NoFile
<1>5. Fits(p, o)
  BY <1>1, <1>2, FirstSteps DEF Fits, FileVerbs, Syncing
<1> HIDE DEF o
<1>6. proc' = [proc EXCEPT ![p] = o]
  BY <1>1 DEF o
<1>7. proc' \in [Procs -> Ops] /\ \A q \in Procs : Fits(q, proc'[q])
  BY <1>4, <1>5, <1>6 DEF Typed, TypeOK
<1>8. \A q \in Procs : proc'[q].step # "idle" =>
        proc'[q].task \in Tasks /\ proc'[q].verb \in VerbsOf[q]
  BY <1>7 DEF Fits
<1>9. Tables'
  BY InHand DEF Start, Tables, rows, prd
<1> QED
  BY <1>7, <1>8, <1>9 DEF Typed, TypeOK, Tables, At

LEMMA TypeCheck ==
  ASSUME Typed, NEW p \in Procs, Check(p)
  PROVE  Typed'
<1>1. Tables'
  BY InHand DEF Check, Tables, rows, prd, Bounds
<1>10. Fits(p, proc[p]) /\ proc[p].step = "check"
  BY InHand DEF Check, At
<1>2. proc[p].verb \in Checked[p] /\ proc[p].task \in Tasks /\ proc[p].verb \in VerbsOf[p]
  BY <1>10 DEF Fits, VerbsAt
<1>3. /\ Return(p, "refused") \in Ops /\ Fits(p, Return(p, "refused"))
  BY Returned
<1>4. ASSUME proc[p].verb = "complete", proc[p].forced
      PROVE  Goto(p, "advance") \in Ops /\ Fits(p, Goto(p, "advance"))
  BY <1>10, <1>2, <1>4, GotoTypes DEF Steps, Fits, VerbsAt, Syncing
<1>5. ASSUME proc[p].verb \in Applies
      PROVE  Goto(p, "read") \in Ops /\ Fits(p, Goto(p, "read"))
  BY <1>10, <1>2, <1>5, GotoTypes DEF Steps, Fits, VerbsAt, Syncing
<1>6. ASSUME proc[p].verb \in Sweeps
      PROVE  Goto(p, "sweep") \in Ops /\ Fits(p, Goto(p, "sweep"))
  <2>1. proc[p].verb # "auto_block"
    BY <1>2 DEF Checked, Fails, Procs
  <2> QED
    BY <1>10, <1>2, <1>6, <2>1, GotoTypes DEF Steps, Fits, VerbsAt, Syncing
<1>7. ASSUME proc[p].verb = "failure"
      PROVE  Goto(p, "count") \in Ops /\ Fits(p, Goto(p, "count"))
  BY <1>10, <1>2, <1>7, GotoTypes DEF Steps, Fits, VerbsAt, Syncing
<1>8. proc[p].verb \in Applies \cup Sweeps \cup {"failure"}
  BY <1>2, ApplyVerbs, SweepVerbs DEF Checked, Fails, Procs
<1>9. \E next \in Ops : Proceed(p, next) /\ Fits(p, next)
  BY <1>3, <1>4, <1>5, <1>6, <1>7, <1>8 DEF Check
<1> QED
  BY <1>1, <1>9, TypedNext

LEMMA RowTypes ==
  ASSUME Tables, NEW t \in Tasks
  PROVE  /\ \A s \in Statuses : SetRow(t, s) => status' \in [Tasks -> Statuses \cup {NoRow}]
         /\ Unpark(t) => parkedSince' \in [Tasks -> Nat]
         /\ RowUntouched => status' \in [Tasks -> Statuses \cup {NoRow}]
                            /\ parkedSince' \in [Tasks -> Nat]
BY UnstampedIsNat DEF Tables, SetRow, Unpark, RowUntouched

LEMMA TypeAdvance ==
  ASSUME Typed, NEW p \in Procs, Advance(p)
  PROVE  Typed'
<1>1. Fits(p, proc[p]) /\ proc[p].step = "advance" /\ proc[p].task \in Tasks /\ Tables
  BY InHand DEF Advance, At
<1>2. Goto(p, "read") \in Ops /\ Fits(p, Goto(p, "read"))
  BY <1>1, GotoTypes, ApplyVerbs DEF Steps, Fits, VerbsAt
<1>3. Tables'
  BY <1>1, RowTypes DEF Advance, Tables, Sidecars, prd, Bounds, Statuses
<1> QED
  BY <1>2, <1>3, TypedNext DEF Advance

LEMMA TypeReadRow ==
  ASSUME Typed, NEW p \in Procs, ReadRow(p)
  PROVE  Typed'
<1> DEFINE o == proc[p]
           s == status[o.task]
           n == [Goto(p, StepAfterRead(o.verb, s)) EXCEPT !.prev = s]
<1>1. o \in Ops /\ Fits(p, o) /\ o.step = "read" /\ o.task \in Tasks
  BY InHand DEF ReadRow, At
<1>2. o.verb \in Applies /\ o.verb \in VerbsOf[p]
  BY <1>1 DEF Fits, VerbsAt
<1>3. s \in Statuses \cup {NoRow}
  BY <1>1, InHand DEF Tables
<1>4. ASSUME s \in ApplyFrom[o.verb] PROVE n \in Ops /\ Fits(p, n)
  <2>1. StepAfterRead(o.verb, s) \in Steps
    BY DEF StepAfterRead, Steps
  <2>2. n \in Ops /\ n.step = StepAfterRead(o.verb, s) /\ n.prev = s /\ n.verb = o.verb
        /\ n.task = o.task /\ n.forced = o.forced
    BY <1>3, <2>1, GotoTypes DEF Ops
  <2> HIDE DEF n
  <2>3. CASE o.verb = "tag_done" /\ s = "todo"
    BY <1>1, <1>2, <1>4, <2>2, <2>3 DEF StepAfterRead, Fits, VerbsAt
  <2>4. CASE o.verb \in Fails
    BY <1>1, <1>2, <1>4, <2>2, <2>4 DEF StepAfterRead, Fits, VerbsAt, Fails
  <2>5. CASE o.verb \notin Fails /\ ~(o.verb = "tag_done" /\ s = "todo")
    BY <1>1, <1>2, <1>4, <2>2, <2>5 DEF StepAfterRead, Fits, VerbsAt
  <2> QED
    BY <2>3, <2>4, <2>5
<1>6. ASSUME NEW r \in {"success", "refused"}
      PROVE  AfterRow(p, r) \in Ops /\ Fits(p, AfterRow(p, r))
  BY <1>1, <1>2, AfterRowTypes DEF At
<1>7. \E next \in Ops : Proceed(p, next) /\ Fits(p, next)
  BY <1>4, <1>6 DEF ReadRow
<1>8. Tables'
  BY InHand DEF ReadRow, Tables, rows, prd, Bounds
<1> QED
  BY <1>7, <1>8, TypedNext

LEMMA TypeAutoClaim ==
  ASSUME Typed, NEW p \in Procs, AutoClaim(p)
  PROVE  Typed'
<1>1. Fits(p, proc[p]) /\ proc[p].step = "claim" /\ proc[p].task \in Tasks /\ Tables
  BY InHand DEF AutoClaim, At
<1>2. Goto(p, "write") \in Ops /\ Fits(p, Goto(p, "write"))
  BY <1>1, GotoTypes, ApplyVerbs DEF Steps, Fits, VerbsAt, ApplyFrom
<1>3. Tables'
  BY <1>1, RowTypes DEF AutoClaim, Tables, Sidecars, prd, Bounds, Statuses
<1> QED
  BY <1>2, <1>3, TypedNext DEF AutoClaim

LEMMA TypeReadCounter ==
  ASSUME Typed, NEW p \in Procs, ReadCounter(p)
  PROVE  Typed'
<1> DEFINE o == proc[p]
           n == [Goto(p, "write") EXCEPT !.stamp = counter]
<1>1. o \in Ops /\ Fits(p, o) /\ o.step = "stamp" /\ o.task \in Tasks /\ Tables
  BY InHand DEF ReadCounter, At
<1>2. n \in Ops /\ n.step = "write" /\ n.prev = o.prev /\ n.verb = o.verb
      /\ n.task = o.task /\ n.forced = o.forced
  <2>1. Goto(p, "write") \in Ops /\ Goto(p, "write").step = "write"
        /\ Goto(p, "write").prev = o.prev /\ Goto(p, "write").verb = o.verb
        /\ Goto(p, "write").task = o.task /\ Goto(p, "write").forced = o.forced
    BY GotoTypes DEF Steps
  <2>2. counter \in Nat
    BY <1>1 DEF Tables
  <2> QED
    BY <2>1, <2>2 DEF Ops
<1>3. Proceed(p, n)
  BY DEF ReadCounter
<1> HIDE DEF n
<1>4. Fits(p, n)
  BY <1>1, <1>2, ApplyVerbs DEF Fits, VerbsAt, Fails
<1>5. Tables'
  BY <1>1 DEF ReadCounter, RowUntouched, Tables, Sidecars, prd, Bounds
<1> QED
  BY <1>2, <1>3, <1>4, <1>5, TypedNext

LEMMA TypeWriteRow ==
  ASSUME Typed, NEW p \in Procs, WriteRow(p)
  PROVE  Typed'
<1> DEFINE o == proc[p]
           c == [Goto(p, "clear") EXCEPT !.result = "success"]
           again == o.verb \in {"complete", "tag_done"} /\ o.prev = "done"
<1>1. o \in Ops /\ Fits(p, o) /\ o.step = "write" /\ o.task \in Tasks /\ Tables
  BY InHand DEF WriteRow, At
<1>2. o.verb \in Applies /\ o.verb \in VerbsOf[p]
  BY <1>1 DEF Fits, VerbsAt
<1>3. ASSUME o.verb \in {"complete", "tag_done"} PROVE c \in Ops /\ Fits(p, c)
  <2>1. c \in Ops /\ c.step = "clear" /\ c.result = "success" /\ c.verb = o.verb
        /\ c.task = o.task /\ c.forced = o.forced
    BY GotoTypes DEF Ops, Steps
  <2> QED
    BY <1>1, <1>2, <1>3, <2>1 DEF Fits, VerbsAt, Syncing
<1>4. AfterRow(p, "success") \in Ops /\ Fits(p, AfterRow(p, "success"))
  BY <1>1, <1>2, AfterRowTypes DEF At
<1>5. Proceed(p, IF o.verb \in {"complete", "tag_done"} /\ ~again THEN c
                 ELSE AfterRow(p, "success"))
  BY DEF WriteRow
<1> HIDE DEF c
<1>6. \E next \in Ops : Proceed(p, next) /\ Fits(p, next)
  BY <1>3, <1>4, <1>5
<1>7. ApplyTo[o.verb] \in Statuses
  BY <1>2, ApplyTargets
<1>8. status' \in [Tasks -> Statuses \cup {NoRow}] /\ parkedSince' \in [Tasks -> Nat]
  BY <1>1, <1>7, RowTypes, UnstampedIsNat DEF WriteRow, Tables, Ops
<1>9. blockedAt' \in [Tasks -> Nat] /\ skippedAt' \in [Tasks -> Nat]
  <2>1. \A v : \A n \in Nat :
          /\ (CASE v = "fail_blocked" -> o.stamp [] v = "decay" -> Unstamped
                [] OTHER -> n) \in Nat
          /\ (CASE v = "fail_skipped" -> o.stamp [] v = "decay" -> Unstamped
                [] OTHER -> n) \in Nat
    BY <1>1, UnstampedIsNat DEF Ops
  <2> QED
    BY <1>1, <2>1 DEF WriteRow, Tables
<1>10. Tables'
  BY <1>1, <1>8, <1>9 DEF WriteRow, Tables, prd, Bounds
<1> QED
  BY <1>6, <1>10, TypedNext

LEMMA TypeClearFailures ==
  ASSUME Typed, NEW p \in Procs, ClearFailures(p)
  PROVE  Typed'
<1>1. Fits(p, proc[p]) /\ proc[p].step = "clear" /\ proc[p].task \in Tasks /\ Tables
  BY InHand DEF ClearFailures, At
<1>2. proc[p].verb \in Applies
  BY <1>1, ApplyVerbs DEF Fits, VerbsAt, Syncing
<1>3. AfterRow(p, "success") \in Ops /\ Fits(p, AfterRow(p, "success"))
  BY <1>1, <1>2, AfterRowTypes DEF At
<1>4. Tables'
  BY <1>1 DEF ClearFailures, Tables, prd, Bounds
<1> QED
  BY <1>3, <1>4, TypedNext DEF ClearFailures

\* The sweep a verb makes: failure's is the auto-block, the mutation's the import's.
SweepVerb(v) == IF v = "failure" THEN "auto_block"
                ELSE IF v = "mutate_irrelevant" THEN "prd_irrelevant" ELSE v

LEMMA SweptRow ==
  ASSUME Typed, NEW p \in Procs, Sweep(p)
  PROVE  LET t == proc[p].task v == SweepVerb(proc[p].verb) IN
         /\ t \in Tasks /\ v \in Sweeps
         /\ \/ /\ status[t] \in SweepFrom[v] /\ SetRow(t, SweepTo[v]) /\ Unpark(t)
               /\ \/ v = "auto_block" /\ \E i \in Nat : blockedAt' = [blockedAt EXCEPT ![t] = i]
                  \/ v # "auto_block" /\ UNCHANGED blockedAt
               /\ Proceed(p, IF v = "next" THEN Goto(p, "number")
                                           ELSE Return(p, "success"))
            \/ /\ status[t] \notin SweepFrom[v] /\ RowUntouched
               /\ UNCHANGED blockedAt
               /\ Proceed(p, Return(p, "refused"))
<1>1. Fits(p, proc[p]) /\ proc[p].step = "sweep" /\ proc[p].task \in Tasks
  BY InHand DEF Sweep, At
<1>2. SweepVerb(proc[p].verb) \in Sweeps
  BY <1>1, SweepVerbs DEF Fits, VerbsAt, SweepVerb
<1> DEFINE t == proc[p].task
           v == SweepVerb(proc[p].verb)
<1>3. IF status[t] \in SweepFrom[v]
      THEN /\ SetRow(t, SweepTo[v]) /\ Unpark(t)
           /\ IF v = "auto_block"
              THEN \E i \in 1 .. MaxIterations : blockedAt' = [blockedAt EXCEPT ![t] = i]
              ELSE UNCHANGED blockedAt
           /\ Proceed(p, IF v = "next" THEN Goto(p, "number")
                                       ELSE Return(p, "success"))
      ELSE /\ RowUntouched /\ UNCHANGED blockedAt
           /\ Proceed(p, Return(p, "refused"))
  BY DEF Sweep, SweepVerb
<1>4. \A i \in 1 .. MaxIterations : i \in Nat
  BY ConstantsAssumption
<1> HIDE DEF t, v
<1>5. t \in Tasks /\ v \in Sweeps
  BY <1>1, <1>2 DEF t, v
<1>6. CASE status[t] \in SweepFrom[v]
  BY <1>3, <1>4, <1>5, <1>6 DEF t, v
<1>7. CASE status[t] \notin SweepFrom[v]
  BY <1>3, <1>5, <1>7 DEF t, v
<1> QED
  BY <1>6, <1>7

LEMMA TypeSweep ==
  ASSUME Typed, NEW p \in Procs, Sweep(p)
  PROVE  Typed'
<1>1. \E next \in Ops : Proceed(p, next) /\ Fits(p, next)
  <2>1. Fits(p, proc[p]) /\ proc[p].step = "sweep"
    BY InHand DEF Sweep, At
  <2>2. ASSUME SweepVerb(proc[p].verb) = "next"
        PROVE  Goto(p, "number") \in Ops /\ Fits(p, Goto(p, "number"))
    <3>1. proc[p].verb = "next"
      BY <2>2 DEF SweepVerb
    <3> QED
      BY <2>1, <3>1, GotoTypes DEF Steps, Fits, VerbsAt, Syncing
  <2> QED
    BY <2>2, SweptRow, Returned
<1>2. Tables
  BY InHand
<1>3. blockedAt' \in [Tasks -> Nat]
  BY <1>2, SweptRow DEF Tables
<1>4. status' \in [Tasks -> Statuses \cup {NoRow}] /\ parkedSince' \in [Tasks -> Nat]
  BY <1>2, SweptRow, SweepTargets, RowTypes
<1>5. Tables'
  BY <1>2, <1>3, <1>4 DEF Sweep, Tables, prd, Bounds
<1> QED
  BY <1>1, <1>5, TypedNext

LEMMA TypeNumberClaim ==
  ASSUME Typed, NEW p \in Procs, NumberClaim(p)
  PROVE  Typed'
<1>1. Return(p, "success") \in Ops /\ Fits(p, Return(p, "success"))
  BY Returned
<1>2. Tables'
  BY InHand DEF NumberClaim, Tables, RowUntouched, prd, Bounds
<1> QED
  BY <1>1, <1>2, TypedNext DEF NumberClaim

LEMMA TypeCountFailure ==
  ASSUME Typed, NEW p \in Procs, CountFailure(p)
  PROVE  Typed'
<1>1. Fits(p, proc[p]) /\ proc[p].step = "count" /\ proc[p].task \in Tasks /\ Tables
  BY InHand DEF CountFailure, At
<1>2. Goto(p, "sweep") \in Ops /\ Fits(p, Goto(p, "sweep"))
  BY <1>1, GotoTypes DEF Steps, Fits, VerbsAt
<1>3. Return(p, "success") \in Ops /\ Fits(p, Return(p, "success"))
  BY Returned
<1>4. \E next \in Ops : Proceed(p, next) /\ Fits(p, next)
  BY <1>2, <1>3 DEF CountFailure
<1>5. Tables'
  BY <1>1 DEF CountFailure, Tables, RowUntouched, prd, Bounds
<1> QED
  BY <1>4, <1>5, TypedNext

LEMMA TypeInsertRow ==
  ASSUME Typed, NEW p \in Procs, InsertRow(p)
  PROVE  Typed'
<1>1. Fits(p, proc[p]) /\ proc[p].step = "insert" /\ proc[p].task \in Tasks /\ Tables
  BY InHand DEF InsertRow, At
<1>2. Goto(p, "load") \in Ops /\ Fits(p, Goto(p, "load"))
  BY <1>1, GotoTypes DEF Steps, Fits, VerbsAt, Syncing, FileVerbs
<1>3. Return(p, "refused") \in Ops /\ Fits(p, Return(p, "refused"))
  BY Returned
<1>4. \E next \in Ops : Proceed(p, next) /\ Fits(p, next)
  BY <1>2, <1>3 DEF InsertRow
<1>5. Tables'
  BY <1>1 DEF InsertRow, Tables, SetRow, Sidecars, prd, Bounds, Statuses
<1> QED
  BY <1>4, <1>5, TypedNext

LEMMA TypeLoadPrd ==
  ASSUME Typed, NEW p \in Procs, LoadPrd(p)
  PROVE  Typed'
<1> DEFINE o == proc[p]
           loaded == [stories |-> stories, passes |-> passes]
           n(step) == [Goto(p, step) EXCEPT !.seen = loaded]
<1>1. o \in Ops /\ Fits(p, o) /\ o.step = "load" /\ o.task \in Tasks /\ Tables
  BY InHand DEF LoadPrd, At
<1>2. ASSUME NEW step \in Steps
      PROVE  /\ n(step) \in Ops /\ n(step).step = step /\ n(step).verb = o.verb
             /\ n(step).task = o.task /\ n(step).forced = o.forced
             /\ n(step).result = o.result
  BY <1>1, GotoTypes DEF Ops, Tables
<1> HIDE DEF n
<1>3. ASSUME o.verb = "import" PROVE n("commit") \in Ops /\ Fits(p, n("commit"))
  BY <1>1, <1>2, <1>3 DEF Steps, Fits, VerbsAt
<1>4. ASSUME o.verb # "import" PROVE n("store") \in Ops /\ Fits(p, n("store"))
  BY <1>1, <1>2, <1>4 DEF Steps, Fits, VerbsAt
<1>5. Return(p, "success") \in Ops /\ Fits(p, Return(p, "success"))
  BY Returned
<1>6. Proceed(p, Return(p, "success")) \/ (o.verb = "import" /\ Proceed(p, n("commit")))
        \/ (o.verb # "import" /\ Proceed(p, n("store")))
  BY DEF LoadPrd, n
<1>7. \E next \in Ops : Proceed(p, next) /\ Fits(p, next)
  BY <1>3, <1>4, <1>5, <1>6
<1>8. Tables'
  BY <1>1 DEF LoadPrd, Tables, RowUntouched, Sidecars, prd, Bounds
<1> QED
  BY <1>7, <1>8, TypedNext

LEMMA TypeStorePrd ==
  ASSUME Typed, NEW p \in Procs, StorePrd(p)
  PROVE  Typed'
<1>1. /\ proc[p] \in Ops /\ Fits(p, proc[p]) /\ proc[p].step = "store"
      /\ proc[p].task \in Tasks /\ Tables
  BY InHand DEF StorePrd, At
<1>2. ASSUME proc[p].verb = "mutate_irrelevant"
      PROVE  Goto(p, "sweep") \in Ops /\ Fits(p, Goto(p, "sweep"))
  BY <1>1, <1>2, GotoTypes DEF Steps, Fits, VerbsAt
<1>3. ASSUME proc[p].verb = "mutate_add"
      PROVE  Goto(p, "commit") \in Ops /\ Fits(p, Goto(p, "commit"))
  BY <1>1, <1>3, GotoTypes DEF Steps, Fits, VerbsAt
<1>4. Return(p, "success") \in Ops /\ Fits(p, Return(p, "success"))
  BY Returned
<1>5. \E next \in Ops : Proceed(p, next) /\ Fits(p, next)
  BY <1>2, <1>3, <1>4 DEF StorePrd
<1>6. proc[p].seen.stories \subseteq Tasks /\ proc[p].seen.passes \subseteq Tasks
  BY <1>1 DEF Ops
<1>7. Tables'
  BY <1>1, <1>6 DEF StorePrd, Tables, RowUntouched, Sidecars, Bounds
<1> QED
  BY <1>5, <1>7, TypedNext

LEMMA CommittedRows ==
  ASSUME Typed, NEW p \in Procs, Commit(p)
  PROVE  /\ status' \in [Tasks -> Statuses \cup {NoRow}]
         /\ \A t \in Tasks :
              status'[t] = status[t]
              \/ (status[t] = NoRow /\ status'[t] = "todo")
              \/ (proc[p].verb = "import" /\ status'[t] = "done")
<1>1. status \in [Tasks -> Statuses \cup {NoRow}]
  BY InHand DEF Tables
<1> DEFINE o == proc[p]
<1>2. CASE o.verb = "import"
  <2>1. status' = [t \in Tasks |->
          CASE t \in o.seen.passes -> "done"
            [] t \notin o.seen.passes /\ t \in o.seen.stories /\ status[t] = NoRow -> "todo"
            [] OTHER -> status[t]]
    BY <1>2 DEF Commit
  <2> QED
    BY <1>1, <1>2, <2>1 DEF Statuses
<1>3. CASE o.verb # "import"
  <2>1. status' = [t \in Tasks |-> IF t = o.task /\ status[t] = NoRow
                                   THEN "todo" ELSE status[t]]
    BY <1>3 DEF Commit
  <2> QED
    BY <1>1, <2>1 DEF Statuses
<1> QED
  BY <1>2, <1>3

LEMMA TypeCommit ==
  ASSUME Typed, NEW p \in Procs, Commit(p)
  PROVE  Typed'
<1>1. Return(p, "success") \in Ops /\ Fits(p, Return(p, "success"))
  BY Returned
<1>2. parkedSince' \in [Tasks -> Nat]
  BY InHand, UnstampedIsNat DEF Commit, Tables
<1>3. Tables'
  BY <1>2, InHand, CommittedRows DEF Commit, Tables, Sidecars, prd, Bounds
<1> QED
  BY <1>1, <1>3, TypedNext DEF Commit

LEMMA TypeCrash ==
  ASSUME Typed, NEW p \in Procs, Crash(p)
  PROVE  Typed'
<1>1. Idle \in Ops /\ Fits(p, Idle)
  BY UnstampedIsNat DEF Idle, Ops, Fits, VerbsAt, Syncing, NoFile, Steps
<1>2. proc' = [proc EXCEPT ![p] = Idle]
  BY DEF Crash
<1> HIDE DEF Idle
<1>3. proc' \in [Procs -> Ops] /\ \A q \in Procs : Fits(q, proc'[q])
  BY <1>1, <1>2 DEF Typed, TypeOK
<1>4. \A q \in Procs : proc'[q].step # "idle" =>
        proc'[q].task \in Tasks /\ proc'[q].verb \in VerbsOf[q]
  BY <1>3 DEF Fits
<1>5. Tables'
  BY InHand DEF Crash, Tables, rows, prd
<1> QED
  BY <1>3, <1>4, <1>5 DEF Typed, TypeOK, Tables, At

LEMMA TypedInvariant == Spec => []Typed
<1>1. Init => Typed
  <2> SUFFICES ASSUME Init PROVE Typed
    OBVIOUS
  <2>1. \A p \in Procs : proc[p] = Idle /\ Idle \in Ops /\ Fits(p, Idle)
    BY UnstampedIsNat DEF Init, Idle, Ops, Fits, VerbsAt, Syncing, NoFile, Steps
  <2>2. \A p \in Procs : proc[p].step = "idle"
    BY <2>1 DEF Idle
  <2> QED
    BY <2>1, <2>2, UnstampedIsNat DEF Init, Typed, TypeOK, At
<1>2. Typed /\ [Next]_vars => Typed'
  <2>1. ASSUME Typed, UNCHANGED vars PROVE Typed'
    BY <2>1 DEF vars, rows, prd, Typed, TypeOK, At
  <2> QED
    BY <2>1, TypeStart, TypeCheck, TypeAdvance, TypeReadRow, TypeAutoClaim,
       TypeReadCounter, TypeWriteRow, TypeClearFailures, TypeSweep, TypeNumberClaim,
       TypeCountFailure, TypeInsertRow, TypeLoadPrd,
       TypeStorePrd, TypeCommit, TypeCrash DEF Next
<1> QED
  BY <1>1, <1>2, PTL DEF Spec

\* The type invariant, for any tasks, limits and number of verbs and crashes: in
\* particular every UPDATE writes a status of the schema, and a verb that is under
\* way is one its process may run.
THEOREM TypeCorrect == Spec => []TypeOK
BY TypedInvariant, PTL DEF Typed

-----------------------------------------------------------------------------
(* What a verb knows of its row.                                           *)

\* What is said of a process does not depend on the other, unless it is disturbed.
LEMMA OthersSound ==
  ASSUME Typed, Sound, NEW p \in Procs, NEW next, Proceed(p, next),
         counter \in Nat, counter' \in Nat, counter' >= counter,
         \A t \in Tasks : status[t] # NoRow => status'[t] # NoRow,
         parkedSince \in [Tasks -> Nat]
  PROVE  \A q \in Procs \ {p} : HasRow(q)' /\ (proc'[q].disturbed \/ StillTrue(q)')
<1> SUFFICES ASSUME NEW q \in Procs \ {p}
             PROVE  HasRow(q)' /\ (proc'[q].disturbed \/ StillTrue(q)')
  OBVIOUS
<1>1. /\ proc'[q].verb = proc[q].verb /\ proc'[q].task = proc[q].task
      /\ proc'[q].step = proc[q].step /\ proc'[q].prev = proc[q].prev
      /\ ~proc'[q].disturbed => ~proc[q].disturbed /\ ~(Begun(q) /\ Touches(proc[q].task))
  BY Others DEF Typed, TypeOK
<1>2. Fits(q, proc[q]) /\ HasRow(q) /\ (proc[q].disturbed \/ StillTrue(q))
  BY DEF Typed, Sound
<1>3. HasRow(q)'
  BY <1>1, <1>2 DEF HasRow, Fits
<1>4. ASSUME ~proc'[q].disturbed PROVE StillTrue(q)'
  <2>1. StillTrue(q) /\ ~(Begun(q) /\ Touches(proc[q].task))
    BY <1>1, <1>2, <1>4
  <2>2. CASE Begun(q)
    <3>1. /\ status'[proc[q].task] = status[proc[q].task]
          /\ parkedSince'[proc[q].task] = parkedSince[proc[q].task]
      BY <2>1, <2>2 DEF Touches, Changes
    <3>2. proc[q].step # "idle" => parkedSince[proc[q].task] \in Nat
      BY <1>2 DEF Fits
    <3>3. DecayThreshold \in Nat
      BY ConstantsAssumption
    <3> QED
      BY <1>1, <2>1, <3>1, <3>2, <3>3 DEF StillTrue
  <2>3. CASE ~Begun(q) /\ proc[q].step # "idle"
    <3>1. proc[q].verb \in VerbsOf[q] /\ proc[q].step = FirstStep(q, proc[q].verb)
      BY <1>2, <2>3 DEF Begun, Fits
    <3>2. /\ proc[q].step \in {"check", "read", "sweep", "insert", "load"}
          /\ proc[q].step = "load" => proc[q].verb \in FileVerbs
          /\ proc[q].verb = "complete" => proc[q].step = "check"
          /\ q = "cli" /\ proc[q].verb \in {"skip", "irrelevant", "decay"} =>
               proc[q].step = "check"
      BY <3>1, FirstSteps
    <3>3. proc[q].verb = "decay" => q = "cli"
      BY <3>1 DEF VerbsOf, LoopVerbs, Procs
    <3> QED
      BY <1>1, <3>2, <3>3 DEF StillTrue, FileVerbs, Syncing
  <2>4. CASE proc[q].step = "idle"
    BY <1>1, <2>4 DEF StillTrue
  <2> QED
    BY <2>2, <2>3, <2>4
<1> QED
  BY <1>3, <1>4

LEMMA IdleSound ==
  ASSUME NEW p \in Procs, proc'[p].step = "idle"
  PROVE  HasRow(p)' /\ StillTrue(p)'
BY DEF HasRow, StillTrue

\* Rows do not vanish and the counter does not fall, and stamps agree.
LEMMA SoundNext ==
  ASSUME Typed, Sound, NEW p \in Procs, NEW next, Proceed(p, next),
         counter' \in Nat, counter' >= counter,
         \A t \in Tasks : status[t] # NoRow => status'[t] # NoRow,
         StampsAgree', HasRow(p)', proc'[p].disturbed \/ StillTrue(p)'
  PROVE  Sound'
<1>1. \A q \in Procs \ {p} : HasRow(q)' /\ (proc'[q].disturbed \/ StillTrue(q)')
  BY OthersSound DEF Typed, TypeOK
<1> QED
  BY <1>1 DEF Sound

LEMMA RowUnmoved ==
  ASSUME Typed, Sound, NEW p \in Procs, NEW next, Proceed(p, next),
         UNCHANGED <<status, parkedSince, blockedAt, skippedAt, counter>>,
         next.step = "idle" \/
           /\ next.step # "idle" /\ proc[p].step # "idle"
           /\ next.verb = proc[p].verb /\ next.task = proc[p].task
           /\ next.disturbed \/ StillTrue(p)'
  PROVE  Sound'
<1>1. counter' \in Nat /\ counter' >= counter
  BY DEF Typed, TypeOK
<1>2. StampsAgree'
  BY DEF Sound, StampsAgree
<1>3. proc'[p] = next
  BY Others DEF Typed, TypeOK
<1>4. HasRow(p)' /\ (proc'[p].disturbed \/ StillTrue(p)')
  BY <1>3, IdleSound DEF HasRow, Sound
<1> QED
  BY <1>1, <1>2, <1>4, SoundNext

LEMMA SoundStart ==
  ASSUME Typed, Sound, NEW p \in Procs, Start(p)
  PROVE  Sound'
<1>1. PICK v \in VerbsOf[p], t \in Tasks, f \in BOOLEAN :
        /\ (status[t] = NoRow) <=> (v \in {"add", "mutate_add"})
        /\ proc' = [proc EXCEPT ![p] = [Idle EXCEPT !.verb = v, !.task = t,
                               !.forced = f, !.step = FirstStep(p, v)]]
  BY DEF Start
<1> DEFINE o == [Idle EXCEPT !.verb = v, !.task = t, !.forced = f,
                             !.step = FirstStep(p, v)]
<1>2. o.verb = v /\ o.task = t /\ o.step = FirstStep(p, v)
  BY DEF Idle
<1> HIDE DEF o
<1>3. proc'[p] = o /\ \A q \in Procs \ {p} : proc'[q] = proc[q]
  BY <1>1 DEF o, Typed, TypeOK
<1>4. UNCHANGED <<status, parkedSince, blockedAt, skippedAt, counter>>
  BY DEF Start, rows
<1>5. HasRow(p)'
  BY <1>1, <1>2, <1>3, <1>4 DEF HasRow
<1>6. StillTrue(p)'
  <2>1. v = "decay" => p = "cli"
    BY DEF VerbsOf, LoopVerbs, Procs
  <2> QED
    BY <1>2, <1>3, <2>1, FirstSteps DEF StillTrue, Syncing, FileVerbs
<1>7. \A q \in Procs \ {p} : HasRow(q)' /\ (proc'[q].disturbed \/ StillTrue(q)')
  BY <1>3, <1>4 DEF Sound, HasRow, StillTrue
<1> QED
  BY <1>4, <1>5, <1>6, <1>7 DEF Sound, StampsAgree

LEMMA SoundCheck ==
  ASSUME Typed, Sound, NEW p \in Procs, Check(p)
  PROVE  Sound'
<1> DEFINE o == proc[p] s == status[o.task]
<1>1. Fits(p, o) /\ o.step = "check" /\ Tables /\ HasRow(p)
  BY InHand DEF Check, At, Sound
<1>2. o.verb \in Checked[p] /\ o.task \in Tasks /\ s \in Statuses
  BY <1>1 DEF Fits, VerbsAt, HasRow, Checked, Fails, Procs, Tables
<1>3. UNCHANGED <<status, parkedSince, blockedAt, skippedAt, counter>>
  BY DEF Check, rows
<1>4. CASE Proceed(p, Return(p, "refused"))
  BY <1>3, <1>4, RowUnmoved DEF Return, Idle
<1>5. ASSUME NEW step \in {"advance", "sweep", "count"}, Proceed(p, Goto(p, step))
      PROVE  Sound'
  <2>1. proc'[p] = Goto(p, step) /\ Goto(p, step).step = step
        /\ Goto(p, step).verb = o.verb /\ Goto(p, step).task = o.task
    BY <1>5, GotoTypes, Others DEF Typed, TypeOK, Steps
  <2>2. StillTrue(p)'
    BY <2>1 DEF StillTrue
  <2> QED
    BY <1>1, <1>3, <1>5, <2>1, <2>2, RowUnmoved
<1>6. ASSUME Proceed(p, Goto(p, "read")), Accepted(p),
             ~(o.verb = "complete" /\ o.forced /\ s \notin {"in_progress", "done"})
      PROVE  Sound'
  <2>1. proc'[p] = Goto(p, "read") /\ Goto(p, "read").step = "read"
        /\ Goto(p, "read").verb = o.verb /\ Goto(p, "read").task = o.task
    BY <1>6, GotoTypes, Others DEF Typed, TypeOK, Steps
  <2>2. o.verb = "complete" => s \in {"in_progress", "done"}
    <3>1. o.forced \in BOOLEAN
      BY InHand DEF Ops
    <3> QED
      BY <1>6, <3>1 DEF Accepted, Fails
  <2>3. o.verb \in {"skip", "irrelevant"} => s # "done"
    BY <1>6 DEF Accepted, Fails
  <2>4. o.verb = "decay" /\ parkedSince[o.task] # Unstamped =>
          counter >= parkedSince[o.task] + DecayThreshold
    <3>1. o.verb = "decay" => Aged(o.task)
      BY <1>6 DEF Accepted, Fails
    <3> QED
      BY <1>2, <3>1 DEF Aged, Sound, StampsAgree
  <2>5. StillTrue(p)'
    BY <1>3, <2>1, <2>2, <2>3, <2>4 DEF StillTrue
  <2> QED
    BY <1>1, <1>3, <1>6, <2>1, <2>5, RowUnmoved
<1>7. o.verb \in Applies \cup Sweeps \cup {"failure"}
  BY <1>2, ApplyVerbs, SweepVerbs DEF Checked, Fails, Procs
<1>8. \/ Proceed(p, Return(p, "refused"))
      \/ Proceed(p, Goto(p, "advance"))
      \/ Accepted(p) /\ Proceed(p, Goto(p, "read")) /\
           ~(o.verb = "complete" /\ o.forced /\ s \notin {"in_progress", "done"})
      \/ Proceed(p, Goto(p, "sweep"))
      \/ Proceed(p, Goto(p, "count"))
  BY <1>7 DEF Check
<1> QED
  BY <1>4, <1>5, <1>6, <1>8

LEMMA SoundReadRow ==
  ASSUME Typed, Sound, NEW p \in Procs, ReadRow(p)
  PROVE  Sound'
<1> DEFINE o == proc[p]
           s == status[o.task]
           n(step) == [Goto(p, step) EXCEPT !.prev = s]
<1>1. o \in Ops /\ Fits(p, o) /\ o.step = "read" /\ Tables /\ HasRow(p)
      /\ (o.disturbed \/ StillTrue(p))
  BY InHand DEF ReadRow, At, Sound
<1>2. o.task \in Tasks /\ o.verb \in Applies /\ s \in Statuses
  BY <1>1, ApplyVerbs DEF Fits, VerbsAt, HasRow, Tables
<1>3. UNCHANGED <<status, parkedSince, blockedAt, skippedAt, counter>>
  BY DEF ReadRow, rows
<1>4. ASSUME NEW step \in {"claim", "stamp", "write"}, Proceed(p, n(step)),
             step = "stamp" => o.verb \in Fails
      PROVE  Sound'
  <2>1. /\ n(step).step = step /\ n(step).verb = o.verb /\ n(step).task = o.task
        /\ n(step).prev = s /\ n(step).disturbed = o.disturbed
    BY <1>2, <1>4, GotoTypes DEF Ops, Steps
  <2> HIDE DEF n
  <2>2. proc'[p] = n(step)
    BY <1>4, Others DEF Typed, TypeOK
  <2>3. o.disturbed \/ StillTrue(p)'
    BY <1>1, <1>3, <2>1, <2>2 DEF StillTrue, Syncing
  <2> QED
    BY <1>1, <1>3, <1>4, <2>1, <2>3, RowUnmoved
<1>5. ASSUME NEW r \in {"success", "refused"}, Proceed(p, AfterRow(p, r)),
             s \notin ApplyFrom[o.verb], r = "success" => o.verb # "tag_done"
      PROVE  Sound'
  <2>1. CASE AfterRow(p, r) = Return(p, r)
    BY <1>3, <1>5, <2>1, RowUnmoved DEF Return, Idle
  <2>2. CASE AfterRow(p, r) # Return(p, r)
    <3>1. /\ SyncsPrd(p) /\ r = "success"
          /\ AfterRow(p, r) = [Goto(p, "load") EXCEPT !.result = "success"]
      BY <2>2 DEF AfterRow
    <3>2. o.verb = "complete"
      BY <1>5, <3>1 DEF SyncsPrd
    <3>3. AfterRow(p, r).step = "load" /\ AfterRow(p, r).verb = o.verb
          /\ AfterRow(p, r).task = o.task /\ AfterRow(p, r).disturbed = o.disturbed
      BY <3>1, GotoTypes DEF Ops, Steps
    <3>4. o.disturbed
      BY <1>1, <1>5, <3>2 DEF StillTrue, ApplyFrom
    <3> QED
      BY <1>1, <1>3, <1>5, <3>3, <3>4, RowUnmoved
  <2> QED
    BY <2>1, <2>2
<1>6. \/ Proceed(p, n("claim")) \/ Proceed(p, n("write"))
      \/ o.verb \in Fails /\ Proceed(p, n("stamp"))
      \/ \E r \in {"success", "refused"} :
           /\ Proceed(p, AfterRow(p, r)) /\ s \notin ApplyFrom[o.verb]
           /\ r = "success" => o.verb # "tag_done"
  BY DEF ReadRow, StepAfterRead
<1> QED
  BY <1>4, <1>5, <1>6

\* A row that takes another status by an action that also forgets how it was parked.
LEMMA UnparkedAgrees ==
  ASSUME Typed, Sound, NEW t \in Tasks, Unpark(t),
         \A u \in Tasks \ {t} :
           status'[u] = status[u] /\ blockedAt'[u] = blockedAt[u] /\ skippedAt'[u] = skippedAt[u]
  PROVE  StampsAgree'
<1>1. parkedSince'[t] = Unstamped /\ \A u \in Tasks \ {t} : parkedSince'[u] = parkedSince[u]
  BY DEF Unpark, Typed, TypeOK
<1> QED
  BY <1>1 DEF Sound, StampsAgree

LEMMA ClaimedRow ==
  ASSUME Typed, Sound, NEW t \in Tasks,
         UNCHANGED <<blockedAt, skippedAt, counter>>,
         \/ SetRow(t, "in_progress") /\ Unpark(t)
         \/ RowUntouched
  PROVE  /\ counter' \in Nat /\ counter' >= counter /\ StampsAgree'
         /\ \A u \in Tasks : status[u] # NoRow => status'[u] # NoRow
<1>1. counter' \in Nat /\ counter' >= counter
  BY DEF Typed, TypeOK
<1>2. CASE SetRow(t, "in_progress") /\ Unpark(t)
  BY <1>1, <1>2, UnparkedAgrees DEF SetRow, Typed, TypeOK, NoRow
<1>3. CASE RowUntouched
  BY <1>1, <1>3 DEF RowUntouched, Sound, StampsAgree
<1> QED
  BY <1>2, <1>3

LEMMA SoundAdvance ==
  ASSUME Typed, Sound, NEW p \in Procs, Advance(p)
  PROVE  Sound'
<1> DEFINE o == proc[p] s == status[o.task]
<1>1. Fits(p, o) /\ o.step = "advance" /\ o.task \in Tasks /\ Tables /\ HasRow(p)
  BY InHand DEF Advance, At, Sound
<1>2. o.verb = "complete" /\ s \in Statuses
  BY <1>1 DEF Fits, VerbsAt, HasRow, Tables
<1>3. /\ counter' \in Nat /\ counter' >= counter /\ StampsAgree'
      /\ \A u \in Tasks : status[u] # NoRow => status'[u] # NoRow
  BY <1>1, ClaimedRow DEF Advance, Sidecars
<1>4. /\ proc'[p].step = "read" /\ proc'[p].verb = o.verb /\ proc'[p].task = o.task
  BY GotoTypes, Others DEF Advance, Typed, TypeOK, Steps
<1>5. status'[o.task] \in {"in_progress", "done"}
  BY <1>1, <1>2 DEF Advance, SetRow, RowUntouched, Statuses, Tables
<1>6. HasRow(p)' /\ StillTrue(p)'
  BY <1>2, <1>4, <1>5 DEF HasRow, StillTrue, NoRow
<1> QED
  BY <1>3, <1>6, SoundNext DEF Advance

LEMMA SoundAutoClaim ==
  ASSUME Typed, Sound, NEW p \in Procs, AutoClaim(p)
  PROVE  Sound'
<1> DEFINE o == proc[p]
<1>1. Fits(p, o) /\ o.step = "claim" /\ o.task \in Tasks /\ Tables /\ HasRow(p)
  BY InHand DEF AutoClaim, At, Sound
<1>2. o.verb = "tag_done" /\ o.prev = "todo"
  BY <1>1 DEF Fits, VerbsAt
<1>3. /\ counter' \in Nat /\ counter' >= counter /\ StampsAgree'
      /\ \A u \in Tasks : status[u] # NoRow => status'[u] # NoRow
  BY <1>1, ClaimedRow DEF AutoClaim, Sidecars
<1>4. /\ proc'[p].step = "write" /\ proc'[p].verb = o.verb /\ proc'[p].task = o.task
      /\ proc'[p].prev = o.prev
  BY GotoTypes, Others DEF AutoClaim, Typed, TypeOK, Steps
<1>5. HasRow(p)' /\ StillTrue(p)'
  BY <1>1, <1>2, <1>3, <1>4 DEF HasRow, StillTrue
<1> QED
  BY <1>3, <1>5, SoundNext DEF AutoClaim

LEMMA SoundReadCounter ==
  ASSUME Typed, Sound, NEW p \in Procs, ReadCounter(p)
  PROVE  Sound'
<1> DEFINE o == proc[p]
           n == [Goto(p, "write") EXCEPT !.stamp = counter]
<1>1. Fits(p, o) /\ o.step = "stamp" /\ (o.disturbed \/ StillTrue(p))
  BY InHand DEF ReadCounter, At, Sound
<1>2. o.verb \in Fails
  BY <1>1 DEF Fits, VerbsAt
<1>3. UNCHANGED <<status, parkedSince, blockedAt, skippedAt, counter>>
  BY DEF ReadCounter, RowUntouched, Sidecars
<1>4. n.step = "write" /\ n.verb = o.verb /\ n.task = o.task /\ n.disturbed = o.disturbed
  BY GotoTypes DEF Ops, Steps
<1>5. Proceed(p, n)
  BY DEF ReadCounter
<1> HIDE DEF n
<1>6. proc'[p] = n
  BY <1>5, Others DEF Typed, TypeOK
<1>7. StillTrue(p)'
  BY <1>2, <1>4, <1>6 DEF StillTrue, Fails, Syncing
<1> QED
  BY <1>1, <1>3, <1>4, <1>5, <1>7, RowUnmoved

\* What the UPDATE leaves in the row and its stamps.
LEMMA WrittenRow ==
  ASSUME Typed, Sound, NEW p \in Procs, WriteRow(p)
  PROVE  LET o == proc[p] t == proc[p].task
             again == o.verb \in Syncing /\ o.prev = "done" IN
         /\ o.step = "write" /\ t \in Tasks /\ o.verb \in Applies /\ o.verb \in VerbsOf[p]
         /\ status'[t] = (IF again THEN status[t] ELSE ApplyTo[o.verb])
         /\ ~again => parkedSince'[t] = IF o.verb \in Fails THEN o.stamp ELSE Unstamped
         /\ again => parkedSince' = parkedSince
         /\ \A u \in Tasks \ {t} : status'[u] = status[u] /\ parkedSince'[u] = parkedSince[u]
         /\ StampsAgree'
<1> DEFINE o == proc[p]
           t == o.task
           again == o.verb \in Syncing /\ o.prev = "done"
<1>1. Fits(p, o) /\ o.step = "write" /\ t \in Tasks /\ Tables
  BY InHand DEF WriteRow, At
<1>2. o.verb \in Applies /\ o.verb \in VerbsOf[p]
  BY <1>1 DEF Fits, VerbsAt
<1>3. /\ IF again THEN RowUntouched
         ELSE /\ SetRow(t, ApplyTo[o.verb])
              /\ parkedSince' = [parkedSince EXCEPT ![t] =
                   IF o.verb \in Fails THEN o.stamp ELSE Unstamped]
  BY DEF WriteRow, Syncing
<1>4. /\ blockedAt'[t] = CASE o.verb = "fail_blocked" -> o.stamp
                           [] o.verb = "decay" -> Unstamped
                           [] OTHER -> blockedAt[t]
      /\ skippedAt'[t] = CASE o.verb = "fail_skipped" -> o.stamp
                           [] o.verb = "decay" -> Unstamped
                           [] OTHER -> skippedAt[t]
      /\ \A u \in Tasks \ {t} : blockedAt'[u] = blockedAt[u] /\ skippedAt'[u] = skippedAt[u]
  BY <1>1 DEF WriteRow, Tables
<1> HIDE DEF t, again
<1>5. /\ status'[t] = (IF again THEN status[t] ELSE ApplyTo[o.verb])
      /\ ~again => parkedSince'[t] = IF o.verb \in Fails THEN o.stamp ELSE Unstamped
      /\ again => parkedSince' = parkedSince
      /\ \A u \in Tasks \ {t} : status'[u] = status[u] /\ parkedSince'[u] = parkedSince[u]
  BY <1>1, <1>3 DEF RowUntouched, SetRow, Tables
<1>6. parkedSince'[t] # Unstamped =>
        /\ status'[t] = "blocked" => blockedAt'[t] = parkedSince'[t]
        /\ status'[t] = "skipped" => skippedAt'[t] = parkedSince'[t]
  <2>1. CASE again
    BY <1>1, <1>4, <1>5, <2>1 DEF again, Syncing, Sound, StampsAgree
  <2>2. CASE ~again
    BY <1>2, <1>4, <1>5, <2>2, ApplyVerbs DEF Fails, ApplyTo, ParkedAs
  <2> QED
    BY <2>1, <2>2
<1>7. StampsAgree'
  BY <1>4, <1>5, <1>6 DEF Sound, StampsAgree
<1> QED
  BY <1>1, <1>2, <1>5, <1>7 DEF t, again

LEMMA SoundWriteRow ==
  ASSUME Typed, Sound, NEW p \in Procs, WriteRow(p)
  PROVE  Sound'
<1> DEFINE o == proc[p]
           again == o.verb \in Syncing /\ o.prev = "done"
           c == [Goto(p, "clear") EXCEPT !.result = "success"]
<1>1. /\ o.step = "write" /\ o.task \in Tasks /\ o.verb \in Applies
      /\ HasRow(p) /\ (o.disturbed \/ StillTrue(p)) /\ Tables
  BY WrittenRow, InHand DEF Sound
<1>2. ApplyTo[o.verb] # NoRow /\ (o.verb \in Syncing => ApplyTo[o.verb] = "done")
  BY <1>1, ApplyVerbs DEF ApplyTo, ParkedAs, NoRow, Syncing
<1>3. \A u \in Tasks : status[u] # NoRow => status'[u] # NoRow
  BY <1>2, WrittenRow
<1>4. counter' \in Nat /\ counter' >= counter
  BY <1>1 DEF WriteRow, Tables
<1>5. Proceed(p, IF o.verb \in Syncing /\ ~again THEN c ELSE AfterRow(p, "success"))
  BY DEF WriteRow, Syncing
<1>6. c.step = "clear" /\ c.verb = o.verb /\ c.task = o.task
  BY GotoTypes DEF Ops, Steps
<1> HIDE DEF c
<1>7. CASE o.verb \in Syncing /\ ~again
  <2>1. Proceed(p, c) /\ proc'[p] = c
    BY <1>5, <1>7, Others DEF Typed, TypeOK
  <2>2. status'[o.task] = "done"
    BY <1>2, <1>7, WrittenRow
  <2>3. HasRow(p)' /\ StillTrue(p)'
    BY <1>6, <2>1, <2>2 DEF HasRow, StillTrue, NoRow
  <2> QED
    BY <1>3, <1>4, <2>1, <2>3, WrittenRow, SoundNext
<1>8. CASE ~(o.verb \in Syncing /\ ~again)
  <2>1. Proceed(p, AfterRow(p, "success")) /\ proc'[p] = AfterRow(p, "success")
    BY <1>5, <1>8, Others DEF Typed, TypeOK
  <2>2. CASE SyncsPrd(p)
    <3>1. /\ again
          /\ AfterRow(p, "success") = [Goto(p, "load") EXCEPT !.result = "success"]
      BY <1>8, <2>2 DEF AfterRow, SyncsPrd, Syncing
    <3>2. LET r == AfterRow(p, "success") IN
          r.step = "load" /\ r.verb = o.verb /\ r.task = o.task /\ r.disturbed = o.disturbed
      BY <3>1, GotoTypes DEF Ops, Steps
    <3>3. status'[o.task] = status[o.task]
      BY <3>1, WrittenRow
    <3>4. o.disturbed \/ status'[o.task] = "done"
      BY <1>1, <3>1, <3>3 DEF StillTrue
    <3>5. HasRow(p)' /\ (proc'[p].disturbed \/ StillTrue(p)')
      BY <1>1, <2>1, <3>2, <3>3, <3>4 DEF HasRow, StillTrue
    <3> QED
      BY <1>3, <1>4, <2>1, <3>5, WrittenRow, SoundNext
  <2>3. CASE ~SyncsPrd(p)
    <3>1. proc'[p].step = "idle"
      BY <2>1, <2>3 DEF AfterRow, Return, Idle
    <3> QED
      BY <1>3, <1>4, <2>1, <3>1, IdleSound, WrittenRow, SoundNext
  <2> QED
    BY <2>2, <2>3
<1> QED
  BY <1>7, <1>8

LEMMA SoundClearFailures ==
  ASSUME Typed, Sound, NEW p \in Procs, ClearFailures(p)
  PROVE  Sound'
<1> DEFINE o == proc[p]
<1>1. Fits(p, o) /\ o.step = "clear" /\ (o.disturbed \/ StillTrue(p))
  BY InHand DEF ClearFailures, At, Sound
<1>2. UNCHANGED <<status, parkedSince, blockedAt, skippedAt, counter>>
  BY DEF ClearFailures
<1>3. CASE SyncsPrd(p)
  <2>1. AfterRow(p, "success") = [Goto(p, "load") EXCEPT !.result = "success"]
    BY <1>3 DEF AfterRow
  <2>2. LET r == AfterRow(p, "success") IN
        r.step = "load" /\ r.verb = o.verb /\ r.task = o.task /\ r.disturbed = o.disturbed
    BY <2>1, GotoTypes DEF Ops, Steps
  <2>3. proc'[p] = AfterRow(p, "success")
    BY Others DEF ClearFailures, Typed, TypeOK
  <2>4. o.disturbed \/ StillTrue(p)'
    BY <1>1, <1>2, <2>2, <2>3 DEF StillTrue
  <2> QED
    BY <1>1, <1>2, <2>2, <2>4, RowUnmoved DEF ClearFailures
<1>4. CASE ~SyncsPrd(p)
  BY <1>2, <1>4, RowUnmoved DEF ClearFailures, AfterRow, Return, Idle
<1> QED
  BY <1>3, <1>4

LEMMA SoundSweep ==
  ASSUME Typed, Sound, NEW p \in Procs, Sweep(p)
  PROVE  Sound'
<1> DEFINE t == proc[p].task
           v == SweepVerb(proc[p].verb)
<1>1. t \in Tasks /\ v \in Sweeps /\ Tables
  BY SweptRow, InHand
<1>2. CASE status[t] \in SweepFrom[v]
  <2>1. /\ SetRow(t, SweepTo[v]) /\ Unpark(t)
        /\ Proceed(p, IF v = "next" THEN Goto(p, "number") ELSE Return(p, "success"))
        /\ \A u \in Tasks \ {t} : blockedAt'[u] = blockedAt[u] /\ skippedAt'[u] = skippedAt[u]
        /\ counter' \in Nat /\ counter' >= counter
    BY <1>1, <1>2, SweptRow DEF Sweep, Tables
  <2>2. SweepTo[v] # NoRow
    BY <1>1, SweepTargets DEF Statuses, NoRow
  <2>3. /\ \A u \in Tasks : status[u] # NoRow => status'[u] # NoRow
        /\ \A u \in Tasks \ {t} : status'[u] = status[u]
    BY <1>1, <2>1, <2>2 DEF SetRow, Tables
  <2>4. StampsAgree'
    BY <1>1, <2>1, <2>3, UnparkedAgrees
  <2>5. CASE v # "next"
    <3>1. proc'[p].step = "idle"
      BY <2>1, <2>5, Others DEF Typed, TypeOK, Return, Idle
    <3> QED
      BY <2>1, <2>3, <2>4, <3>1, IdleSound, SoundNext
  <2>6. CASE v = "next"
    <3>1. proc'[p].step = "number" /\ proc'[p].task = t
      BY <2>1, <2>6, GotoTypes, Others DEF Typed, TypeOK, Steps
    <3>2. status'[t] = "in_progress"
      BY <1>1, <2>1, <2>6 DEF SetRow, SweepTo, Tables
    <3>3. HasRow(p)' /\ StillTrue(p)'
      BY <3>1, <3>2 DEF HasRow, StillTrue, NoRow
    <3> QED
      BY <2>1, <2>3, <2>4, <3>3, SoundNext
  <2> QED
    BY <2>5, <2>6
<1>3. CASE status[t] \notin SweepFrom[v]
  <2>1. /\ UNCHANGED <<status, parkedSince, blockedAt, skippedAt, counter>>
        /\ Proceed(p, Return(p, "refused"))
    BY <1>3, SweptRow DEF Sweep, RowUntouched
  <2> QED
    BY <2>1, RowUnmoved DEF Return, Idle
<1> QED
  BY <1>2, <1>3

LEMMA SoundNumberClaim ==
  ASSUME Typed, Sound, NEW p \in Procs, NumberClaim(p)
  PROVE  Sound'
<1>1. /\ UNCHANGED <<status, parkedSince, blockedAt, skippedAt>> /\ counter' = counter + 1
      /\ Proceed(p, Return(p, "success"))
  BY DEF NumberClaim, RowUntouched
<1>2. counter' \in Nat /\ counter' >= counter /\ StampsAgree'
  BY <1>1 DEF Typed, TypeOK, Sound, StampsAgree
<1>3. proc'[p].step = "idle"
  BY <1>1, Others DEF Typed, TypeOK, Return, Idle
<1> QED
  BY <1>1, <1>2, <1>3, IdleSound, SoundNext

LEMMA SoundCountFailure ==
  ASSUME Typed, Sound, NEW p \in Procs, CountFailure(p)
  PROVE  Sound'
<1>1. UNCHANGED <<status, parkedSince, blockedAt, skippedAt, counter>>
      /\ proc[p].step = "count"
  BY DEF CountFailure, RowUntouched, At
<1>2. CASE Proceed(p, Return(p, "success"))
  BY <1>1, <1>2, RowUnmoved DEF Return, Idle
<1>3. CASE Proceed(p, Goto(p, "sweep"))
  <2>1. /\ Goto(p, "sweep").step = "sweep" /\ Goto(p, "sweep").verb = proc[p].verb
        /\ Goto(p, "sweep").task = proc[p].task /\ proc'[p] = Goto(p, "sweep")
    BY <1>3, GotoTypes, Others DEF Typed, TypeOK, Steps
  <2>2. StillTrue(p)'
    BY <2>1 DEF StillTrue
  <2> QED
    BY <1>1, <1>3, <2>1, <2>2, RowUnmoved
<1> QED
  BY <1>2, <1>3 DEF CountFailure

LEMMA SoundInsertRow ==
  ASSUME Typed, Sound, NEW p \in Procs, InsertRow(p)
  PROVE  Sound'
<1> DEFINE t == proc[p].task
<1>1. Fits(p, proc[p]) /\ proc[p].step = "insert" /\ t \in Tasks /\ Tables
  BY InHand DEF InsertRow, At
<1>2. proc[p].verb = "add"
  BY <1>1 DEF Fits, VerbsAt
<1>3. UNCHANGED <<parkedSince, blockedAt, skippedAt, counter>>
  BY DEF InsertRow, Sidecars
<1>4. CASE status[t] = NoRow
  <2>1. SetRow(t, "todo") /\ Proceed(p, Goto(p, "load"))
    BY <1>4 DEF InsertRow
  <2>2. /\ \A u \in Tasks : status[u] # NoRow => status'[u] # NoRow
        /\ StampsAgree'
    BY <1>1, <1>3, <1>4, <2>1 DEF SetRow, Tables, Sound, StampsAgree, NoRow
  <2>3. proc'[p].step = "load" /\ proc'[p].verb = "add"
    BY <1>2, <2>1, GotoTypes, Others DEF Typed, TypeOK, Steps
  <2>4. HasRow(p)' /\ StillTrue(p)'
    BY <2>3 DEF HasRow, StillTrue, Syncing
  <2> QED
    BY <1>1, <1>3, <2>1, <2>2, <2>4, SoundNext DEF Tables
<1>5. CASE status[t] # NoRow
  <2>1. UNCHANGED status /\ Proceed(p, Return(p, "refused"))
    BY <1>5 DEF InsertRow
  <2> QED
    BY <1>3, <2>1, RowUnmoved DEF Return, Idle
<1> QED
  BY <1>4, <1>5

LEMMA SoundLoadPrd ==
  ASSUME Typed, Sound, NEW p \in Procs, LoadPrd(p)
  PROVE  Sound'
<1> DEFINE o == proc[p]
           loaded == [stories |-> stories, passes |-> passes]
           n(step) == [Goto(p, step) EXCEPT !.seen = loaded]
<1>1. /\ o \in Ops /\ Fits(p, o) /\ o.step = "load" /\ o.task \in Tasks
      /\ (o.disturbed \/ StillTrue(p))
  BY InHand DEF LoadPrd, At, Sound
<1>2. UNCHANGED <<status, parkedSince, blockedAt, skippedAt, counter>>
  BY DEF LoadPrd, RowUntouched, Sidecars
<1>3. \/ Proceed(p, Return(p, "success"))
      \/ o.verb = "import" /\ Proceed(p, n("commit"))
      \/ o.verb # "import" /\ Proceed(p, n("store"))
  BY DEF LoadPrd
<1>4. CASE Proceed(p, Return(p, "success"))
  BY <1>2, <1>4, RowUnmoved DEF Return, Idle
<1>5. ASSUME NEW step \in {"commit", "store"}, Proceed(p, n(step))
      PROVE  Sound'
  <2>1. /\ n(step).step = step /\ n(step).verb = o.verb
        /\ n(step).task = o.task /\ n(step).disturbed = o.disturbed
    BY <1>5, GotoTypes DEF Ops, Steps
  <2> HIDE DEF n
  <2>2. proc'[p] = n(step)
    BY <1>5, Others DEF Typed, TypeOK
  <2>3. o.disturbed \/ StillTrue(p)'
    BY <1>1, <1>2, <2>1, <2>2 DEF StillTrue
  <2> QED
    BY <1>1, <1>2, <1>5, <2>1, <2>3, RowUnmoved
<1> QED
  BY <1>3, <1>4, <1>5

LEMMA SoundStorePrd ==
  ASSUME Typed, Sound, NEW p \in Procs, StorePrd(p)
  PROVE  Sound'
<1>1. UNCHANGED <<status, parkedSince, blockedAt, skippedAt, counter>>
      /\ proc[p].step = "store"
  BY DEF StorePrd, RowUntouched, Sidecars, At
<1>2. CASE Proceed(p, Return(p, "success"))
  BY <1>1, <1>2, RowUnmoved DEF Return, Idle
<1>3. ASSUME NEW step \in {"sweep", "commit"}, Proceed(p, Goto(p, step))
      PROVE  Sound'
  <2>1. /\ Goto(p, step).step = step /\ Goto(p, step).verb = proc[p].verb
        /\ Goto(p, step).task = proc[p].task /\ proc'[p] = Goto(p, step)
    <3>1. step \in Steps
      BY DEF Steps
    <3>2. proc'[p] = Goto(p, step)
      BY <1>3, Others DEF Typed, TypeOK
    <3> QED
      BY <3>1, <3>2, GotoTypes
  <2>2. StillTrue(p)'
    BY <2>1 DEF StillTrue
  <2> QED
    BY <1>1, <1>3, <2>1, <2>2, RowUnmoved
<1> QED
  BY <1>2, <1>3 DEF StorePrd

LEMMA SoundCommit ==
  ASSUME Typed, Sound, NEW p \in Procs, Commit(p)
  PROVE  Sound'
<1>1. Tables
  BY InHand
<1>2. UNCHANGED <<blockedAt, skippedAt, counter>> /\ Proceed(p, Return(p, "success"))
  BY DEF Commit, Sidecars
<1>3. \A t \in Tasks : parkedSince'[t] =
        IF status'[t] # status[t] THEN Unstamped ELSE parkedSince[t]
  BY DEF Commit
<1>4. StampsAgree'
  BY <1>2, <1>3 DEF Sound, StampsAgree
<1>5. \A t \in Tasks : status[t] # NoRow => status'[t] # NoRow
  BY CommittedRows DEF NoRow
<1>6. proc'[p].step = "idle"
  BY <1>2, Others DEF Typed, TypeOK, Return, Idle
<1> QED
  BY <1>1, <1>2, <1>4, <1>5, <1>6, IdleSound, SoundNext DEF Tables

LEMMA SoundCrash ==
  ASSUME Typed, Sound, NEW p \in Procs, Crash(p)
  PROVE  Sound'
<1>1. UNCHANGED <<status, parkedSince, blockedAt, skippedAt, counter>>
  BY DEF Crash, rows
<1>2. proc'[p].step = "idle" /\ \A q \in Procs \ {p} : proc'[q] = proc[q]
  BY DEF Crash, Idle, Typed, TypeOK
<1>3. \A q \in Procs \ {p} : HasRow(q)' /\ (proc'[q].disturbed \/ StillTrue(q)')
  BY <1>1, <1>2 DEF Sound, HasRow, StillTrue
<1> QED
  BY <1>1, <1>2, <1>3, IdleSound DEF Sound, StampsAgree

LEMMA SoundInvariant == Spec => [](Typed /\ Sound)
<1>1. Init => Sound
  BY DEF Init, Sound, HasRow, StillTrue, StampsAgree, Idle
<1>2. Typed /\ Sound /\ [Next]_vars => Sound'
  <2>1. ASSUME Typed, Sound, UNCHANGED vars PROVE Sound'
    BY <2>1 DEF vars, rows, Sound, HasRow, StillTrue, StampsAgree
  <2> QED
    BY <2>1, SoundStart, SoundCheck, SoundAdvance, SoundReadRow, SoundAutoClaim,
       SoundReadCounter, SoundWriteRow, SoundClearFailures, SoundSweep, SoundNumberClaim,
       SoundCountFailure, SoundInsertRow, SoundLoadPrd, SoundStorePrd, SoundCommit,
       SoundCrash DEF Next
<1> QED
  BY <1>1, <1>2, TypedInvariant, PTL DEF Spec

-----------------------------------------------------------------------------
(* The action properties.                                                  *)

\* The PRD is flagged only for a row that is done, unless the operator moved the row
\* between the loop's UPDATE and the rename of the file: for any tasks and limits,
\* and whatever is killed on the way.
THEOREM FlagsFollowRows == Spec => PassesFollowRow
<1>1. Sound => [\A p \in Procs :
        At(p, "store") /\ SyncsPrd(p) /\ proc[p].task \in passes' \ passes
          => status[proc[p].task] = "done" \/ proc[p].disturbed]_vars
  BY DEF Sound, StillTrue, At, SyncsPrd, Syncing
<1> QED
  BY <1>1, SoundInvariant, PTL DEF PassesFollowRow

\* A row that `fail` parked waits its full threshold of iterations from the counter
\* that this `fail` read, for every threshold: the stamp decay judges is that one and
\* no older one, because it stays in the row as long as the row stays parked
\* (StampsAgree).  Claims numbered between the read and the UPDATE count as waiting.
THEOREM ParksWait == Spec => DecayWaits
<1>1. Sound => [\A p \in Procs :
        LET t == proc[p].task
        IN  /\ At(p, "write") /\ proc[p].verb = "decay" /\ Changes(t)
            /\ parkedSince[t] # Unstamped /\ ~proc[p].disturbed
            => counter >= parkedSince[t] + DecayThreshold]_vars
  BY DEF Sound, StillTrue, At
<1> QED
  BY <1>1, SoundInvariant, PTL DEF DecayWaits

\* Only a step of p itself makes p report a success.
LEMMA OnlyOwnReports ==
  ASSUME Typed, NEW p \in Procs, NEW q \in Procs \ {p},
         (\E next : Proceed(q, next)) \/ Start(q) \/ Crash(q)
  PROVE  ~Succeeds(p)
<1>1. CASE \E next : Proceed(q, next)
  BY <1>1, Others DEF Typed, TypeOK, Succeeds
<1>2. CASE Start(q) \/ Crash(q)
  BY <1>2 DEF Start, Crash, Typed, TypeOK, Succeeds
<1> QED
  BY <1>1, <1>2

LEMMA RowVerbsOnly ==
  /\ RowVerbs = {"next", "claim", "recover", "reopen", "prd_done", "prd_irrelevant",
                 "doctor_todo", "doctor_done"} \cup Applies
  /\ \A v \in Applies : v \notin Sweeps /\ Goal(v) = ApplyTo[v]
  /\ \A v \in Syncing : Goal(v) = "done"
BY SweepVerbs, ApplyVerbs DEF RowVerbs, Goal, Syncing, ApplyTo

LEMMA EveryStep ==
  ASSUME NEW p \in Procs,
         \/ Check(p) \/ Advance(p) \/ ReadRow(p) \/ AutoClaim(p) \/ ReadCounter(p)
         \/ WriteRow(p) \/ ClearFailures(p) \/ Sweep(p) \/ NumberClaim(p)
         \/ CountFailure(p) \/ InsertRow(p) \/ LoadPrd(p) \/ StorePrd(p) \/ Commit(p)
  PROVE  \E next : Proceed(p, next)
<1>1. CASE Check(p)
  BY <1>1 DEF Check
<1>2. CASE Advance(p) \/ ReadRow(p) \/ AutoClaim(p) \/ ClearFailures(p) \/ CountFailure(p)
  BY <1>2 DEF Advance, ReadRow, AutoClaim, ClearFailures, CountFailure
<1>3. CASE WriteRow(p) \/ ReadCounter(p) \/ NumberClaim(p)
  BY <1>3 DEF WriteRow, ReadCounter, NumberClaim
<1>4. CASE Sweep(p) \/ InsertRow(p) \/ LoadPrd(p)
  BY <1>4 DEF Sweep, InsertRow, LoadPrd
<1>5. CASE StorePrd(p) \/ Commit(p)
  BY <1>5 DEF StorePrd, Commit
<1> QED
  BY <1>1, <1>2, <1>3, <1>4, <1>5

\* A report of p says what p's row is: step by step.
TruthOf(p) ==
  Succeeds(p) /\ proc[p].verb \in RowVerbs /\ ~proc[p].disturbed
    => status'[proc[p].task] = Goal(proc[p].verb)

\* A step that keeps or refuses the result reports nothing.
LEMMA NotReported ==
  ASSUME Typed, NEW p \in Procs, NEW next, Proceed(p, next), next.result # "success"
  PROVE  TruthOf(p)
BY Others DEF TruthOf, Succeeds, Typed, TypeOK

LEMMA StillReported ==
  ASSUME Typed, NEW p \in Procs, NEW step \in Steps, Proceed(p, Goto(p, step))
  PROVE  TruthOf(p)
BY Others, GotoTypes DEF TruthOf, Succeeds, Typed, TypeOK

LEMMA TruthOfRead ==
  ASSUME Typed, Sound, NEW p \in Procs, ReadRow(p)
  PROVE  TruthOf(p)
<1> DEFINE o == proc[p]
           s == status[o.task]
           n(step) == [Goto(p, step) EXCEPT !.prev = s]
<1>1. o \in Ops /\ Fits(p, o) /\ o.step = "read" /\ o.task \in Tasks /\ HasRow(p)
      /\ (o.disturbed \/ StillTrue(p)) /\ Tables
  BY InHand DEF ReadRow, At, Sound
<1>2. s \in Statuses
  BY <1>1 DEF HasRow, Tables, Fits, VerbsAt, Applies, ApplyFrom
<1>3. ASSUME NEW step \in {"claim", "stamp", "write"}, Proceed(p, n(step)) PROVE TruthOf(p)
  <2>1. n(step).result = o.result
    BY <1>2, <1>3, GotoTypes DEF Ops, Steps
  <2>2. proc'[p] = n(step)
    BY <1>3, Others DEF Typed, TypeOK
  <2> QED
    BY <2>1, <2>2 DEF TruthOf, Succeeds
<1>4. CASE Proceed(p, AfterRow(p, "refused"))
  <2>1. AfterRow(p, "refused").result = "refused"
    BY DEF AfterRow, Return, Idle
  <2> QED
    BY <1>4, <2>1, NotReported
<1>5. ASSUME s \notin ApplyFrom[o.verb],
             \/ o.verb = "complete"
             \/ p = "cli" /\ o.verb \in {"skip", "irrelevant"}
      PROVE  TruthOf(p)
  <2>1. o.disturbed
    BY <1>1, <1>2, <1>5 DEF StillTrue, ApplyFrom
  <2> QED
    BY <2>1 DEF TruthOf
<1>6. \/ Proceed(p, n("claim")) \/ Proceed(p, n("stamp")) \/ Proceed(p, n("write"))
      \/ Proceed(p, AfterRow(p, "refused"))
      \/ /\ s \notin ApplyFrom[o.verb]
         /\ o.verb = "complete" \/ (p = "cli" /\ o.verb \in {"skip", "irrelevant"})
  BY DEF ReadRow, StepAfterRead
<1> QED
  BY <1>3, <1>4, <1>5, <1>6

LEMMA TruthOfWrite ==
  ASSUME Typed, Sound, NEW p \in Procs, WriteRow(p)
  PROVE  TruthOf(p)
<1> DEFINE o == proc[p]
<1>1. /\ o.step = "write" /\ o.verb \in Applies
      /\ o.disturbed \/ StillTrue(p)
      /\ status'[o.task] = ApplyTo[o.verb]
           \/ (o.verb \in Syncing /\ o.prev = "done" /\ status'[o.task] = status[o.task])
  BY WrittenRow DEF Sound
<1> QED
  BY <1>1, RowVerbsOnly DEF TruthOf, StillTrue

LEMMA TruthOfSweep ==
  ASSUME Typed, NEW p \in Procs, Sweep(p)
  PROVE  TruthOf(p)
<1> DEFINE o == proc[p]
<1>1. Fits(p, o) /\ o.step = "sweep" /\ o.task \in Tasks /\ Tables
  BY InHand DEF Sweep, At
<1>2. CASE status[o.task] \in SweepFrom[SweepVerb(o.verb)]
  <2>1. status'[o.task] = SweepTo[SweepVerb(o.verb)]
    BY <1>1, <1>2, SweptRow DEF SetRow, Tables
  <2>2. o.verb \in RowVerbs => o.verb \in Sweeps /\ SweepVerb(o.verb) = o.verb
    BY <1>1, RowVerbsOnly, SweepVerbs, ApplyVerbs DEF Fits, VerbsAt, SweepVerb
  <2> QED
    BY <2>1, <2>2 DEF TruthOf, Goal
<1>3. CASE status[o.task] \notin SweepFrom[SweepVerb(o.verb)]
  BY <1>3, SweptRow, NotReported DEF Return, Idle
<1> QED
  BY <1>2, <1>3

LEMMA TruthOfCounter ==
  ASSUME Typed, Sound, NEW p \in Procs, ReadCounter(p) \/ NumberClaim(p)
  PROVE  TruthOf(p)
<1>1. CASE ReadCounter(p)
  <2>1. [Goto(p, "write") EXCEPT !.stamp = counter].result = proc[p].result
    BY GotoTypes DEF Ops, Steps
  <2>2. proc'[p].result = proc[p].result
    BY <1>1, <2>1, Others DEF ReadCounter, Typed, TypeOK
  <2> QED
    BY <2>2 DEF TruthOf, Succeeds
<1>2. CASE NumberClaim(p)
  <2>1. Fits(p, proc[p]) /\ proc[p].step = "number" /\ (proc[p].disturbed \/ StillTrue(p))
    BY <1>2, InHand DEF NumberClaim, At, Sound
  <2>2. proc[p].verb = "next" /\ status' = status
    BY <1>2, <2>1 DEF Fits, VerbsAt, NumberClaim, RowUntouched
  <2>3. Goal("next") = "in_progress"
    BY SweepVerbs DEF Goal, SweepTo
  <2> QED
    BY <2>1, <2>2, <2>3 DEF TruthOf, StillTrue
<1> QED
  BY <1>1, <1>2

LEMMA TruthOfFile ==
  ASSUME Typed, NEW p \in Procs,
         ClearFailures(p) \/ CountFailure(p) \/ InsertRow(p) \/ LoadPrd(p) \/ StorePrd(p)
         \/ Commit(p)
  PROVE  TruthOf(p)
<1>1. /\ Fits(p, proc[p])
      /\ proc[p].step \in {"clear", "count", "insert", "load", "store", "commit"}
  BY InHand DEF At, ClearFailures, CountFailure, InsertRow, LoadPrd, StorePrd, Commit
<1>2. proc[p].verb \in RowVerbs => proc[p].verb \in Syncing
  BY <1>1, RowVerbsOnly, ApplyVerbs DEF Fits, VerbsAt, FileVerbs
<1>3. proc[p].verb \in RowVerbs => proc[p].result = "success"
  BY <1>1, <1>2 DEF Fits, VerbsAt, FileVerbs, Syncing
<1> QED
  BY <1>3 DEF TruthOf, Succeeds

\* A report of success is true of the row, for any tasks, limits and number of verbs:
\* whichever statements of the other process, or which crash, come between the
\* verb's own, the row has the status reported unless that process moved it since.
THEOREM ReportsHold == Spec => ReportsAreTrue
<1>1. ASSUME Typed, Sound, NEW p \in Procs, NEW q \in Procs,
             \/ Start(q) \/ Check(q) \/ Advance(q) \/ ReadRow(q) \/ AutoClaim(q)
             \/ ReadCounter(q) \/ WriteRow(q) \/ ClearFailures(q) \/ Sweep(q)
             \/ NumberClaim(q) \/ CountFailure(q) \/ InsertRow(q) \/ LoadPrd(q)
             \/ StorePrd(q) \/ Commit(q) \/ Crash(q)
      PROVE  TruthOf(p)
  <2>1. CASE q # p
    BY <1>1, <2>1, EveryStep, OnlyOwnReports DEF TruthOf
  <2>2. CASE q = p /\ (Start(p) \/ Crash(p))
    <3>1. proc'[p].result = "none"
      <4>1. CASE Start(p)
        BY <1>1, <4>1 DEF Start, Idle, Typed, TypeOK
      <4>2. CASE Crash(p)
        BY <1>1, <4>2 DEF Crash, Idle, Typed, TypeOK
      <4> QED
        BY <2>2, <4>1, <4>2
    <3> QED
      BY <3>1 DEF TruthOf, Succeeds
  <2>3. CASE q = p /\ Check(p)
    <3>5. Fits(p, proc[p]) /\ proc[p].step = "check"
      BY <1>1, <2>3, InHand DEF Check, At
    <3>1. proc[p].verb \in Checked[p]
      BY <3>5 DEF Fits, VerbsAt
    <3>2. proc[p].verb \in Applies \cup Sweeps \cup {"failure"}
      BY <1>1, <3>1, ApplyVerbs, SweepVerbs DEF Checked, Fails, Procs
    <3>3. Proceed(p, Return(p, "refused"))
          \/ \E step \in {"advance", "read", "sweep", "count"} : Proceed(p, Goto(p, step))
      BY <2>3, <3>2 DEF Check
    <3>4. {"advance", "read", "sweep", "count"} \subseteq Steps
      BY DEF Steps
    <3> QED
      BY <1>1, <3>3, <3>4, NotReported, StillReported DEF Return, Idle
  <2>4. CASE q = p /\ (Advance(p) \/ AutoClaim(p))
    BY <1>1, <2>4, StillReported DEF Advance, AutoClaim, Steps
  <2> QED
    BY <1>1, <2>1, <2>2, <2>3, <2>4, TruthOfRead, TruthOfWrite, TruthOfSweep,
       TruthOfCounter, TruthOfFile
<1>2. Typed /\ Sound /\ [Next]_vars =>
        [\A p \in Procs :
           Succeeds(p) /\ proc[p].verb \in RowVerbs /\ ~proc[p].disturbed
             => status'[proc[p].task] = Goal(proc[p].verb)]_vars
  BY <1>1 DEF Next, TruthOf
<1> QED
  BY <1>2, SoundInvariant, PTL DEF Spec, ReportsAreTrue

\* A closed row that a step of p moves was meant to move, or was not closed when p
\* read it; and the step is one p itself can be seen to take.
MovedAsMeant(p, t) ==
  Changes(t) /\ status[t] \in Terminal =>
    /\ proc'[p].step # proc[p].step
    /\ \/ proc[p].verb \in Requests(p)[status[t]]
       \/ At(p, "write") /\ proc[p].task = t /\ proc[p].prev # status[t]

LEMMA ClosedStatuses == Terminal = {"done", "blocked", "skipped", "irrelevant"}
BY DEF Terminal, Statuses, Open

LEMMA MovedByClaim ==
  ASSUME Typed, NEW p \in Procs, NEW t \in Tasks, Advance(p) \/ AutoClaim(p)
  PROVE  MovedAsMeant(p, t)
<1>1. Fits(p, proc[p]) /\ proc[p].task \in Tasks /\ Tables
  BY InHand DEF Advance, AutoClaim, At
<1>2. CASE AutoClaim(p)
  BY <1>1, <1>2, ClosedStatuses DEF AutoClaim, SetRow, RowUntouched, Tables, MovedAsMeant, Changes
<1>3. CASE Advance(p)
  <2>1. proc[p].step = "advance" /\ proc[p].verb = "complete" /\ proc[p].forced
    BY <1>1, <1>3 DEF Advance, At, Fits, VerbsAt
  <2>2. proc'[p].step = "read"
    BY <1>3, Others, GotoTypes DEF Advance, Typed, TypeOK, Steps
  <2>3. Changes(t) => t = proc[p].task /\ status[t] \in {"todo", "blocked", "skipped", "irrelevant"}
    BY <1>1, <1>3 DEF Advance, SetRow, RowUntouched, Tables, Changes
  <2>4. Changes(t) /\ status[t] \in Terminal => proc[p].verb \in Requests(p)[status[t]]
    BY <2>1, <2>3, ClosedStatuses DEF Requests
  <2> QED
    BY <2>1, <2>2, <2>4 DEF MovedAsMeant
<1> QED
  BY <1>2, <1>3

LEMMA MovedByUpdate ==
  ASSUME Typed, Sound, NEW p \in Procs, NEW t \in Tasks, WriteRow(p)
  PROVE  MovedAsMeant(p, t)
<1> DEFINE o == proc[p]
<1>1. /\ o.step = "write" /\ o.verb \in Applies /\ o.verb \in VerbsOf[p] /\ o.task \in Tasks
      /\ Changes(t) => t = o.task /\ status'[t] = ApplyTo[o.verb]
  BY WrittenRow DEF Changes
<1>2. o.prev \in ApplyFrom[o.verb]
  BY InHand, <1>1 DEF Fits
<1>3. proc'[p].step \in {"clear", "load", "idle"}
  <2>1. Goto(p, "clear").step = "clear" /\ Goto(p, "load").step = "load"
    BY GotoTypes DEF Steps
  <2>2. proc'[p] \in {[Goto(p, "clear") EXCEPT !.result = "success"],
                      [Goto(p, "load") EXCEPT !.result = "success"], Return(p, "success")}
    BY Others DEF WriteRow, AfterRow, Typed, TypeOK
  <2> QED
    BY <2>1, <2>2 DEF Goto, Return, Idle, Typed, TypeOK, Ops
<1>4. ASSUME Changes(t), status[t] \in Terminal, o.prev = status[t]
      PROVE  o.verb \in Requests(p)[status[t]]
  <2>1. status[t] \in ApplyFrom[o.verb] /\ ApplyTo[o.verb] # status[t]
    BY <1>1, <1>2, <1>4 DEF Changes
  <2> QED
    BY <1>1, <1>4, <2>1, ApplyVerbs, ClosedStatuses
       DEF ApplyFrom, ApplyTo, ParkedAs, Requests, Fails
<1> QED
  BY <1>1, <1>3, <1>4 DEF MovedAsMeant, At

LEMMA MovedBySweep ==
  ASSUME Typed, NEW p \in Procs, NEW t \in Tasks, Sweep(p)
  PROVE  MovedAsMeant(p, t)
<1> DEFINE o == proc[p]
           v == SweepVerb(o.verb)
<1>1. Fits(p, o) /\ o.step = "sweep" /\ o.task \in Tasks /\ v \in Sweeps /\ Tables
  BY InHand, SweptRow DEF Sweep, At
<1>2. Changes(t) => t = o.task /\ status[t] \in SweepFrom[v] /\ SweepTo[v] # status[t]
  BY <1>1, SweptRow DEF SetRow, RowUntouched, Tables, Changes
<1>3. proc'[p].step \in {"idle", "number"}
  <2>1. Goto(p, "number").step = "number"
    BY GotoTypes DEF Steps
  <2>2. Return(p, "success").step = "idle" /\ Return(p, "refused").step = "idle"
    BY DEF Return, Idle
  <2>3. proc'[p] \in {Goto(p, "number"), Return(p, "success"), Return(p, "refused")}
    BY SweptRow, Others DEF Typed, TypeOK
  <2> QED
    BY <2>1, <2>2, <2>3
<1>4. ASSUME status[t] \in Terminal, status[t] \in SweepFrom[v], SweepTo[v] # status[t]
      PROVE  o.verb \in Requests(p)[status[t]]
  <2>1. o.verb \in {"reopen", "prd_irrelevant", "mutate_irrelevant", "doctor_todo"}
    BY <1>1, <1>4, SweepVerbs, ClosedStatuses
       DEF SweepFrom, Claimed, SweepVerb, Fits, VerbsAt
  <2> QED
    BY <1>4, <2>1, ClosedStatuses DEF SweepFrom, SweepVerb, Requests
<1> QED
  BY <1>1, <1>2, <1>3, <1>4 DEF MovedAsMeant

LEMMA MovedByFile ==
  ASSUME Typed, NEW p \in Procs, NEW t \in Tasks, InsertRow(p) \/ Commit(p)
  PROVE  MovedAsMeant(p, t)
<1>1. CASE InsertRow(p)
  <2>1. Tables /\ proc[p].task \in Tasks
    BY <1>1, InHand DEF InsertRow, At
  <2>2. Changes(t) => status[t] = NoRow
    BY <1>1, <2>1 DEF InsertRow, SetRow, Tables, Changes
  <2> QED
    BY <2>2, ClosedStatuses DEF MovedAsMeant, NoRow
<1>2. CASE Commit(p)
  <2>1. Changes(t) /\ status[t] \in Terminal =>
          proc[p].verb = "import" /\ status[t] # "done"
    BY <1>2, CommittedRows, ClosedStatuses DEF Changes, NoRow
  <2>2. proc[p].step = "commit" /\ proc'[p].step = "idle"
    BY <1>2, Others DEF Commit, At, Return, Idle, Typed, TypeOK
  <2> QED
    BY <2>1, <2>2, ClosedStatuses DEF MovedAsMeant, Requests
<1> QED
  BY <1>1, <1>2

\* A closed row leaves its status only by a verb meant for that, for any tasks,
\* limits, verbs and crashes; the one exception is the UPDATE whose SELECT saw the
\* row before the other process closed it.
THEOREM ClosedRowsStay == Spec => ClosedRowsKept
<1>1. ASSUME Typed, Sound, NEW p \in Procs, NEW t \in Tasks,
             \/ Start(p) \/ Check(p) \/ Advance(p) \/ ReadRow(p) \/ AutoClaim(p)
             \/ ReadCounter(p) \/ WriteRow(p) \/ ClearFailures(p) \/ Sweep(p)
             \/ NumberClaim(p) \/ CountFailure(p) \/ InsertRow(p) \/ LoadPrd(p)
             \/ StorePrd(p) \/ Commit(p) \/ Crash(p)
      PROVE  MovedAsMeant(p, t)
  <2>1. CASE Start(p) \/ Check(p) \/ ReadRow(p) \/ Crash(p)
    BY <2>1 DEF Start, Check, ReadRow, Crash, rows, MovedAsMeant, Changes
  <2>2. CASE ClearFailures(p) \/ CountFailure(p) \/ LoadPrd(p) \/ StorePrd(p)
    BY <2>2 DEF ClearFailures, CountFailure, LoadPrd, StorePrd, RowUntouched, MovedAsMeant, Changes
  <2>3. CASE ReadCounter(p) \/ NumberClaim(p)
    BY <2>3 DEF ReadCounter, NumberClaim, RowUntouched, MovedAsMeant, Changes
  <2> QED
    BY <1>1, <2>1, <2>2, <2>3, MovedByClaim, MovedByUpdate, MovedBySweep, MovedByFile
<1>2. ASSUME Typed, Sound, Next, NEW p \in Procs, NEW t \in Tasks,
             Changes(t), status[t] \in Terminal,
             \A q \in Procs \ {p} : proc'[q].step = proc[q].step
      PROVE  \/ proc[p].verb \in Requests(p)[status[t]]
             \/ At(p, "write") /\ proc[p].task = t /\ proc[p].prev # status[t]
  <2>1. PICK q \in Procs : MovedAsMeant(q, t)
    BY <1>1, <1>2 DEF Next
  <2>2. q = p
    BY <1>2, <2>1 DEF MovedAsMeant
  <2> QED
    BY <1>2, <2>1, <2>2 DEF MovedAsMeant
<1>3. Typed /\ Sound /\ [Next]_vars =>
        [\A p \in Procs, t \in Tasks :
           /\ proc'[p] # proc[p] /\ Changes(t) /\ status[t] \in Terminal
           /\ \A q \in Procs \ {p} : proc'[q].step = proc[q].step
           => \/ proc[p].verb \in Requests(p)[status[t]]
              \/ /\ At(p, "write") /\ proc[p].task = t
                 /\ proc[p].prev # status[t]]_vars
  BY <1>2
<1> QED
  BY <1>3, SoundInvariant, PTL DEF Spec, ClosedRowsKept
=============================================================================
