---------------------------- MODULE SessionProofs ----------------------------
(***************************************************************************)
(* The types of Session, its stop files and its action properties, for any *)
(* processes, plans, agents, limits and number of stops, signals and kills.*)
(***************************************************************************)
EXTENDS Session, TLAPS

\* Stages in which a process holds the lock of its prefix for a run.
Holding == InRun \cup {"record", "closing", "cleaned"}

\* The state of a process fits its stage.
Fit(p, r) ==
  /\ r \in Runs
  /\ r.at >= 1 /\ (r.pc # "check" => r.at <= Len(Plan[p]))
  /\ r.pc \in {"gate", "select", "agent", "limited", "backoff"} => r.iter >= 1
  /\ r.pc = "backoff" => r.attempts < MaxAttempts
  /\ r.crashes < MaxCrashes
  /\ r.pc = "agent" => r.task \in TasksOf[Plan[p][r.at]]
  /\ r.unheeded => r.pc = "limited"
  /\ r.flag => r.signaled
  /\ p \in chain /\ r.broke =>
       r.spent /\ r.pc \in {"closing", "cleaned", "decide"}
  /\ r.complete => r.pc \in {"closing", "cleaned", "decide"}

\* A watch outlives neither its agent nor the flag it has acted on.
WatchFits(p) ==
  /\ run[p].pc # "agent" => watch[p].killer = "nobody"
  /\ watch[p].killer = "signal" => run[p].flag
  /\ watch[p].killer = "outside" => run[p].signaled

LocksFit ==
  /\ \A P \in Prefixes : lock[P] # NoProc =>
       run[lock[P]].pc \in Holding \cup {"decide"} /\ Prefix(lock[P]) = P
  /\ \A p \in Procs : run[p].pc \in Holding \/ run[p].complete => lock[Prefix(p)] = p

\* A stop file will be looked at, or removed, by the run it was written for.
StopsHeard == \A P \in stopPrefix : P \in late \/ Hearing(P)

Orderly ==
  /\ TypeOK /\ LocksFit /\ StopsHeard
  /\ \A p \in Procs : Fit(p, run[p]) /\ WatchFits(p)

-----------------------------------------------------------------------------
(* What an iteration does to the table and to its process.                 *)

\* From table s to table z: nothing is claimed, and only rows of p's own prefix open.
Kept(p, s, z) ==
  /\ z \in [Tasks -> Statuses]
  /\ \A t \in Tasks : z[t] = "in_progress" => s[t] = "in_progress"
  /\ \A t \in Tasks \ TasksOf[Prefix(p)] :
       z[t] \in {"todo", "in_progress"} => s[t] \in {"todo", "in_progress"}

\* The state r in which a run ends says what happened.
Earned(p, r) ==
  /\ r.why = "signal" => run[p].signaled
  /\ (r.code = 0 /\ r.why \notin {"stop", "quota", "halted_done"}) \/ r.complete =>
       Open(Prefix(p), status') = {}

Becomes(p, r) ==
  /\ run' = [run EXCEPT ![p] = r]
  /\ Fit(p, r) /\ r.at = run[p].at
  /\ r.pc \in (InRun \ {"agent"}) \cup {"closing"}
  /\ r.pc = "closing" => Earned(p, r)

\* An iteration of p that has made table s goes on or ends the run.
Lands(p, s) == Kept(p, s, status') /\ \E r \in Runs : Becomes(p, r)

\* What can be said of p until its run ends.
CanEnd(p, r) ==
  /\ r \in Runs /\ r.at = run[p].at
  /\ r.at >= 1 /\ r.at <= Len(Plan[p])
  /\ r.flag => r.signaled
  /\ r.signaled => run[p].signaled
  /\ p \in chain /\ r.broke => r.spent

\* The state of p in the middle of an iteration: it may go on, or its end is settled.
MayGoOn(p, r) == r.crashes < MaxCrashes /\ (p \in chain => ~r.broke)
Ready(p, r) ==
  /\ CanEnd(p, r) /\ ~r.complete
  /\ MayGoOn(p, r) \/ (r.halt /\ r.live \notin {"silent", "transient"})

LEMMA Recovery ==
  ASSUME NEW P \in Prefixes, NEW s \in [Tasks -> Statuses], NEW p
  PROVE  Kept(p, s, Recovered(P, s)) /\ Recovered(P, s) \in [Tasks -> Statuses]
BY DEF Kept, Recovered, Statuses

LEMMA KeptTwice ==
  ASSUME NEW p, NEW s, NEW z, Kept(p, s, z), Lands(p, z)
  PROVE  Lands(p, s)
BY DEF Kept, Lands

LEMMA PrefixIsOne ==
  ASSUME NEW p \in Procs, run[p].at \in Nat, run[p].at >= 1, run[p].at <= Len(Plan[p])
  PROVE  Prefix(p) \in Prefixes /\ TasksOf[Prefix(p)] \subseteq Tasks
BY SessionAssumption DEF SessionAssumption, Prefix

LEMMA Limits ==
  /\ MaxCrashes \in Nat /\ MaxCrashes >= 1 /\ MaxStale \in Nat /\ MaxStale >= 1
  /\ MaxAttempts \in Nat /\ MaxDisturbances \in Nat
  /\ NoProc \notin Procs /\ NoTask \notin Tasks
BY SessionAssumption DEF SessionAssumption

LEMMA FreshIsRun == FreshRun \in Runs
BY Limits DEF FreshRun, Runs, Stages, NotRunning, Outcomes, Reasons

\* The end of a run: exit code and completeness are those of the table it leaves.
LEMMA EndLands ==
  ASSUME NEW p \in Procs, NEW r, CanEnd(p, r), NEW s \in [Tasks -> Statuses],
         run \in [Procs -> Runs], NEW code \in {0, 1, 2, 3, 130}, NEW why \in Reasons,
         Finish(p, r, s, code, why), why = "signal" => run[p].signaled,
         code = 0 /\ why \notin {"stop", "quota", "halted_done", "max", "deadline"}
           => Open(Prefix(p), s) = {}
  PROVE  Lands(p, s) /\ run'[p].pc = "closing"
<1> DEFINE P == Prefix(p)
           z == Returned(r.last, s)
           f == [FreshRun EXCEPT !.pc = "closing", !.at = r.at, !.why = why,
                        !.code = Reconciled(P, s, code, why),
                        !.stopped = why = "stop",
                        !.rungs = p \in chain /\ r.rungs, !.spent = p \in chain /\ r.spent,
                        !.broke = p \in chain /\ r.broke,
                        !.complete = p \in chain /\ Open(P, s) = {}]
<1>1. status' = z /\ run' = [run EXCEPT ![p] = f]
  BY DEF Finish
<1>2. P \in Prefixes /\ TasksOf[P] \subseteq Tasks
  BY PrefixIsOne DEF CanEnd, Runs
<1>3. Kept(p, s, z) /\ Open(P, z) = Open(P, s)
  <2>1. r.last \in Tasks \cup {NoTask}
    BY DEF CanEnd, Runs
  <2> QED
    BY <1>2, <2>1 DEF Kept, Returned, Open, Statuses
<1>4. Reconciled(P, s, code, why) \in {0, 1, 2, 3, 130}
      /\ (Reconciled(P, s, code, why) = 0 /\ why \notin {"stop", "quota", "halted_done"}
            => Open(P, s) = {})
  BY DEF Reconciled
<1>5. PICK stopped \in BOOLEAN, rungs \in BOOLEAN, spent \in BOOLEAN, broke \in BOOLEAN,
           complete \in BOOLEAN :
        /\ f = [FreshRun EXCEPT !.pc = "closing", !.at = r.at, !.why = why,
                  !.code = Reconciled(P, s, code, why), !.stopped = stopped,
                  !.rungs = rungs, !.spent = spent, !.broke = broke, !.complete = complete]
        /\ p \in chain /\ broke => spent
        /\ complete => Open(P, s) = {}
  <2>1. p \in chain /\ r.broke => r.spent
    BY DEF CanEnd
  <2> QED
    BY <2>1, Zenon
<1> HIDE DEF f, z
<1> DEFINE rc == Reconciled(P, s, code, why)
           g == [FreshRun EXCEPT !.pc = "closing", !.at = r.at, !.why = why, !.code = rc]
           h == [g EXCEPT !.stopped = stopped, !.rungs = rungs, !.spent = spent,
                          !.broke = broke, !.complete = complete]
<1>6. f = h
  BY <1>5
<1> HIDE DEF P, rc
<1>7. g \in Runs /\ g.pc = "closing" /\ g.at = r.at /\ g.why = why /\ g.code = rc
  <2>1. "closing" \in Stages /\ r.at \in Nat /\ rc \in {0, 1, 2, 3, 130}
    BY <1>4 DEF Stages, CanEnd, Runs, rc
  <2> QED
    BY <2>1, FreshIsRun DEF Runs
<1>8. g.crashes = 0 /\ g.unheeded = FALSE /\ g.flag = FALSE
  BY DEF FreshRun
<1> HIDE DEF g
<1>9. h \in Runs
  BY <1>7 DEF Runs
<1>10. /\ h.pc = g.pc /\ h.at = g.at /\ h.why = g.why /\ h.code = g.code
       /\ h.crashes = g.crashes /\ h.unheeded = g.unheeded /\ h.flag = g.flag
  BY <1>7 DEF Runs
<1>11. h.spent = spent /\ h.broke = broke /\ h.complete = complete
  BY <1>7 DEF Runs
<1> HIDE DEF h
<1>12. Fit(p, h)
  BY <1>5, <1>7, <1>8, <1>9, <1>10, <1>11, Limits DEF Fit, CanEnd
<1>13. Earned(p, h)
  BY <1>1, <1>3, <1>4, <1>5, <1>7, <1>10, <1>11 DEF Earned, CanEnd, P, rc
<1> QED
  BY <1>1, <1>3, <1>6, <1>7, <1>9, <1>10, <1>12, <1>13 DEF Lands, Becomes, CanEnd

LEMMA FinishLands ==
  ASSUME NEW p \in Procs, NEW r, Ready(p, r), NEW s \in [Tasks -> Statuses],
         run \in [Procs -> Runs], NEW code \in {0, 1, 2, 3, 130}, NEW why \in Reasons,
         Finish(p, r, s, code, why), why = "signal" => run[p].signaled,
         code = 0 /\ why \notin {"stop", "quota", "halted_done", "max", "deadline"}
           => Open(Prefix(p), s) = {}
  PROVE  Lands(p, s) /\ run'[p].pc = "closing"
BY EndLands DEF Ready

LEMMA ContinueLands ==
  ASSUME NEW p \in Procs, NEW r, NEW s, run \in [Procs -> Runs], Continue(p, r, s),
         s \in [Tasks -> Statuses], Fit(p, r), r.at = run[p].at,
         r.pc \in InRun \ {"agent"}
  PROVE  Lands(p, s) /\ run'[p] = r
BY DEF Lands, Becomes, Continue, Kept, Fit, InRun, Waits

LEMMA AgainIsRun ==
  ASSUME NEW r \in Runs
  PROVE  LET a == Again(r) IN
         /\ a \in Runs /\ a.pc = "head" /\ a.at = r.at /\ a.crashes = r.crashes
         /\ a.flag = r.flag /\ a.signaled = r.signaled
         /\ a.spent = r.spent /\ a.broke = r.broke
         /\ a.unheeded = r.unheeded /\ a.complete = r.complete
         /\ a.stale = r.stale /\ a.blackout = r.blackout
<1> DEFINE a == Again(r)
<1>1. a = [r EXCEPT !.pc = "head", !.task = NoTask, !.snap = "none",
                    !.live = "none", !.halt = FALSE]
  BY DEF Again
<1>2. "head" \in Stages /\ "none" \in Outcomes
  BY DEF Stages, InRun, Outcomes
<1> HIDE DEF a
<1>3. a \in Runs
  <2>1. [r EXCEPT !.pc = "head", !.task = NoTask] \in Runs BY <1>2 DEF Runs
  <2> DEFINE b == [r EXCEPT !.pc = "head", !.task = NoTask]
  <2>2. a = [b EXCEPT !.snap = "none", !.live = "none", !.halt = FALSE]
    BY <1>1 DEF Runs
  <2>3. b \in Runs BY <2>1
  <2> HIDE DEF b
  <2> QED BY <1>2, <2>2, <2>3 DEF Runs
<1>4. /\ a.pc = "head" /\ a.at = r.at /\ a.crashes = r.crashes
      /\ a.flag = r.flag /\ a.signaled = r.signaled
  BY <1>1 DEF Runs
<1>5. /\ a.spent = r.spent /\ a.broke = r.broke
      /\ a.unheeded = r.unheeded /\ a.complete = r.complete
      /\ a.stale = r.stale /\ a.blackout = r.blackout
  BY <1>1 DEF Runs
<1> QED
  BY <1>3, <1>4, <1>5 DEF a

\* n goes on where r was: it differs in what a new iteration may change.
LEMMA NextFits ==
  ASSUME NEW p \in Procs, NEW r, Ready(p, r), MayGoOn(p, r), ~r.unheeded,
         NEW n \in Runs, n.pc \in {"head", "deferred"}, n.at = r.at,
         n.crashes = r.crashes, n.flag = r.flag, n.signaled = r.signaled,
         n.spent = r.spent, n.broke = r.broke, n.unheeded = r.unheeded,
         n.complete = r.complete
  PROVE  Fit(p, n) /\ n.pc \in InRun \ {"agent"}
BY DEF Ready, CanEnd, MayGoOn, Fit, InRun, Waits

\* The next iteration follows an outcome that neither stops the run nor waits.
LEMMA NextLands ==
  ASSUME NEW p \in Procs, NEW r, Ready(p, r), MayGoOn(p, r), ~r.unheeded,
         NEW s \in [Tasks -> Statuses], run \in [Procs -> Runs],
         NEW stale \in 0 .. MaxStale,
         Continue(p, [Again(r) EXCEPT !.stale = stale], s)
  PROVE  Lands(p, s)
<1> DEFINE n == [Again(r) EXCEPT !.stale = stale]
<1>1. r \in Runs
  BY DEF Ready, CanEnd, MayGoOn
<1>2. /\ n \in Runs /\ n.pc = "head" /\ n.at = r.at /\ n.crashes = r.crashes
      /\ n.flag = r.flag /\ n.signaled = r.signaled
      /\ n.spent = r.spent /\ n.broke = r.broke
      /\ n.unheeded = r.unheeded /\ n.complete = r.complete
  BY <1>1, AgainIsRun DEF Runs
<1> HIDE DEF n
<1>3. Fit(p, n) /\ n.pc \in InRun \ {"agent"}
  BY <1>2, NextFits
<1>4. Continue(p, n, s)
  BY DEF n
<1> QED
  BY <1>2, <1>3, <1>4, ContinueLands DEF Ready, CanEnd, MayGoOn

LEMMA IdledLands ==
  ASSUME NEW p \in Procs, NEW r, Ready(p, r), MayGoOn(p, r), ~r.unheeded,
         NEW s \in [Tasks -> Statuses], run \in [Procs -> Runs], Idled(p, r, s)
  PROVE  Lands(p, s)
<1> DEFINE P == Prefix(p)
<1>1. r \in Runs /\ P \in Prefixes
  BY PrefixIsOne DEF Ready, CanEnd, MayGoOn, Runs
<1>2. \/ Finish(p, r, Recovered(P, s), 0, "quota")
      \/ Continue(p, [Again(r) EXCEPT !.pc = "deferred"], s)
      \/ /\ Open(P, s) = {}
         /\ Finish(p, r, s, 0, "complete") \/ Finish(p, r, s, 1, "parked")
      \/ Finish(p, r, s, 1, "stale")
      \/ \E b \in BOOLEAN :
           /\ r.stale + 1 < MaxStale
           /\ Continue(p, [Again([r EXCEPT !.blackout = b]) EXCEPT !.stale = @ + 1], s)
  BY DEF Idled
<1>3. CASE Finish(p, r, Recovered(P, s), 0, "quota")
  <2>1. Kept(p, s, Recovered(P, s)) /\ Recovered(P, s) \in [Tasks -> Statuses]
    BY <1>1, Recovery
  <2>2. Lands(p, Recovered(P, s))
    BY <1>3, <2>1, FinishLands DEF Reasons
  <2> QED
    BY <2>1, <2>2, KeptTwice
<1>4. CASE Continue(p, [Again(r) EXCEPT !.pc = "deferred"], s)
  <2> DEFINE n == [Again(r) EXCEPT !.pc = "deferred"]
  <2>1. /\ n \in Runs /\ n.pc = "deferred" /\ n.at = r.at /\ n.crashes = r.crashes
        /\ n.flag = r.flag /\ n.signaled = r.signaled
        /\ n.spent = r.spent /\ n.broke = r.broke
        /\ n.unheeded = r.unheeded /\ n.complete = r.complete
    BY <1>1, AgainIsRun DEF Runs, Stages, InRun, Waits
  <2> HIDE DEF n
  <2>2. Fit(p, n) /\ n.pc \in InRun \ {"agent"}
    BY <2>1, NextFits
  <2>3. Continue(p, n, s)
    BY <1>4 DEF n
  <2> QED
    BY <2>1, <2>2, <2>3, ContinueLands DEF Ready, CanEnd, MayGoOn
<1>5. CASE /\ Open(P, s) = {}
           /\ Finish(p, r, s, 0, "complete") \/ Finish(p, r, s, 1, "parked")
  BY <1>5, FinishLands DEF Reasons
<1>6. CASE Finish(p, r, s, 1, "stale")
  BY <1>6, FinishLands DEF Reasons
<1>7. ASSUME NEW b \in BOOLEAN, r.stale + 1 < MaxStale,
             Continue(p, [Again([r EXCEPT !.blackout = b]) EXCEPT !.stale = @ + 1], s)
      PROVE  Lands(p, s)
  <2> DEFINE q == [r EXCEPT !.blackout = b]
  <2>1. /\ q \in Runs /\ q.at = r.at /\ q.crashes = r.crashes /\ q.stale = r.stale
        /\ q.flag = r.flag /\ q.signaled = r.signaled
        /\ q.spent = r.spent /\ q.broke = r.broke
        /\ q.unheeded = r.unheeded /\ q.complete = r.complete
    BY <1>1 DEF Runs
  <2> HIDE DEF q
  <2>2. Ready(p, q)
    BY <2>1 DEF Ready, CanEnd, MayGoOn
  <2>3. r.stale + 1 \in 0 .. MaxStale
    BY <1>1, <1>7, Limits DEF Runs
  <2>4. Continue(p, [Again(q) EXCEPT !.stale = r.stale + 1], s)
    <3>1. Again(q) \in Runs /\ Again(q).stale = r.stale
      BY <2>1, AgainIsRun
    <3>2. Continue(p, [Again(q) EXCEPT !.stale = Again(q).stale + 1], s)
      BY <1>7 DEF q
    <3> QED
      BY <3>1, <3>2
  <2> QED
    BY <2>1, <2>2, <2>3, <2>4, NextLands DEF MayGoOn
<1> QED
  BY <1>2, <1>3, <1>4, <1>5, <1>6, <1>7

LEMMA HaltedLands ==
  ASSUME NEW p \in Procs, NEW r, Ready(p, r),
         NEW s \in [Tasks -> Statuses], run \in [Procs -> Runs], Halted(p, r, s)
  PROVE  Lands(p, s) /\ run'[p].pc = "closing"
<1>1. \E code \in {0, 1, 2, 3, 130}, why \in Reasons :
        /\ Finish(p, r, s, code, why)
        /\ why = "signal" => r.flag
        /\ code = 0 => why \in {"stop", "quota", "halted_done"}
  BY DEF Halted, Reasons
<1>2. r.flag => run[p].signaled
  BY DEF Ready, CanEnd
<1> QED
  BY <1>1, <1>2, FinishLands

\* What Ready says of r holds of a record that differs in other fields only.
LEMMA ReadyToo ==
  ASSUME NEW p, NEW r, Ready(p, r), NEW q \in Runs, q.at = r.at,
         MayGoOn(p, q) \/ (q.halt /\ q.live \notin {"silent", "transient"}),
         q.flag = r.flag, q.signaled = r.signaled, q.spent = r.spent, q.broke = r.broke,
         q.complete = r.complete
  PROVE  Ready(p, q)
BY DEF Ready, CanEnd, MayGoOn

LEMMA JudgedLands ==
  ASSUME NEW p \in Procs, NEW x, Ready(p, x), x.iter >= 1, ~x.unheeded,
         NEW t \in [Tasks -> Statuses], run \in [Procs -> Runs], Judged(p, x, t)
  PROVE  Lands(p, t) /\ (x.halt /\ x.live # "silent" => run'[p].pc = "closing")
<1> DEFINE r == Budgeted(x)
           q == [r EXCEPT !.stale = 0]
<1>1. PICK s \in Parkings(x, t) :
        \/ r.live = "silent" /\ Idled(p, r, s)
        \/ r.live # "silent" /\ r.halt /\ Halted(p, q, s)
        \/ r.live # "silent" /\ ~r.halt /\ Continue(p, [Again(r) EXCEPT !.stale = 0], s)
  BY DEF Judged
<1>2. x \in Runs
  BY DEF Ready, CanEnd, MayGoOn
<1>3. Kept(p, t, s) /\ s \in [Tasks -> Statuses]
  BY <1>2 DEF Parkings, FailureCounts, Kept, Runs, Statuses
<1>4. /\ r \in Runs /\ r.at = x.at /\ r.crashes = x.crashes
      /\ r.flag = x.flag /\ r.signaled = x.signaled /\ r.spent = x.spent
      /\ r.broke = x.broke /\ r.unheeded = x.unheeded /\ r.complete = x.complete
      /\ r.live = x.live /\ r.halt = x.halt
  <2>1. x.iter - 1 \in Nat
    BY <1>2 DEF Runs
  <2> QED
    BY <1>2, <2>1 DEF Budgeted, Runs
<1> HIDE DEF r
<1>5. Ready(p, r)
  BY <1>4, ReadyToo DEF Ready, CanEnd, MayGoOn
<1>6. CASE r.live = "silent" /\ Idled(p, r, s)
  <2>1. MayGoOn(p, r)
    BY <1>5, <1>6 DEF Ready, CanEnd, MayGoOn
  <2> QED
    BY <1>3, <1>4, <1>5, <1>6, <2>1, IdledLands, KeptTwice
<1>7. CASE r.live # "silent" /\ r.halt /\ Halted(p, q, s)
  <2>1. /\ q \in Runs /\ q.at = r.at /\ q.crashes = r.crashes
        /\ q.flag = r.flag /\ q.signaled = r.signaled /\ q.spent = r.spent
        /\ q.broke = r.broke /\ q.complete = r.complete
        /\ q.live = r.live /\ q.halt = r.halt
    BY <1>4, Limits DEF Runs
  <2> HIDE DEF q
  <2>2. Ready(p, q)
    BY <1>5, <2>1, ReadyToo DEF Ready, CanEnd, MayGoOn
  <2> QED
    BY <1>3, <1>7, <2>2, HaltedLands, KeptTwice
<1>8. CASE /\ r.live # "silent" /\ ~r.halt
           /\ Continue(p, [Again(r) EXCEPT !.stale = 0], s)
  <2>1. MayGoOn(p, r)
    BY <1>5, <1>8 DEF Ready, CanEnd, MayGoOn
  <2>2. 0 \in 0 .. MaxStale
    BY Limits
  <2> QED
    BY <1>3, <1>4, <1>5, <1>8, <2>1, <2>2, NextLands, KeptTwice
<1> QED
  BY <1>1, <1>6, <1>7, <1>8, <1>4

\* A back-off is begun with an attempt left.
LEMMA BackoffFits ==
  ASSUME NEW p \in Procs, NEW r, Ready(p, r), r.iter >= 1, ~r.unheeded,
         MayGoOn(p, r), r.attempts < MaxAttempts
  PROVE  LET n == [r EXCEPT !.pc = "backoff"] IN
         Fit(p, n) /\ n.pc \in InRun \ {"agent"} /\ n.at = run[p].at
<1> DEFINE n == [r EXCEPT !.pc = "backoff"]
<1>1. r \in Runs
  BY DEF Ready, CanEnd, MayGoOn
<1>2. /\ n \in Runs /\ n.pc = "backoff" /\ n.at = r.at /\ n.crashes = r.crashes
      /\ n.flag = r.flag /\ n.signaled = r.signaled /\ n.spent = r.spent
      /\ n.broke = r.broke /\ n.unheeded = r.unheeded /\ n.complete = r.complete
      /\ n.iter = r.iter /\ n.attempts = r.attempts
  BY <1>1 DEF Runs, Stages, InRun, Waits
<1> HIDE DEF n
<1>3. Fit(p, n) /\ n.pc \in InRun \ {"agent"} /\ n.at = run[p].at
  BY <1>2 DEF Fit, Ready, CanEnd, MayGoOn, InRun, Waits
<1> QED
  BY <1>3 DEF n

LEMMA SettledLands ==
  ASSUME NEW p \in Procs, NEW r, Ready(p, r), r.iter >= 1, ~r.unheeded,
         NEW s \in [Tasks -> Statuses], run \in [Procs -> Runs], Settled(p, r, s)
  PROVE  /\ Lands(p, s)
         /\ r.halt /\ r.live \notin {"silent", "transient"} => run'[p].pc = "closing"
<1>1. r \in Runs
  BY DEF Ready, CanEnd, MayGoOn
<1>2. CASE r.live # "transient" /\ Judged(p, [r EXCEPT !.attempts = 0], s)
  <2> DEFINE q == [r EXCEPT !.attempts = 0]
  <2>1. /\ q \in Runs /\ q.at = r.at /\ q.crashes = r.crashes
        /\ q.flag = r.flag /\ q.signaled = r.signaled /\ q.spent = r.spent
        /\ q.broke = r.broke /\ q.complete = r.complete /\ q.unheeded = r.unheeded
        /\ q.live = r.live /\ q.halt = r.halt /\ q.iter = r.iter
    BY <1>1, Limits DEF Runs
  <2> HIDE DEF q
  <2>2. Ready(p, q)
    BY <2>1, ReadyToo DEF Ready, CanEnd, MayGoOn
  <2>3. Judged(p, q, s)
    BY <1>2 DEF q
  <2> QED
    BY <2>1, <2>2, <2>3, JudgedLands
<1>3. CASE r.live = "transient" /\ Judged(p, [r EXCEPT !.live = "crash"], s)
  <2> DEFINE q == [r EXCEPT !.live = "crash"]
  <2>1. /\ q \in Runs /\ q.at = r.at /\ q.crashes = r.crashes
        /\ q.flag = r.flag /\ q.signaled = r.signaled /\ q.spent = r.spent
        /\ q.broke = r.broke /\ q.complete = r.complete /\ q.unheeded = r.unheeded
        /\ q.iter = r.iter
    BY <1>1 DEF Runs, Outcomes, AgentOutcomes
  <2> HIDE DEF q
  <2>2. MayGoOn(p, r)
    BY <1>3 DEF Ready, CanEnd, MayGoOn
  <2>3. Ready(p, q)
    BY <2>1, <2>2, ReadyToo DEF MayGoOn
  <2>4. Judged(p, q, s)
    BY <1>3 DEF q
  <2> QED
    BY <1>3, <2>1, <2>3, <2>4, JudgedLands
<1>4. CASE /\ r.live = "transient" /\ AttemptsLeft(r)
           /\ Continue(p, [r EXCEPT !.pc = "backoff"], Recovered(Prefix(p), s))
  <2> DEFINE z == Recovered(Prefix(p), s)
  <2>1. MayGoOn(p, r) /\ r.attempts < MaxAttempts
    BY <1>4 DEF Ready, CanEnd, MayGoOn, AttemptsLeft
  <2>2. Kept(p, s, z) /\ z \in [Tasks -> Statuses]
    BY Recovery, PrefixIsOne DEF Ready, CanEnd, MayGoOn, Runs
  <2>3. Lands(p, z)
    BY <1>4, <2>1, <2>2, BackoffFits, ContinueLands
  <2> QED
    BY <1>4, <2>2, <2>3, KeptTwice
<1> QED
  BY <1>2, <1>3, <1>4 DEF Settled

\* The pipeline changes the outcome to a completion, or leaves it.
LEMMA PipedIsReady ==
  ASSUME NEW p \in Procs, NEW x, Ready(p, x), NEW effect
  PROVE  LET r == Piped([x EXCEPT !.last = x.task], effect) IN
         /\ Ready(p, r) /\ r.iter = x.iter /\ r.unheeded = x.unheeded
         /\ r.snap = x.snap /\ r.halt = x.halt
         /\ r.live = x.live \/ r.live = "completed"
         /\ MayGoOn(p, x) => MayGoOn(p, r)
<1> DEFINE y == [x EXCEPT !.last = x.task]
           r == Piped(y, effect)
<1>1. x \in Runs
  BY DEF Ready, CanEnd, MayGoOn
<1>2. /\ y \in Runs /\ y.at = x.at /\ y.crashes = x.crashes
      /\ y.flag = x.flag /\ y.signaled = x.signaled /\ y.spent = x.spent
      /\ y.broke = x.broke /\ y.complete = x.complete /\ y.unheeded = x.unheeded
      /\ y.live = x.live /\ y.halt = x.halt /\ y.iter = x.iter /\ y.snap = x.snap
  BY <1>1 DEF Runs
<1> HIDE DEF y
<1>3. CASE r = y
  <2> HIDE DEF r
  <2>1. Ready(p, r)
    BY <1>2, <1>3, ReadyToo DEF Ready, CanEnd, MayGoOn
  <2> QED
    BY <1>2, <1>3, <2>1 DEF r, y, MayGoOn
<1>4. ASSUME NEW q, q = [y EXCEPT !.live = "completed", !.last = NoTask, !.crashes = 0]
                 \/ q = [y EXCEPT !.live = "completed", !.crashes = 0]
      PROVE  /\ q \in Runs /\ q.at = y.at /\ q.crashes = 0
             /\ q.flag = y.flag /\ q.signaled = y.signaled /\ q.spent = y.spent
             /\ q.broke = y.broke /\ q.complete = y.complete /\ q.unheeded = y.unheeded
             /\ q.live = "completed" /\ q.halt = y.halt /\ q.iter = y.iter /\ q.snap = y.snap
  <2>1. "completed" \in Outcomes /\ 0 \in 0 .. MaxCrashes
    BY Limits DEF Outcomes, AgentOutcomes
  <2>2. CASE q = [y EXCEPT !.live = "completed", !.last = NoTask, !.crashes = 0]
    BY <1>2, <2>1, <2>2 DEF Runs
  <2>3. CASE q = [y EXCEPT !.live = "completed", !.crashes = 0]
    BY <1>2, <2>1, <2>3 DEF Runs
  <2> QED
    BY <1>4, <2>2, <2>3
<1>5. CASE \/ r = [y EXCEPT !.live = "completed", !.last = NoTask, !.crashes = 0]
           \/ r = [y EXCEPT !.live = "completed", !.crashes = 0]
  <2> HIDE DEF r
  <2>1. /\ r \in Runs /\ r.at = y.at /\ r.crashes = 0
        /\ r.flag = y.flag /\ r.signaled = y.signaled /\ r.spent = y.spent
        /\ r.broke = y.broke /\ r.complete = y.complete /\ r.unheeded = y.unheeded
        /\ r.live = "completed" /\ r.halt = y.halt /\ r.iter = y.iter /\ r.snap = y.snap
    BY <1>4, <1>5
  <2>2. Ready(p, r)
    BY <1>2, <2>1, Limits, ReadyToo DEF Ready, CanEnd, MayGoOn
  <2> QED
    BY <1>2, <2>1, <2>2, Limits DEF r, y, MayGoOn
<1> QED
  BY <1>3, <1>5 DEF Piped

LEMMA MarkedKept ==
  ASSUME NEW p, NEW x, NEW effect, NEW t \in [Tasks -> Statuses]
  PROVE  Kept(p, t, Marked(x, effect, t)) /\ Marked(x, effect, t) \in [Tasks -> Statuses]
<1> DEFINE s == Marked(x, effect, t)
<1>1. s \in [Tasks -> Statuses]
  BY DEF Marked, Statuses
<1>2. \A u \in Tasks : s[u] = t[u] \/ s[u] \in {"done", "blocked"}
  BY DEF Marked
<1> QED
  BY <1>1, <1>2 DEF Kept

LEMMA HeardLands ==
  ASSUME NEW p \in Procs, NEW x, Ready(p, x), x.iter >= 1,
         x.unheeded => x.snap = "rate_limit",
         x.snap = "rate_limit" => MayGoOn(p, x),
         NEW t \in [Tasks -> Statuses], run \in [Procs -> Runs], Heard(p, x, t)
  PROVE  /\ Lands(p, t)
         /\ x.halt /\ x.live \notin {"silent", "transient"} /\ x.snap # "rate_limit" =>
              run'[p].pc = "closing"
<1>1. PICK effect \in Effects(p, x, t) :
        LET r == Piped([x EXCEPT !.last = x.task], effect)
            s == Marked(x, effect, t)
            back == Recovered(Prefix(p), s)
            heeded == [r EXCEPT !.unheeded = FALSE]
        IN \/ ~Limited(r) /\ Settled(p, r, s)
           \/ Limited(r) /\ Settled(p, [heeded EXCEPT !.live = "stop", !.halt = TRUE,
                                          !.spent = TRUE, !.broke = TRUE], back)
           \/ /\ Limited(r) /\ p \in Spillover
              /\ Settled(p, [heeded EXCEPT !.blackout = TRUE], back)
           \/ /\ Limited(r) /\ p \notin Spillover
              /\ Continue(p, [r EXCEPT !.pc = "limited"], back)
           \/ Limited(r) /\ Continue(p, [r EXCEPT !.pc = "limited", !.rungs = TRUE], back)
  BY DEF Heard
<1> DEFINE r == Piped([x EXCEPT !.last = x.task], effect)
           s == Marked(x, effect, t)
           back == Recovered(Prefix(p), s)
           spent == [[r EXCEPT !.unheeded = FALSE] EXCEPT !.live = "stop", !.halt = TRUE,
                                          !.spent = TRUE, !.broke = TRUE]
           spilt == [[r EXCEPT !.unheeded = FALSE] EXCEPT !.blackout = TRUE]
           waits == [r EXCEPT !.pc = "limited"]
           slips == [r EXCEPT !.pc = "limited", !.rungs = TRUE]
<1>2. /\ Ready(p, r) /\ r.iter = x.iter /\ r.unheeded = x.unheeded
      /\ r.snap = x.snap /\ r.halt = x.halt
      /\ r.live = x.live \/ r.live = "completed"
      /\ MayGoOn(p, x) => MayGoOn(p, r)
  BY PipedIsReady
<1>3. Kept(p, t, s) /\ s \in [Tasks -> Statuses]
  BY MarkedKept
<1> HIDE DEF r, s
<1>4. r \in Runs
  BY <1>2 DEF Ready, CanEnd, MayGoOn
<1>5. Kept(p, s, back) /\ back \in [Tasks -> Statuses]
  BY <1>2, <1>3, Recovery, PrefixIsOne DEF Ready, CanEnd, MayGoOn, Runs
<1> HIDE DEF back
<1>6. ASSUME Lands(p, back) PROVE Lands(p, t)
  BY <1>3, <1>5, <1>6, KeptTwice
<1>7. CASE ~Limited(r) /\ Settled(p, r, s)
  BY <1>2, <1>3, <1>7, SettledLands, KeptTwice DEF Limited
<1>8. CASE Limited(r) /\ Settled(p, spent, back)
  <2>1. /\ spent \in Runs /\ spent.at = r.at /\ spent.crashes = r.crashes
        /\ spent.flag = r.flag /\ spent.signaled = r.signaled /\ spent.spent = TRUE
        /\ spent.complete = r.complete /\ spent.unheeded = FALSE
        /\ spent.live = "stop" /\ spent.halt = TRUE /\ spent.iter = r.iter
    BY <1>4 DEF Runs, Outcomes
  <2> HIDE DEF spent
  <2>2. Ready(p, spent)
    BY <1>2, <2>1 DEF Ready, CanEnd, MayGoOn
  <2> QED
    BY <1>2, <1>5, <1>6, <1>8, <2>1, <2>2, SettledLands DEF Limited
<1>9. CASE Limited(r) /\ Settled(p, spilt, back)
  <2>1. /\ spilt \in Runs /\ spilt.at = r.at /\ spilt.crashes = r.crashes
        /\ spilt.flag = r.flag /\ spilt.signaled = r.signaled /\ spilt.spent = r.spent
        /\ spilt.broke = r.broke /\ spilt.complete = r.complete /\ spilt.unheeded = FALSE
        /\ spilt.iter = r.iter
    BY <1>4 DEF Runs
  <2> HIDE DEF spilt
  <2>2. Ready(p, spilt)
    BY <1>2, <1>9, <2>1, ReadyToo DEF Limited, MayGoOn
  <2> QED
    BY <1>2, <1>5, <1>6, <1>9, <2>1, <2>2, SettledLands DEF Limited
<1>10. ASSUME NEW n, n = waits \/ n = slips, Limited(r), Continue(p, n, back)
       PROVE  Lands(p, t)
  <2>1. /\ n \in Runs /\ n.pc = "limited" /\ n.at = r.at /\ n.crashes = r.crashes
        /\ n.flag = r.flag /\ n.signaled = r.signaled /\ n.spent = r.spent
        /\ n.broke = r.broke /\ n.complete = r.complete /\ n.iter = r.iter
    <3>1. "limited" \in Stages
      BY DEF Stages, InRun, Waits
    <3>2. CASE n = waits
      BY <1>4, <3>1, <3>2 DEF Runs
    <3>3. CASE n = slips
      BY <1>4, <3>1, <3>3 DEF Runs
    <3> QED
      BY <1>10, <3>2, <3>3
  <2>2. MayGoOn(p, r)
    BY <1>2, <1>10 DEF Limited
  <2> HIDE DEF waits, slips
  <2>3. Fit(p, n) /\ n.at = run[p].at /\ n.pc \in InRun \ {"agent"}
    BY <1>2, <2>1, <2>2 DEF Fit, Ready, CanEnd, MayGoOn, InRun, Waits
  <2> QED
    BY <1>5, <1>6, <1>10, <2>3, ContinueLands
<1>11. Limited(r) => x.snap = "rate_limit"
  BY <1>2 DEF Limited
<1> QED
  BY <1>1, <1>7, <1>8, <1>9, <1>10, <1>11 DEF r, s, back

-----------------------------------------------------------------------------
(* The actions of an iteration.                                            *)

LEMMA RunIsReady ==
  ASSUME Orderly, NEW p \in Procs, run[p].pc \in InRun
  PROVE  /\ Ready(p, run[p]) /\ run[p] \in Runs /\ run \in [Procs -> Runs]
         /\ MayGoOn(p, run[p])
         /\ run[p].unheeded => run[p].pc = "limited"
         /\ run[p].pc \in {"gate", "select", "agent", "limited", "backoff"} => run[p].iter >= 1
         /\ Prefix(p) \in Prefixes /\ TasksOf[Prefix(p)] \subseteq Tasks
         /\ status \in [Tasks -> Statuses] /\ watch[p] \in Watches
<1>1. Fit(p, run[p]) /\ run \in [Procs -> Runs] /\ run[p] \in Runs
      /\ status \in [Tasks -> Statuses] /\ watch[p] \in Watches
  BY DEF Orderly, TypeOK
<1>2. /\ run[p].at \in Nat /\ run[p].at >= 1 /\ run[p].at <= Len(Plan[p])
  BY <1>1 DEF Fit, InRun, Waits, Runs
<1>3. Ready(p, run[p])
  BY <1>1, <1>2 DEF Fit, Ready, CanEnd, MayGoOn, InRun, Waits
<1> QED
  BY <1>1, <1>2, <1>3, PrefixIsOne DEF Fit, MayGoOn, InRun, Waits

LEMMA UnclaimedIsReady ==
  ASSUME NEW p \in Procs, NEW r, Ready(p, r)
  PROVE  LET q == Unclaimed(r) IN
         /\ Ready(p, q) /\ q.iter = r.iter /\ q.unheeded = r.unheeded
         /\ MayGoOn(p, r) => MayGoOn(p, q)
         /\ q.flag = r.flag
<1> DEFINE q == [r EXCEPT !.last = NoTask]
<1>1. r \in Runs
  BY DEF Ready, CanEnd, MayGoOn
<1>2. /\ q \in Runs /\ q.at = r.at /\ q.crashes = r.crashes
      /\ q.flag = r.flag /\ q.signaled = r.signaled /\ q.spent = r.spent
      /\ q.broke = r.broke /\ q.complete = r.complete /\ q.unheeded = r.unheeded
      /\ q.live = r.live /\ q.halt = r.halt /\ q.iter = r.iter
  BY <1>1 DEF Runs
<1> HIDE DEF q
<1>3. Ready(p, q)
  BY <1>2, ReadyToo DEF Ready, CanEnd, MayGoOn
<1> QED
  BY <1>2, <1>3 DEF Unclaimed, q, MayGoOn

\* The head of an iteration lets it select, or has it wait for room.
LEMMA RoomLands ==
  ASSUME NEW p \in Procs, NEW r, Ready(p, r), MayGoOn(p, r), ~r.unheeded,
         r.iter >= 1, NEW rungs \in BOOLEAN, NEW s \in [Tasks -> Statuses],
         run \in [Procs -> Runs], NEW n,
         \/ n = [r EXCEPT !.pc = "select", !.rungs = rungs]
         \/ n = [r EXCEPT !.pc = "select"]
         \/ n = [r EXCEPT !.pc = "gate"],
         Continue(p, n, s)
  PROVE  Lands(p, s)
<1>1. r \in Runs /\ "select" \in Stages /\ "gate" \in Stages
  BY DEF Ready, CanEnd, MayGoOn, Stages, InRun, Waits
<1>2. /\ n \in Runs /\ n.pc \in {"select", "gate"} /\ n.at = r.at /\ n.crashes = r.crashes
      /\ n.flag = r.flag /\ n.signaled = r.signaled /\ n.spent = r.spent
      /\ n.broke = r.broke /\ n.complete = r.complete /\ n.iter = r.iter
      /\ n.unheeded = r.unheeded
  <2>1. CASE n = [r EXCEPT !.pc = "select", !.rungs = rungs]
    BY <1>1, <2>1 DEF Runs
  <2>2. CASE n = [r EXCEPT !.pc = "select"]
    BY <1>1, <2>2 DEF Runs
  <2>3. CASE n = [r EXCEPT !.pc = "gate"]
    BY <1>1, <2>3 DEF Runs
  <2> QED
    BY <2>1, <2>2, <2>3
<1>3. Fit(p, n) /\ n.at = run[p].at /\ n.pc \in InRun \ {"agent"}
  BY <1>2 DEF Fit, Ready, CanEnd, MayGoOn, InRun, Waits
<1> QED
  BY <1>3, ContinueLands

LEMMA GateLands ==
  ASSUME NEW p \in Procs, NEW r, Ready(p, r), MayGoOn(p, r), ~r.unheeded,
         r.iter >= 1, status \in [Tasks -> Statuses], run \in [Procs -> Runs], Gate(p, r)
  PROVE  Lands(p, status)
<1>1. r \in Runs /\ Prefix(p) \in Prefixes
  BY PrefixIsOne DEF Ready, CanEnd, MayGoOn, Runs
<1>2. CASE \E rungs \in BOOLEAN :
             Continue(p, [r EXCEPT !.pc = "select", !.rungs = rungs], status)
  BY <1>2, RoomLands
<1>3. CASE Continue(p, [r EXCEPT !.pc = "gate"], status)
  BY <1>3, RoomLands
<1>4. ASSUME NEW spent \in BOOLEAN, NEW rungs \in BOOLEAN,
             NEW broke \in BOOLEAN, p \in chain /\ broke => spent,
             Finish(p, [Unclaimed(r) EXCEPT !.spent = spent, !.rungs = rungs,
                                            !.broke = broke],
                    Recovered(Prefix(p), status), 0, "quota")
      PROVE  Lands(p, status)
  <2> DEFINE u == Unclaimed(r)
             q == [u EXCEPT !.spent = spent, !.rungs = rungs, !.broke = broke]
             z == Recovered(Prefix(p), status)
  <2>1. CanEnd(p, u) /\ u \in Runs
    BY UnclaimedIsReady DEF Ready, CanEnd
  <2> HIDE DEF u
  <2>2. /\ q \in Runs /\ q.at = u.at /\ q.crashes = u.crashes
        /\ q.flag = u.flag /\ q.signaled = u.signaled /\ q.spent = spent
        /\ q.broke = broke
    <3>1. spent \in BOOLEAN /\ rungs \in BOOLEAN /\ broke \in BOOLEAN
      BY <1>4
    <3>2. q \in Runs
      BY <2>1, <3>1 DEF Runs
    <3>3. /\ q.at = u.at /\ q.crashes = u.crashes /\ q.flag = u.flag
          /\ q.signaled = u.signaled
      BY <2>1 DEF Runs
    <3>4. q.spent = spent /\ q.broke = broke
      BY <2>1 DEF Runs
    <3> QED
      BY <3>2, <3>3, <3>4
  <2> HIDE DEF q
  <2>3. CanEnd(p, q)
    BY <1>4, <2>1, <2>2 DEF CanEnd
  <2>4. Kept(p, status, z) /\ z \in [Tasks -> Statuses]
    BY <1>1, Recovery
  <2>5. Finish(p, q, z, 0, "quota")
    BY <1>4 DEF q, u
  <2>6. Lands(p, z)
    BY <2>3, <2>4, <2>5, EndLands DEF Reasons
  <2> QED
    BY <2>4, <2>6, KeptTwice
<1>5. CASE Finish(p, Unclaimed(r), status, 0, "quota")
  BY <1>5, UnclaimedIsReady, FinishLands DEF Reasons
<1>6. ASSUME NEW account \in BOOLEAN,
             Finish(p, [Unclaimed(r) EXCEPT !.spent = account, !.rungs = ~account,
                                            !.broke = @ \/ account],
                    Recovered(Prefix(p), status), 0, "quota")
      PROVE  Lands(p, status)
  <2> DEFINE u == Unclaimed(r)
  <2>1. u.broke = r.broke /\ r.broke \in BOOLEAN
    BY <1>1 DEF Unclaimed, Runs
  <2> HIDE DEF u
  <2>2. PICK broke \in BOOLEAN, rungs \in BOOLEAN :
          broke = (u.broke \/ account) /\ rungs = ~account
    OBVIOUS
  <2>3. p \in chain /\ broke => account
    BY <2>1, <2>2 DEF MayGoOn
  <2> QED
    BY <1>4, <1>6, <2>2, <2>3 DEF u
<1> QED
  BY <1>2, <1>3, <1>5, <1>6 DEF Gate

\* What an iteration of p does to the rows: it claims as it selects.
RowsFollow(p) ==
  /\ status' \in [Tasks -> Statuses]
  /\ \A t \in Tasks : status'[t] = "in_progress" =>
       \/ status[t] = "in_progress"
       \/ /\ t \in TasksOf[Prefix(p)]
          /\ run[p].pc = "select" /\ run'[p].pc \in {"agent", "closing"}
  /\ \A t \in Tasks \ TasksOf[Prefix(p)] :
       status'[t] \in {"todo", "in_progress"} => status[t] \in {"todo", "in_progress"}

\* ... to its process: it ends the run or goes on with it.
RunFollows(p) ==
  \E r \in Runs : /\ run' = [run EXCEPT ![p] = r]
                  /\ Fit(p, r) /\ r.at = run[p].at
                  /\ r.pc \in InRun \cup {"closing"}
                  /\ r.pc = "closing" => Earned(p, r)

\* ... and to its watch.
WatchRests(p) ==
  \E w \in Watches : watch' = [watch EXCEPT ![p] = w] /\ w.killer = "nobody"

Iterated(p) ==
  /\ run[p].pc \in InRun
  /\ UNCHANGED <<lock, files, records, outside>>
  /\ RowsFollow(p) /\ RunFollows(p) /\ WatchRests(p)

LEMMA NewWatchFits == NewWatch \in Watches /\ NewWatch.killer = "nobody"
BY WatchAssumption DEF WatchAssumption, NewWatch, Watches, Unarmed, Killers

LEMMA LandsIterates ==
  ASSUME Orderly, NEW p \in Procs, run[p].pc \in InRun,
         UNCHANGED <<lock, files, records, outside>>, Lands(p, status),
         \/ UNCHANGED watch /\ run[p].pc # "agent"
         \/ watch' = [watch EXCEPT ![p] = NewWatch]
  PROVE  Iterated(p)
<1>1. WatchRests(p)
  <2>1. CASE UNCHANGED watch /\ run[p].pc # "agent"
    BY <2>1 DEF Orderly, TypeOK, WatchFits, WatchRests
  <2>2. CASE watch' = [watch EXCEPT ![p] = NewWatch]
    BY <2>2, NewWatchFits DEF WatchRests
  <2> QED
    BY <2>1, <2>2
<1>2. RowsFollow(p)
  BY DEF Lands, Kept, RowsFollow
<1>3. RunFollows(p)
  BY DEF Lands, Becomes, RunFollows
<1> QED
  BY <1>1, <1>2, <1>3 DEF Iterated

LEMMA HeadIterates ==
  ASSUME Orderly, NEW p \in Procs, IterationHead(p)
  PROVE  Iterated(p)
<1> DEFINE r == [run[p] EXCEPT !.iter = @ + 1]
<1>1. run[p].pc = "head" /\ run[p].pc \in InRun
  BY DEF IterationHead, InRun
<1>2. /\ Ready(p, run[p]) /\ run[p] \in Runs /\ run \in [Procs -> Runs]
      /\ MayGoOn(p, run[p]) /\ ~run[p].unheeded
      /\ status \in [Tasks -> Statuses]
  BY <1>1, RunIsReady
<1>3. /\ r \in Runs /\ r.at = run[p].at /\ r.crashes = run[p].crashes
      /\ r.flag = run[p].flag /\ r.signaled = run[p].signaled /\ r.spent = run[p].spent
      /\ r.broke = run[p].broke /\ r.complete = run[p].complete
      /\ r.unheeded = run[p].unheeded /\ r.iter >= 1
  <2>1. run[p].iter + 1 \in Nat /\ run[p].iter + 1 >= 1
    BY <1>2 DEF Runs
  <2> QED
    BY <1>2, <2>1 DEF Runs
<1>4. \/ Finish(p, run[p], status, 0, "max")
      \/ Finish(p, r, status, 0, "deadline")
      \/ r.flag /\ Finish(p, r, status, 130, "signal")
      \/ Finish(p, Unclaimed(r), status, 0, "stop")
      \/ Gate(p, r)
      \/ Continue(p, [r EXCEPT !.pc = "select"], status)
  BY DEF IterationHead
<1> HIDE DEF r
<1>5. Ready(p, r) /\ MayGoOn(p, r) /\ ~r.unheeded /\ (r.flag => run[p].signaled)
  BY <1>2, <1>3 DEF Ready, CanEnd, MayGoOn
<1>6. Lands(p, status)
  <2>1. CASE Finish(p, run[p], status, 0, "max")
    BY <1>2, <2>1, FinishLands DEF Reasons
  <2>2. CASE \/ Finish(p, r, status, 0, "deadline")
             \/ r.flag /\ Finish(p, r, status, 130, "signal")
    BY <1>2, <1>5, <2>2, FinishLands DEF Reasons
  <2>3. CASE Finish(p, Unclaimed(r), status, 0, "stop")
    BY <1>2, <1>5, <2>3, FinishLands, UnclaimedIsReady DEF Reasons
  <2>4. CASE Gate(p, r)
    BY <1>2, <1>3, <1>5, <2>4, GateLands
  <2>5. CASE Continue(p, [r EXCEPT !.pc = "select"], status)
    BY <1>2, <1>3, <1>5, <2>5, RoomLands
  <2> QED
    BY <1>4, <2>1, <2>2, <2>3, <2>4, <2>5
<1> QED
  BY <1>1, <1>6, LandsIterates DEF IterationHead

\* A wait leaves no reaction outstanding.
LEMMA WaitedIsReady ==
  ASSUME NEW p \in Procs, NEW r, Ready(p, r), MayGoOn(p, r), NEW q,
         \/ q = [r EXCEPT !.unheeded = FALSE]
         \/ q = [r EXCEPT !.unheeded = FALSE, !.live = "stop", !.halt = TRUE]
  PROVE  Ready(p, q) /\ ~q.unheeded /\ q.iter = r.iter
<1>1. r \in Runs /\ "stop" \in Outcomes
  BY DEF Ready, CanEnd, Outcomes
<1>2. /\ q \in Runs /\ q.at = r.at /\ q.crashes = r.crashes /\ q.flag = r.flag
      /\ q.signaled = r.signaled /\ q.spent = r.spent /\ q.broke = r.broke
      /\ q.complete = r.complete /\ ~q.unheeded /\ q.iter = r.iter
  <2>1. CASE q = [r EXCEPT !.unheeded = FALSE]
    BY <1>1, <2>1 DEF Runs
  <2>2. CASE q = [r EXCEPT !.unheeded = FALSE, !.live = "stop", !.halt = TRUE]
    BY <1>1, <2>2 DEF Runs
  <2> QED
    BY <2>1, <2>2
<1>3. MayGoOn(p, q)
  BY <1>2 DEF MayGoOn
<1> QED
  BY <1>2, <1>3, ReadyToo DEF Ready

LEMMA WaitOverIterates ==
  ASSUME Orderly, NEW p \in Procs, WaitOver(p)
  PROVE  Iterated(p)
<1>0. PICK r : r = run[p]
  OBVIOUS
<1>1. r.pc \in Waits /\ r.pc \in InRun /\ r.pc # "agent"
  BY <1>0 DEF WaitOver, InRun, Waits
<1> SUFFICES Lands(p, status)
  BY <1>0, <1>1, LandsIterates DEF WaitOver
<1>2. /\ Ready(p, r) /\ r \in Runs /\ run \in [Procs -> Runs] /\ MayGoOn(p, r)
      /\ r.unheeded => r.pc = "limited"
      /\ r.pc \in {"gate", "limited", "backoff"} => r.iter >= 1
      /\ status \in [Tasks -> Statuses]
  BY <1>0, <1>1, RunIsReady
<1>3. \/ r.pc = "gate" /\ Continue(p, [r EXCEPT !.pc = "select"], status)
      \/ r.pc = "limited" /\ Settled(p, [r EXCEPT !.unheeded = FALSE], status)
      \/ r.pc = "backoff" /\ Judged(p, Attempted(r), status)
      \/ r.pc = "deferred" /\ Continue(p, [r EXCEPT !.pc = "head", !.blackout = FALSE], status)
  BY <1>0 DEF WaitOver, Waits
<1>4. r.pc = "backoff" => r.attempts < MaxAttempts
  BY <1>0 DEF Orderly, Fit
<1>5. CASE r.pc = "gate" /\ Continue(p, [r EXCEPT !.pc = "select"], status)
  BY <1>2, <1>5, RoomLands
<1>6. CASE r.pc = "limited" /\ Settled(p, [r EXCEPT !.unheeded = FALSE], status)
  <2> DEFINE q == [r EXCEPT !.unheeded = FALSE]
  <2>1. Ready(p, q) /\ ~q.unheeded /\ q.iter = r.iter
    BY <1>2, WaitedIsReady
  <2> HIDE DEF q
  <2> QED
    BY <1>2, <1>6, <2>1, SettledLands DEF q
<1>7. CASE r.pc = "backoff" /\ Judged(p, Attempted(r), status)
  <2> DEFINE q == Attempted(r)
  <2>1. r.attempts + 1 \in 0 .. MaxAttempts
    BY <1>2, <1>4, <1>7, Limits DEF Runs
  <2>2. /\ q \in Runs /\ q.at = r.at /\ q.crashes = r.crashes /\ q.flag = r.flag
        /\ q.signaled = r.signaled /\ q.spent = r.spent /\ q.broke = r.broke
        /\ q.complete = r.complete /\ q.unheeded = r.unheeded /\ q.iter = r.iter
    BY <1>2, <2>1 DEF Runs, Attempted
  <2> HIDE DEF q
  <2>3. Ready(p, q)
    BY <1>2, <2>2, ReadyToo DEF MayGoOn, Ready
  <2> QED
    BY <1>2, <1>7, <2>2, <2>3, JudgedLands DEF q
<1>8. CASE r.pc = "deferred" /\ Continue(p, [r EXCEPT !.pc = "head", !.blackout = FALSE], status)
  <2> DEFINE n == [r EXCEPT !.pc = "head", !.blackout = FALSE]
  <2>1. "head" \in Stages
    BY DEF Stages, InRun
  <2>2. /\ n \in Runs /\ n.pc = "head" /\ n.at = r.at /\ n.crashes = r.crashes /\ n.flag = r.flag
        /\ n.signaled = r.signaled /\ n.spent = r.spent /\ n.broke = r.broke
        /\ n.complete = r.complete /\ n.unheeded = r.unheeded
    BY <1>2, <2>1 DEF Runs
  <2> HIDE DEF n
  <2>3. Fit(p, n) /\ n.pc \in InRun \ {"agent"}
    BY <1>2, <1>8, <2>2, NextFits
  <2>4. n.at = run[p].at
    BY <1>2, <2>2 DEF Ready, CanEnd
  <2> QED
    BY <1>2, <1>8, <2>3, <2>4, ContinueLands DEF n
<1> QED
  BY <1>3, <1>5, <1>6, <1>7, <1>8

LEMMA WaitStoppedIterates ==
  ASSUME Orderly, NEW p \in Procs, WaitStopped(p)
  PROVE  Iterated(p)
<1>0. PICK r : r = run[p]
  OBVIOUS
<1>1. r.pc \in Waits /\ r.pc \in InRun /\ r.pc # "agent"
  BY <1>0 DEF WaitStopped, InRun, Waits
<1> SUFFICES Lands(p, status)
  BY <1>0, <1>1, LandsIterates DEF WaitStopped
<1>2. /\ Ready(p, r) /\ r \in Runs /\ run \in [Procs -> Runs] /\ MayGoOn(p, r)
      /\ r.unheeded => r.pc = "limited"
      /\ r.pc \in {"gate", "limited", "backoff"} => r.iter >= 1
      /\ status \in [Tasks -> Statuses]
  BY <1>0, <1>1, RunIsReady
<1>3. \/ r.flag /\ Finish(p, r, status, 130, "signal")
      \/ Finish(p, Unclaimed(r), status, 0, "stop")
      \/ r.pc = "limited" /\ Settled(p, [r EXCEPT !.unheeded = FALSE, !.live = "stop",
                                                  !.halt = TRUE], status)
      \/ r.pc = "backoff" /\ Judged(p, [r EXCEPT !.halt = TRUE], status)
      \/ Finish(p, r, status, 130, "wait_stopped")
  BY <1>0 DEF WaitStopped
<1>4. r.flag => run[p].signaled
  BY <1>2 DEF Ready, CanEnd
<1>5. CASE \/ r.flag /\ Finish(p, r, status, 130, "signal")
           \/ Finish(p, r, status, 130, "wait_stopped")
  BY <1>2, <1>4, <1>5, FinishLands DEF Reasons
<1>6. CASE Finish(p, Unclaimed(r), status, 0, "stop")
  BY <1>2, <1>6, FinishLands, UnclaimedIsReady DEF Reasons
<1>7. CASE r.pc = "limited" /\ Settled(p, [r EXCEPT !.unheeded = FALSE, !.live = "stop",
                                                    !.halt = TRUE], status)
  <2> DEFINE q == [r EXCEPT !.unheeded = FALSE, !.live = "stop", !.halt = TRUE]
  <2>1. Ready(p, q) /\ ~q.unheeded /\ q.iter = r.iter
    BY <1>2, WaitedIsReady
  <2> HIDE DEF q
  <2> QED
    BY <1>2, <1>7, <2>1, SettledLands DEF q
<1>8. CASE r.pc = "backoff" /\ Judged(p, [r EXCEPT !.halt = TRUE], status)
  <2> DEFINE q == [r EXCEPT !.halt = TRUE]
  <2>1. /\ q \in Runs /\ q.at = r.at /\ q.crashes = r.crashes /\ q.flag = r.flag
        /\ q.signaled = r.signaled /\ q.spent = r.spent /\ q.broke = r.broke
        /\ q.complete = r.complete /\ q.unheeded = r.unheeded /\ q.iter = r.iter
    BY <1>2 DEF Runs
  <2> HIDE DEF q
  <2>2. Ready(p, q)
    BY <1>2, <2>1, ReadyToo DEF MayGoOn, Ready
  <2> QED
    BY <1>2, <1>8, <2>1, <2>2, JudgedLands DEF q
<1> QED
  BY <1>3, <1>5, <1>6, <1>7, <1>8

\* A claim: only p's own rows, and a prompt too large to send ends the run.
LEMMA ClaimIterates ==
  ASSUME Orderly, NEW p \in Procs, run[p].pc = "select", NEW t \in TasksOf[Prefix(p)],
         NEW s, Kept(p, status, s), Claim(p, t, s),
         UNCHANGED <<lock, files, records, outside>>
  PROVE  Iterated(p)
<1> DEFINE r == [run[p] EXCEPT !.task = t]
           claimed == [s EXCEPT ![t] = "in_progress"]
           big == [r EXCEPT !.snap = "oversize", !.live = "oversize", !.halt = TRUE]
           n == [r EXCEPT !.pc = "agent"]
<1>1. run[p].pc \in InRun
  BY DEF InRun
<1>2. /\ Ready(p, run[p]) /\ run[p] \in Runs /\ run \in [Procs -> Runs] /\ MayGoOn(p, run[p])
      /\ ~run[p].unheeded /\ run[p].iter >= 1
      /\ TasksOf[Prefix(p)] \subseteq Tasks /\ status \in [Tasks -> Statuses]
  BY <1>1, RunIsReady
<1>3. \/ /\ Continue(p, n, claimed)
         /\ watch' = [watch EXCEPT ![p] = NewWatch]
      \/ /\ UNCHANGED watch
         /\ \/ r.flag /\ Finish(p, r, claimed, 130, "signal")
            \/ Heard(p, big, claimed)
  BY DEF Claim
<1>4. /\ r \in Runs /\ r.at = run[p].at /\ r.crashes = run[p].crashes
      /\ r.flag = run[p].flag /\ r.signaled = run[p].signaled /\ r.spent = run[p].spent
      /\ r.broke = run[p].broke /\ r.complete = run[p].complete
      /\ r.unheeded = run[p].unheeded /\ r.iter = run[p].iter /\ r.task = t
  BY <1>2 DEF Runs
<1>5. /\ claimed \in [Tasks -> Statuses]
      /\ \A u \in Tasks : claimed[u] = "in_progress" => u = t \/ status[u] = "in_progress"
      /\ \A u \in Tasks \ TasksOf[Prefix(p)] :
           claimed[u] \in {"todo", "in_progress"} => status[u] \in {"todo", "in_progress"}
  BY DEF Kept, Statuses
<1> HIDE DEF claimed, r
<1>6. Ready(p, r) /\ MayGoOn(p, r) /\ (r.flag => run[p].signaled)
  BY <1>2, <1>4 DEF Ready, CanEnd, MayGoOn
<1>7. CASE Continue(p, n, claimed) /\ watch' = [watch EXCEPT ![p] = NewWatch]
  <2>1. "agent" \in Stages
    BY DEF Stages, InRun
  <2>2. /\ n \in Runs /\ n.pc = "agent" /\ n.at = r.at /\ n.crashes = r.crashes /\ n.flag = r.flag
        /\ n.signaled = r.signaled /\ n.spent = r.spent /\ n.broke = r.broke
        /\ n.complete = r.complete /\ n.unheeded = r.unheeded /\ n.iter = r.iter
        /\ n.task = t
    BY <1>4, <2>1 DEF Runs
  <2> HIDE DEF n
  <2>3. TasksOf[Plan[p][n.at]] = TasksOf[Prefix(p)]
    BY <1>4, <2>2 DEF Prefix
  <2>4. Fit(p, n)
    BY <1>2, <1>4, <1>6, <2>2, <2>3 DEF Fit, Ready, CanEnd, MayGoOn
  <2>5. status' = claimed /\ run' = [run EXCEPT ![p] = n] /\ run'[p].pc = "agent"
    BY <1>2, <1>7, <2>2 DEF Continue
  <2>6. RunFollows(p)
    <3>1. n.at = run[p].at /\ n.pc \in InRun \cup {"closing"} /\ n.pc # "closing"
      BY <1>4, <2>2 DEF InRun
    <3> QED
      BY <2>2, <2>4, <2>5, <3>1 DEF RunFollows
  <2>7. WatchRests(p)
    BY <1>7, NewWatchFits DEF WatchRests
  <2>8. RowsFollow(p)
    BY <1>5, <2>5 DEF RowsFollow
  <2> QED
    BY <1>1, <2>6, <2>7, <2>8 DEF Iterated
<1>8. ASSUME UNCHANGED watch, Lands(p, claimed), run'[p].pc = "closing"
      PROVE  Iterated(p)
  <2>1. WatchRests(p)
    BY <1>8 DEF Orderly, TypeOK, WatchFits, WatchRests
  <2>2. RowsFollow(p)
    BY <1>5, <1>8 DEF Lands, Kept, RowsFollow
  <2>3. RunFollows(p)
    BY <1>8 DEF Lands, Becomes, RunFollows
  <2> QED
    BY <1>1, <2>1, <2>2, <2>3 DEF Iterated
<1>9. CASE UNCHANGED watch /\ r.flag /\ Finish(p, r, claimed, 130, "signal")
  BY <1>2, <1>5, <1>6, <1>8, <1>9, FinishLands DEF Reasons
<1>10. CASE UNCHANGED watch /\ Heard(p, big, claimed)
  <2>1. "oversize" \in Outcomes
    BY DEF Outcomes
  <2>2. /\ big \in Runs /\ big.at = r.at /\ big.crashes = r.crashes /\ big.flag = r.flag
        /\ big.signaled = r.signaled /\ big.spent = r.spent /\ big.broke = r.broke
        /\ big.complete = r.complete /\ big.unheeded = r.unheeded /\ big.iter = r.iter
        /\ big.snap = "oversize" /\ big.live = "oversize" /\ big.halt = TRUE
    BY <1>4, <2>1 DEF Runs
  <2> HIDE DEF big
  <2>3. Ready(p, big)
    BY <1>6, <2>2, ReadyToo
  <2> QED
    BY <1>2, <1>4, <1>5, <1>8, <1>10, <2>2, <2>3, HeardLands
<1> QED
  BY <1>3, <1>7, <1>9, <1>10

LEMMA SelectIterates ==
  ASSUME Orderly, NEW p \in Procs, Select(p)
  PROVE  Iterated(p)
<1> DEFINE P == Prefix(p)
           s == Recovered(P, status)
           q == [Unclaimed(run[p]) EXCEPT !.snap = "silent", !.live = "silent"]
<1>1. /\ run[p].pc = "select" /\ run[p].pc \in InRun
      /\ UNCHANGED <<lock, files, records, outside>>
  BY DEF Select, InRun
<1>2. /\ Ready(p, run[p]) /\ run[p] \in Runs /\ run \in [Procs -> Runs] /\ MayGoOn(p, run[p])
      /\ ~run[p].unheeded /\ run[p].iter >= 1
      /\ P \in Prefixes /\ TasksOf[P] \subseteq Tasks /\ status \in [Tasks -> Statuses]
  BY <1>1, RunIsReady
<1>3. Kept(p, status, status) /\ Kept(p, status, s) /\ s \in [Tasks -> Statuses]
  BY <1>2, Recovery DEF Kept
<1>4. \/ \E t \in TasksOf[P], z \in {status, s} : Claim(p, t, z)
      \/ /\ UNCHANGED watch
         /\ \/ /\ \A t \in TasksOf[P] : status[t] = "done"
               /\ Finish(p, Unclaimed(run[p]), status, 0, "complete")
            \/ Settled(p, q, s)
  <2>1. \A x, blackout, rungs : Eligible(P, x, blackout, rungs) \subseteq TasksOf[P]
    BY DEF Eligible, Todo
  <2> HIDE DEF P, s, q
  <2>2. PICK blackout \in Unexpired(run[p].blackout), rungs \in Unexpired(run[p].rungs) :
          \/ \E t \in Eligible(P, status, blackout, rungs) : Claim(p, t, status)
          \/ \E t \in Eligible(P, s, blackout, rungs) : Claim(p, t, s)
          \/ /\ UNCHANGED watch
             /\ \/ /\ \A t \in TasksOf[P] : status[t] = "done"
                   /\ Finish(p, Unclaimed(run[p]), status, 0, "complete")
                \/ Settled(p, q, s)
    BY DEF Select, P, s, q
  <2> QED
    BY <2>1, <2>2
<1> HIDE DEF P, s
<1>5. ASSUME NEW t \in TasksOf[P], NEW z \in {status, s}, Claim(p, t, z)
      PROVE  Iterated(p)
  BY <1>1, <1>3, <1>5, ClaimIterates DEF P
<1>6. ASSUME UNCHANGED watch, Lands(p, status) PROVE Iterated(p)
  BY <1>1, <1>6, LandsIterates
<1>7. CASE /\ UNCHANGED watch
           /\ \A t \in TasksOf[P] : status[t] = "done"
           /\ Finish(p, Unclaimed(run[p]), status, 0, "complete")
  <2>1. Open(Prefix(p), status) = {}
    BY <1>7 DEF Open, P
  <2> QED
    BY <1>2, <1>6, <1>7, <2>1, UnclaimedIsReady, FinishLands DEF Reasons
<1>8. CASE UNCHANGED watch /\ Settled(p, q, s)
  <2> DEFINE u == Unclaimed(run[p])
  <2>1. /\ Ready(p, u) /\ MayGoOn(p, u) /\ u.iter = run[p].iter /\ ~u.unheeded
    BY <1>2, UnclaimedIsReady
  <2>2. u \in Runs /\ "silent" \in Outcomes
    BY <2>1 DEF Ready, CanEnd, Outcomes, AgentOutcomes
  <2> HIDE DEF u
  <2>3. q = [u EXCEPT !.snap = "silent", !.live = "silent"]
    BY DEF u
  <2> HIDE DEF q
  <2>4. /\ q \in Runs /\ q.at = u.at /\ q.crashes = u.crashes /\ q.flag = u.flag
        /\ q.signaled = u.signaled /\ q.spent = u.spent /\ q.broke = u.broke
        /\ q.complete = u.complete /\ q.unheeded = u.unheeded /\ q.iter = u.iter
    BY <2>2, <2>3 DEF Runs
  <2>5. Ready(p, q)
    BY <2>1, <2>4, ReadyToo DEF MayGoOn
  <2>6. Lands(p, s)
    BY <1>2, <1>3, <1>8, <2>1, <2>4, <2>5, SettledLands
  <2> QED
    BY <1>3, <1>6, <1>8, <2>6, KeptTwice
<1> QED
  BY <1>4, <1>5, <1>7, <1>8

\* What an agent has said is in hand when the pipeline starts.
Said(p, out) ==
  [run[p] EXCEPT !.snap = out, !.live = out, !.crashes = CrashesAfter(run[p], out),
                 !.halt = out \in Failing /\ CrashesAfter(run[p], out) >= MaxCrashes,
                 !.unheeded = out = "rate_limit"]

LEMMA SaidIsReady ==
  ASSUME Orderly, NEW p \in Procs, run[p].pc = "agent", NEW out \in AgentOutcomes
  PROVE  LET x == Said(p, out) IN
         /\ Ready(p, x) /\ x.iter >= 1
         /\ x.unheeded => x.snap = "rate_limit"
         /\ x.snap = "rate_limit" => MayGoOn(p, x)
<1> DEFINE x == Said(p, out)
           crashes == CrashesAfter(run[p], out)
<1>0. PICK halt \in BOOLEAN, unheeded \in BOOLEAN :
        /\ x = [run[p] EXCEPT !.snap = out, !.live = out, !.crashes = crashes,
                              !.halt = halt, !.unheeded = unheeded]
        /\ halt <=> out \in Failing /\ crashes >= MaxCrashes
        /\ unheeded <=> out = "rate_limit"
  BY Zenon DEF Said
<1> HIDE DEF x
<1>1. /\ Ready(p, run[p]) /\ run[p] \in Runs /\ MayGoOn(p, run[p]) /\ run[p].iter >= 1
  <2>1. run[p].pc \in InRun
    BY DEF InRun
  <2> QED
    BY <2>1, RunIsReady
<1>2. /\ crashes \in 0 .. MaxCrashes
      /\ crashes < MaxCrashes \/ halt
      /\ out \notin Failing => crashes < MaxCrashes
  <2>1. run[p].crashes \in Nat /\ run[p].crashes < MaxCrashes
    BY <1>1 DEF Runs, MayGoOn
  <2>2. \/ crashes = 0 /\ out \notin Failing
        \/ crashes = run[p].crashes /\ out \notin Failing
        \/ crashes = run[p].crashes + 1 /\ out \in Failing
    BY DEF CrashesAfter, Failing
  <2> HIDE DEF crashes
  <2>3. crashes \in 0 .. MaxCrashes /\ (out \notin Failing => crashes < MaxCrashes)
    BY <2>1, <2>2, Limits
  <2>4. out \in Failing /\ ~(crashes < MaxCrashes) => crashes >= MaxCrashes
    BY <1>0, <2>3, Limits
  <2> QED
    BY <1>0, <2>3, <2>4
<1> HIDE DEF crashes
<1>3. out \in Outcomes
  BY DEF Outcomes
<1>4. x \in Runs
  <2> DEFINE y == [run[p] EXCEPT !.snap = out, !.live = out, !.crashes = crashes]
  <2>1. y \in Runs
    BY <1>1, <1>2, <1>3 DEF Runs
  <2>2. x = [y EXCEPT !.halt = halt, !.unheeded = unheeded]
    BY <1>0
  <2> HIDE DEF y
  <2>3. halt \in BOOLEAN /\ unheeded \in BOOLEAN
    BY <1>0
  <2>4. [y EXCEPT !.halt = halt] \in Runs
    BY <2>1, <2>3 DEF Runs
  <2>5. \A r \in Runs : [r EXCEPT !.unheeded = unheeded] \in Runs
    BY <2>3 DEF Runs
  <2> QED
    BY <2>2, <2>4, <2>5
<1>5. /\ x.at = run[p].at /\ x.crashes = crashes /\ x.flag = run[p].flag
      /\ x.signaled = run[p].signaled /\ x.spent = run[p].spent
      /\ x.broke = run[p].broke /\ x.complete = run[p].complete
  BY <1>0, <1>1 DEF Runs
<1>6. /\ x.unheeded = unheeded /\ x.iter = run[p].iter /\ x.halt = halt
      /\ x.live = out /\ x.snap = out
  BY <1>0, <1>1 DEF Runs
<1>7. halt => x.live \notin {"silent", "transient"}
  BY <1>0, <1>6 DEF Failing
<1>8. Ready(p, x)
  <2>1. MayGoOn(p, x) \/ (x.halt /\ x.live \notin {"silent", "transient"})
    BY <1>1, <1>2, <1>5, <1>6, <1>7 DEF MayGoOn
  <2> QED
    BY <1>1, <1>4, <1>5, <2>1, ReadyToo
<1> QED
  BY <1>0, <1>1, <1>2, <1>5, <1>6, <1>8 DEF MayGoOn, Failing, x

\* The rungs of the ladder put the row of the agent's task back, or park it.
LEMMA LadderedKept ==
  ASSUME Orderly, NEW p \in Procs, run[p].pc = "agent", NEW out,
         NEW s \in Laddered(run[p].task, out)
  PROVE  Kept(p, status, s) /\ s \in [Tasks -> Statuses]
<1>1. run[p].task \in TasksOf[Prefix(p)] /\ status \in [Tasks -> Statuses]
  BY DEF Orderly, TypeOK, Fit, Prefix
<1>2. s = status \/ \E new \in {"todo", "blocked"} : s = [status EXCEPT ![run[p].task] = new]
  BY DEF Laddered
<1> QED
  BY <1>1, <1>2 DEF Kept, Statuses

\* An agent that was taken for signalled was signalled from outside, or its loop was.
LEMMA SignalIsReal ==
  ASSUME Orderly, NEW p \in Procs, run[p].pc = "agent",
         NEW terminated \in {FALSE, watch[p].killer # "nobody"},
         run[p].flag \/ (watch[p].killer # "deadline" /\ MeansSignal(watch[p], terminated))
  PROVE  run[p].signaled
<1>1. Fit(p, run[p]) /\ WatchFits(p) /\ watch[p].killer \in Killers
  BY DEF Orderly, TypeOK, Watches
<1>2. CASE run[p].flag
  BY <1>1, <1>2 DEF Fit
<1>3. CASE watch[p].killer # "deadline" /\ MeansSignal(watch[p], terminated)
  <2>1. watch[p].killer \in {"signal", "outside"}
    BY <1>1, <1>3 DEF MeansSignal, Killers
  <2> QED
    BY <1>1, <2>1 DEF WatchFits, Fit
<1> QED
  BY <1>2, <1>3

LEMMA AgentEndsIterates ==
  ASSUME Orderly, NEW p \in Procs, AgentEnds(p)
  PROVE  Iterated(p)
<1>1. /\ run[p].pc = "agent" /\ run[p].pc \in InRun
      /\ watch' = [watch EXCEPT ![p] = NewWatch]
      /\ UNCHANGED <<lock, files, records, outside>>
  BY DEF AgentEnds, InRun
<1> SUFFICES Lands(p, status)
  BY <1>1, LandsIterates
<1>2. /\ Ready(p, run[p]) /\ run[p] \in Runs /\ run \in [Procs -> Runs] /\ MayGoOn(p, run[p])
      /\ ~run[p].unheeded /\ run[p].iter >= 1 /\ status \in [Tasks -> Statuses]
  BY <1>1, RunIsReady
<1> DEFINE overdue == [run[p] EXCEPT !.snap = "crash", !.live = "crash"]
<1>3. \/ run[p].signaled /\ Finish(p, run[p], status, 130, "signal")
      \/ Heard(p, overdue, status)
      \/ \E out \in AgentsOf[p] : \E s \in Laddered(run[p].task, out) : Heard(p, Said(p, out), s)
      \/ Finish(p, run[p], status, 1, "error")
  <2> HIDE DEF overdue
  <2>1. PICK terminated \in {FALSE, watch[p].killer # "nobody"} :
          \/ /\ run[p].flag \/ (watch[p].killer # "deadline" /\ MeansSignal(watch[p], terminated))
             /\ Finish(p, run[p], status, 130, "signal")
          \/ Heard(p, overdue, status)
          \/ \E out \in AgentsOf[p] :
               \E s \in Laddered(run[p].task, out) : Heard(p, Said(p, out), s)
          \/ Finish(p, run[p], status, 1, "error")
    BY Zenon DEF AgentEnds, overdue, Said
  <2> QED
    BY <1>1, <2>1, SignalIsReal
<1>4. CASE \/ run[p].signaled /\ Finish(p, run[p], status, 130, "signal")
           \/ Finish(p, run[p], status, 1, "error")
  BY <1>2, <1>4, FinishLands DEF Reasons
<1>5. CASE Heard(p, overdue, status)
  <2>1. "crash" \in Outcomes
    BY DEF Outcomes, AgentOutcomes
  <2>2. /\ overdue \in Runs /\ overdue.at = run[p].at /\ overdue.crashes = run[p].crashes
        /\ overdue.flag = run[p].flag /\ overdue.signaled = run[p].signaled
        /\ overdue.spent = run[p].spent /\ overdue.broke = run[p].broke
        /\ overdue.complete = run[p].complete /\ overdue.unheeded = run[p].unheeded
        /\ overdue.iter = run[p].iter /\ overdue.snap = "crash"
    BY <1>2, <2>1 DEF Runs
  <2> HIDE DEF overdue
  <2>3. Ready(p, overdue)
    BY <1>2, <2>2, ReadyToo DEF MayGoOn
  <2> QED
    BY <1>2, <1>5, <2>2, <2>3, HeardLands
<1>6. ASSUME NEW out \in AgentsOf[p], NEW s \in Laddered(run[p].task, out),
             Heard(p, Said(p, out), s)
      PROVE  Lands(p, status)
  <2>1. out \in AgentOutcomes
    BY AgentsAssumption DEF AgentsAssumption
  <2>2. /\ Ready(p, Said(p, out)) /\ Said(p, out).iter >= 1
        /\ Said(p, out).unheeded => Said(p, out).snap = "rate_limit"
        /\ Said(p, out).snap = "rate_limit" => MayGoOn(p, Said(p, out))
    BY <1>1, <2>1, SaidIsReady
  <2>3. Kept(p, status, s) /\ s \in [Tasks -> Statuses]
    BY <1>1, LadderedKept
  <2> QED
    BY <1>2, <1>6, <2>2, <2>3, HeardLands, KeptTwice
<1> QED
  BY <1>3, <1>4, <1>5, <1>6

-----------------------------------------------------------------------------
(* Every step keeps the order.                                             *)

\* A step of p that changes p's state and watch only.
LEMMA FitsKept ==
  ASSUME Orderly, NEW p \in Procs, NEW r, Fit(p, r), run' = [run EXCEPT ![p] = r],
         NEW w \in Watches, watch' = [watch EXCEPT ![p] = w], chain' = chain,
         r.pc # "agent" => w.killer = "nobody",
         w.killer = "signal" => r.flag, w.killer = "outside" => r.signaled
  PROVE  /\ run' \in [Procs -> Runs] /\ watch' \in [Procs -> Watches]
         /\ \A q \in Procs : Fit(q, run[q])' /\ WatchFits(q)'
<1>1. run \in [Procs -> Runs] /\ watch \in [Procs -> Watches] /\ r \in Runs
  BY DEF Orderly, TypeOK, Fit
<1>2. run' \in [Procs -> Runs] /\ watch' \in [Procs -> Watches]
  BY <1>1
<1>3. ASSUME NEW q \in Procs PROVE Fit(q, run[q])' /\ WatchFits(q)'
  <2>1. CASE q = p
    <3>1. run'[q] = r /\ watch'[q] = w
      BY <1>1, <2>1
    <3>2. Fit(q, r)'
      BY <2>1 DEF Fit
    <3> QED
      BY <3>1, <3>2 DEF Fit, WatchFits
  <2>2. CASE q # p
    <3>1. run'[q] = run[q] /\ watch'[q] = watch[q]
      BY <1>1, <2>2
    <3>2. Fit(q, run[q]) /\ WatchFits(q)
      BY DEF Orderly
    <3> QED
      BY <3>1, <3>2 DEF Fit, WatchFits
  <2> QED
    BY <2>1, <2>2
<1> QED
  BY <1>2, <1>3

\* p keeps the lock it has, and takes none.
LEMMA LocksKept ==
  ASSUME Orderly, NEW p \in Procs, NEW r, run' = [run EXCEPT ![p] = r], lock' = lock,
         run[p].pc \in Holding \cup {"decide"} =>
           r.pc \in Holding \cup {"decide"} /\ r.at = run[p].at,
         r.pc \in Holding \/ r.complete => run[p].pc \in Holding \/ run[p].complete
  PROVE  LocksFit'
<1>1. run \in [Procs -> Runs] /\ lock \in [Prefixes -> Procs \cup {NoProc}]
  BY DEF Orderly, TypeOK
<1>2. run'[p] = r /\ \A q \in Procs \ {p} : run'[q] = run[q]
  BY <1>1
<1>3. run[p].complete => run[p].pc \in Holding \cup {"decide"}
  BY DEF Orderly, Fit, Holding
<1>4. ASSUME NEW P \in Prefixes, lock[P] # NoProc
      PROVE  run'[lock[P]].pc \in Holding \cup {"decide"} /\ Prefix(lock[P])' = P
  <2>1. lock[P] \in Procs /\ run[lock[P]].pc \in Holding \cup {"decide"} /\ Prefix(lock[P]) = P
    BY <1>1, <1>4 DEF Orderly, LocksFit
  <2> QED
    BY <1>2, <2>1 DEF Prefix
<1>5. ASSUME NEW q \in Procs, run'[q].pc \in Holding \/ run'[q].complete
      PROVE  lock[Prefix(q)'] = q
  <2>1. run[q].pc \in Holding \/ run[q].complete
    BY <1>2, <1>5
  <2>2. Prefix(q)' = Prefix(q)
    BY <1>2, <1>3, <2>1 DEF Prefix
  <2> QED
    BY <2>1, <2>2 DEF Orderly, LocksFit
<1> QED
  BY <1>4, <1>5 DEF LocksFit

\* Nobody stops listening for a stop file.
Listening == InRun \cup {"record", "closing"}

LEMMA StopsKept ==
  ASSUME Orderly, NEW p \in Procs, NEW r, run' = [run EXCEPT ![p] = r], lock' = lock,
         run[p].pc \in Listening => r.pc \in Listening,
         UNCHANGED <<stopPrefix, late>>
  PROVE  StopsHeard'
<1>1. run \in [Procs -> Runs] /\ lock \in [Prefixes -> Procs \cup {NoProc}]
      /\ stopPrefix \subseteq Prefixes
  BY DEF Orderly, TypeOK
<1>2. run'[p] = r /\ \A q \in Procs \ {p} : run'[q] = run[q]
  BY <1>1
<1>3. ASSUME NEW P \in stopPrefix, P \notin late PROVE Hearing(P)'
  <2>1. Hearing(P) /\ lock[P] \in Procs
    BY <1>1, <1>3 DEF Orderly, StopsHeard, Hearing
  <2> QED
    BY <1>2, <2>1 DEF Hearing, Listening
<1> QED
  BY <1>3 DEF StopsHeard

LEMMA IteratedOrderly ==
  ASSUME Orderly, NEW p \in Procs, Iterated(p)
  PROVE  Orderly'
<1>1. PICK r \in Runs : /\ run' = [run EXCEPT ![p] = r]
                        /\ Fit(p, r) /\ r.at = run[p].at
                        /\ r.pc \in InRun \cup {"closing"}
  BY DEF Iterated, RunFollows
<1>2. PICK w \in Watches : watch' = [watch EXCEPT ![p] = w] /\ w.killer = "nobody"
  BY DEF Iterated, WatchRests
<1>3. /\ run[p].pc \in InRun /\ UNCHANGED <<lock, files, records, outside>>
      /\ UNCHANGED <<stopGlobal, stopPrefix, loopRecord, batchRecord>>
      /\ UNCHANGED <<chain, cli, late, disturbed>>
      /\ status' \in [Tasks -> Statuses]
  BY DEF Iterated, RowsFollow, files, records, outside
<1>4. /\ run' \in [Procs -> Runs] /\ watch' \in [Procs -> Watches]
      /\ \A q \in Procs : Fit(q, run[q])' /\ WatchFits(q)'
  BY <1>1, <1>2, <1>3, FitsKept
<1>5. r.pc \in Holding /\ run[p].pc \in Holding /\ r.pc \in Listening
  BY <1>1, <1>3 DEF Holding, Listening
<1>6. LocksFit'
  BY <1>1, <1>3, <1>5, LocksKept
<1>7. StopsHeard'
  BY <1>1, <1>3, <1>5, StopsKept
<1>8. TypeOK'
  BY <1>3, <1>4 DEF Orderly, TypeOK
<1> QED
  BY <1>4, <1>6, <1>7, <1>8 DEF Orderly

\* The state of a process outside its iterations that goes to another stage.
LEMMA MovesFit ==
  ASSUME Orderly, NEW p \in Procs, run[p].pc \notin InRun, NEW r \in Runs,
         r.pc \in {"check", "lock", "record", "head", "cleaned", "decide"},
         r.pc \in {"cleaned", "decide"} \/ run[p].pc \notin {"closing", "cleaned", "decide"},
         r.pc = "check" \/ run[p].at <= Len(Plan[p]),
         r.at = run[p].at, r.crashes = run[p].crashes, r.flag = run[p].flag,
         r.signaled = run[p].signaled, r.spent = run[p].spent, r.broke = run[p].broke,
         r.complete = run[p].complete, r.unheeded = run[p].unheeded
  PROVE  Fit(p, r)
<1>1. Fit(p, run[p])
  BY DEF Orderly
<1>2. ~run[p].unheeded
  BY <1>1 DEF Fit, InRun, Waits
<1> QED
  BY <1>1, <1>2 DEF Fit

LEMMA GoesFit ==
  ASSUME Orderly, NEW p \in Procs, run[p].pc \notin InRun,
         NEW stage \in {"check", "lock", "record", "head", "cleaned", "decide"},
         stage \in {"cleaned", "decide"} \/ run[p].pc \notin {"closing", "cleaned", "decide"},
         stage = "check" \/ run[p].at <= Len(Plan[p]), GoTo(p, stage)
  PROVE  \E r : /\ run' = [run EXCEPT ![p] = r] /\ Fit(p, r) /\ r.pc = stage
               /\ r.at = run[p].at /\ r.complete = run[p].complete
               /\ r.flag = run[p].flag /\ r.signaled = run[p].signaled
<1> DEFINE r == [run[p] EXCEPT !.pc = stage]
<1>1. run[p] \in Runs /\ run' = [run EXCEPT ![p] = r]
  BY DEF Orderly, TypeOK, GoTo
<1>2. stage \in Stages
  BY DEF Stages, InRun
<1>3. /\ r \in Runs /\ r.pc = stage /\ r.at = run[p].at /\ r.crashes = run[p].crashes
      /\ r.flag = run[p].flag /\ r.signaled = run[p].signaled /\ r.spent = run[p].spent
      /\ r.broke = run[p].broke /\ r.complete = run[p].complete
      /\ r.unheeded = run[p].unheeded
  BY <1>1, <1>2 DEF Runs
<1> HIDE DEF r
<1>4. Fit(p, r)
  BY <1>3, MovesFit
<1> QED
  BY <1>1, <1>3, <1>4

\* A run that has not begun, or is over.
LEMMA FreshFits ==
  ASSUME NEW p \in Procs, NEW stage \in NotRunning,
         NEW r, r = [FreshRun EXCEPT !.pc = stage]
  PROVE  /\ Fit(p, r) /\ r.pc = stage /\ ~r.complete
         /\ r.pc \notin Holding \cup {"decide", "agent"}
<1>1. stage \in Stages
  BY DEF Stages
<1>2. Len(Plan[p]) >= 1
  BY SessionAssumption DEF SessionAssumption
<1>3. /\ r \in Runs /\ r.pc = stage /\ r.at = FreshRun.at /\ r.crashes = FreshRun.crashes
      /\ r.flag = FreshRun.flag /\ r.broke = FreshRun.broke
      /\ r.complete = FreshRun.complete /\ r.unheeded = FreshRun.unheeded
  BY <1>1, FreshIsRun DEF Runs
<1>4. /\ FreshRun.at = 1 /\ FreshRun.crashes = 0 /\ ~FreshRun.flag /\ ~FreshRun.broke
      /\ ~FreshRun.complete /\ ~FreshRun.unheeded
  BY DEF FreshRun
<1> QED
  BY <1>2, <1>3, <1>4, Limits DEF Fit, NotRunning, Holding, InRun, Waits

\* Whoever was not running and holds no lock goes to a stage without a lock.
LEMMA LaunchOrderly ==
  ASSUME Orderly, NEW p \in Procs, Launch(p)
  PROVE  Orderly'
<1>1. PICK stage \in {"check", "lock"} :
        /\ GoTo(p, stage) /\ batchRecord' \in {batchRecord, p}
        /\ run[p].pc = "off"
        /\ UNCHANGED <<status, lock, stopGlobal, stopPrefix, loopRecord, watch,
                       chain, cli, late, disturbed>>
  BY DEF Launch, files, outside
<1>2. Fit(p, run[p]) /\ WatchFits(p)
      /\ run[p].pc \notin InRun \cup Holding \cup Listening \cup {"decide"}
  BY <1>1 DEF Orderly, InRun, Waits, Holding, Listening
<1>3. PICK r : /\ run' = [run EXCEPT ![p] = r] /\ Fit(p, r) /\ r.pc = stage
               /\ r.at = run[p].at /\ r.complete = run[p].complete
               /\ r.flag = run[p].flag /\ r.signaled = run[p].signaled
  <2>1. run[p].at <= Len(Plan[p])
    BY <1>1, <1>2 DEF Fit
  <2> QED
    BY <1>1, <1>2, <2>1, GoesFit
<1>4. watch' = [watch EXCEPT ![p] = watch[p]] /\ watch[p] \in Watches
      /\ watch[p].killer = "nobody"
  BY <1>1, <1>2 DEF Orderly, TypeOK, WatchFits
<1>5. /\ run' \in [Procs -> Runs] /\ watch' \in [Procs -> Watches]
      /\ \A q \in Procs : Fit(q, run[q])' /\ WatchFits(q)'
  BY <1>1, <1>3, <1>4, FitsKept
<1>6. LocksFit'
  <2>1. r.pc \notin Holding
    BY <1>3 DEF Holding, InRun, Waits
  <2> QED
    BY <1>1, <1>2, <1>3, <2>1, LocksKept
<1>7. StopsHeard'
  BY <1>1, <1>2, <1>3, StopsKept
<1>8. TypeOK'
  BY <1>1, <1>5 DEF Orderly, TypeOK
<1> QED
  BY <1>5, <1>6, <1>7, <1>8 DEF Orderly

LEMMA BatchCheckOrderly ==
  ASSUME Orderly, NEW p \in Procs, BatchCheck(p)
  PROVE  Orderly'
<1>1. /\ run[p].pc = "check"
      /\ UNCHANGED <<status, lock, stopPrefix, loopRecord, watch, chain, cli, late, disturbed>>
      /\ stopGlobal' \in {stopGlobal, FALSE} /\ batchRecord' \in {batchRecord, NoProc}
  BY DEF BatchCheck, EndBatch, outside
<1>2. Fit(p, run[p]) /\ WatchFits(p)
      /\ run[p].pc \notin InRun \cup Holding \cup Listening \cup {"decide"}
  BY <1>1 DEF Orderly, InRun, Waits, Holding, Listening
<1>3. PICK r : /\ run' = [run EXCEPT ![p] = r] /\ Fit(p, r) /\ r.pc \in {"over", "lock"}
  <2>1. CASE run[p].at <= Len(Plan[p]) /\ GoTo(p, "lock")
    BY <1>1, <1>2, <2>1, GoesFit
  <2>2. CASE Over(p)
    BY <2>2, FreshFits DEF Over, NotRunning
  <2> QED
    BY <2>1, <2>2 DEF BatchCheck, EndBatch
<1>4. watch' = [watch EXCEPT ![p] = watch[p]] /\ watch[p] \in Watches
      /\ watch[p].killer = "nobody"
  BY <1>1, <1>2 DEF Orderly, TypeOK, WatchFits
<1>5. /\ run' \in [Procs -> Runs] /\ watch' \in [Procs -> Watches]
      /\ \A q \in Procs : Fit(q, run[q])' /\ WatchFits(q)'
  BY <1>1, <1>3, <1>4, FitsKept
<1>6. LocksFit'
  <2>1. r.pc \notin Holding /\ ~r.complete
    BY <1>3 DEF Holding, InRun, Waits, Fit
  <2> QED
    BY <1>1, <1>2, <1>3, <2>1, LocksKept
<1>7. StopsHeard'
  BY <1>1, <1>2, <1>3, StopsKept
<1>8. TypeOK'
  BY <1>1, <1>5 DEF Orderly, TypeOK
<1> QED
  BY <1>5, <1>6, <1>7, <1>8 DEF Orderly

\* The watch of a process without an agent.
LEMMA WatchStays ==
  ASSUME Orderly, NEW p \in Procs, run[p].pc # "agent", UNCHANGED watch
  PROVE  /\ watch' = [watch EXCEPT ![p] = watch[p]] /\ watch[p] \in Watches
         /\ watch[p].killer = "nobody"
BY DEF Orderly, TypeOK, WatchFits

\* A lock that is taken makes its taker the one who looks at the stop file.
LEMMA TakeLockOrderly ==
  ASSUME Orderly, NEW p \in Procs, TakeLock(p)
  PROVE  Orderly'
<1> DEFINE P == Prefix(p)
<1>1. /\ run[p].pc = "lock"
      /\ UNCHANGED <<stopGlobal, stopPrefix, loopRecord, batchRecord, watch,
                     chain, cli, late, disturbed>>
  BY DEF TakeLock, files, records, outside
<1>2. Fit(p, run[p]) /\ WatchFits(p) /\ run \in [Procs -> Runs]
      /\ run[p].pc \notin InRun \cup Holding \cup Listening \cup {"closing", "cleaned", "decide"}
      /\ lock \in [Prefixes -> Procs \cup {NoProc}] /\ status \in [Tasks -> Statuses]
  BY <1>1 DEF Orderly, TypeOK, InRun, Waits, Holding, Listening
<1>3. P \in Prefixes /\ run[p].at <= Len(Plan[p])
  BY <1>1, <1>2, PrefixIsOne DEF Fit, Runs
<1>4. /\ watch' = [watch EXCEPT ![p] = watch[p]] /\ watch[p] \in Watches
      /\ watch[p].killer = "nobody"
  BY <1>1, WatchStays
<1>5. CASE /\ lock[P] = NoProc /\ lock' = [lock EXCEPT ![P] = p]
           /\ status' = Recovered(P, status) /\ GoTo(p, "record")
  <2>1. PICK r : /\ run' = [run EXCEPT ![p] = r] /\ Fit(p, r) /\ r.pc = "record"
                 /\ r.at = run[p].at /\ r.complete = run[p].complete
                 /\ r.flag = run[p].flag /\ r.signaled = run[p].signaled
    BY <1>2, <1>3, <1>5, GoesFit
  <2>2. /\ run' \in [Procs -> Runs] /\ watch' \in [Procs -> Watches]
        /\ \A q \in Procs : Fit(q, run[q])' /\ WatchFits(q)'
    BY <1>1, <1>4, <2>1, FitsKept
  <2>3. run'[p] = r /\ \A q \in Procs \ {p} : run'[q] = run[q]
    BY <1>2, <2>1
  <2>4. \A q \in Procs : Prefix(q)' = Prefix(q)
    BY <2>1, <2>3 DEF Prefix
  <2>5. p # NoProc
    BY Limits
  <2>6. ASSUME NEW Q \in Prefixes, lock'[Q] # NoProc
        PROVE  run'[lock'[Q]].pc \in Holding \cup {"decide"} /\ Prefix(lock[Q])' = Q
    <3>1. CASE Q = P
      <4>1. lock'[Q] = p /\ Prefix(p)' = P
        BY <1>2, <1>3, <1>5, <2>4, <3>1
      <4> QED
        BY <2>1, <2>3, <3>1, <4>1 DEF Holding, Prefix
    <3>2. CASE Q # P
      <4>1. lock'[Q] = lock[Q]
        BY <1>2, <1>3, <1>5, <3>2
      <4>2. /\ lock[Q] \in Procs /\ run[lock[Q]].pc \in Holding \cup {"decide"}
            /\ Prefix(lock[Q]) = Q
        BY <1>2, <2>6, <4>1 DEF Orderly, LocksFit
      <4>3. lock[Q] # p
        BY <3>2, <4>2
      <4> QED
        BY <2>3, <4>1, <4>2, <4>3 DEF Prefix
    <3> QED
      BY <3>1, <3>2
  <2>7. ASSUME NEW q \in Procs, run'[q].pc \in Holding \/ run'[q].complete
        PROVE  lock'[Prefix(q)'] = q
    <3>1. CASE q = p
      BY <1>2, <1>3, <1>5, <2>4, <3>1
    <3>2. CASE q # p
      <4>1. lock[Prefix(q)] = q /\ Prefix(q)' = Prefix(q)
        BY <2>3, <2>4, <2>7, <3>2 DEF Orderly, LocksFit
      <4>2. q # NoProc
        BY Limits
      <4> QED
        BY <1>2, <1>3, <1>5, <4>1, <4>2
    <3> QED
      BY <3>1, <3>2
  <2>8. LocksFit'
    BY <2>6, <2>7 DEF LocksFit
  <2>9. ASSUME NEW Q \in stopPrefix, Q \notin late
        PROVE  Hearing(Q)'
    <3>1. lock[Q] # NoProc /\ run[lock[Q]].pc \in Listening /\ Q \in Prefixes
      BY <2>9 DEF Orderly, TypeOK, StopsHeard, Hearing, Listening
    <3>2. lock'[Q] = lock[Q] /\ lock[Q] \in Procs /\ lock[Q] # p
      BY <1>2, <1>3, <1>5, <3>1
    <3> QED
      BY <2>3, <3>1, <3>2 DEF Hearing, Listening
  <2>10. StopsHeard'
    BY <1>1, <2>9 DEF StopsHeard
  <2>11. status' \in [Tasks -> Statuses] /\ lock' \in [Prefixes -> Procs \cup {NoProc}]
    BY <1>2, <1>3, <1>5, Recovery
  <2>12. TypeOK'
    BY <1>1, <2>2, <2>11 DEF Orderly, TypeOK
  <2> QED
    BY <2>2, <2>8, <2>10, <2>12 DEF Orderly
<1>6. CASE /\ run' = [run EXCEPT ![p] = [@ EXCEPT !.pc = "decide", !.code = 1,
                                                  !.rungs = FALSE]]
           /\ UNCHANGED <<lock, status>>
  <2> DEFINE r == [run[p] EXCEPT !.pc = "decide", !.code = 1, !.rungs = FALSE]
  <2>1. run' = [run EXCEPT ![p] = r]
    BY <1>2, <1>6
  <2>2. "decide" \in Stages
    BY DEF Stages
  <2>3. /\ r \in Runs /\ r.pc = "decide" /\ r.at = run[p].at /\ r.crashes = run[p].crashes
        /\ r.flag = run[p].flag /\ r.signaled = run[p].signaled /\ r.spent = run[p].spent
        /\ r.broke = run[p].broke /\ r.complete = run[p].complete
        /\ r.unheeded = run[p].unheeded
    <3>1. run[p] \in Runs
      BY <1>2
    <3>2. r \in Runs
      BY <2>2, <3>1 DEF Runs
    <3>3. /\ r.pc = "decide" /\ r.at = run[p].at /\ r.crashes = run[p].crashes
          /\ r.flag = run[p].flag /\ r.signaled = run[p].signaled
      BY <3>1 DEF Runs
    <3>4. /\ r.spent = run[p].spent /\ r.broke = run[p].broke
          /\ r.complete = run[p].complete /\ r.unheeded = run[p].unheeded
      BY <3>1 DEF Runs
    <3> QED
      BY <3>2, <3>3, <3>4
  <2> HIDE DEF r
  <2>4. Fit(p, r)
    BY <1>2, <1>3, <2>3, MovesFit
  <2>5. /\ run' \in [Procs -> Runs] /\ watch' \in [Procs -> Watches]
        /\ \A q \in Procs : Fit(q, run[q])' /\ WatchFits(q)'
    BY <1>1, <1>4, <2>1, <2>3, <2>4, FitsKept
  <2>6. LocksFit'
    <3>1. r.pc \notin Holding
      BY <2>3 DEF Holding, InRun, Waits
    <3>2. run[p].pc \notin Holding \cup {"decide"}
      BY <1>2
    <3>3. lock' = lock
      BY <1>6
    <3> QED
      BY <2>1, <2>3, <3>1, <3>2, <3>3, LocksKept
  <2>7. StopsHeard'
    BY <1>1, <1>2, <1>6, <2>1, StopsKept
  <2>8. TypeOK'
    BY <1>1, <1>6, <2>5 DEF Orderly, TypeOK
  <2> QED
    BY <2>5, <2>6, <2>7, <2>8 DEF Orderly
<1> QED
  BY <1>5, <1>6 DEF TakeLock, Free

\* The record is written before the first iteration, and dropped after the last.
LEMMA RecordsOrderly ==
  ASSUME Orderly, NEW p \in Procs, WriteRecord(p) \/ DropRecord(p)
  PROVE  Orderly'
<1>1. PICK stage \in {"head", "decide"}, owner \in {p, NoProc} :
        /\ run[p].pc = (IF stage = "head" THEN "record" ELSE "cleaned")
        /\ GoTo(p, stage) /\ loopRecord' = [loopRecord EXCEPT ![Prefix(p)] = owner]
        /\ UNCHANGED <<status, lock, stopGlobal, stopPrefix, batchRecord, watch,
                       chain, cli, late, disturbed>>
  BY DEF WriteRecord, DropRecord, files, outside
<1>2. Fit(p, run[p]) /\ run[p].pc \notin InRun \cup {"closing", "agent"}
      /\ run[p].at <= Len(Plan[p])
  BY <1>1 DEF Orderly, InRun, Waits, Fit
<1>3. PICK r : /\ run' = [run EXCEPT ![p] = r] /\ Fit(p, r) /\ r.pc = stage
               /\ r.at = run[p].at /\ r.complete = run[p].complete
               /\ r.flag = run[p].flag /\ r.signaled = run[p].signaled
  BY <1>1, <1>2, GoesFit
<1>4. /\ watch' = [watch EXCEPT ![p] = watch[p]] /\ watch[p] \in Watches
      /\ watch[p].killer = "nobody"
  BY <1>1, <1>2, WatchStays
<1>5. /\ run' \in [Procs -> Runs] /\ watch' \in [Procs -> Watches]
      /\ \A q \in Procs : Fit(q, run[q])' /\ WatchFits(q)'
  BY <1>1, <1>3, <1>4, FitsKept
<1>6. LocksFit'
  <2>1. r.pc \in Holding \cup {"decide"} /\ run[p].pc \in Holding
    BY <1>1, <1>3 DEF Holding, InRun
  <2> QED
    BY <1>1, <1>3, <2>1, LocksKept
<1>7. StopsHeard'
  <2>1. run[p].pc \in Listening => r.pc \in Listening
    BY <1>1, <1>3 DEF Listening, InRun, Waits
  <2> QED
    BY <1>1, <1>3, <2>1, StopsKept
<1>8. loopRecord' \in [Prefixes -> Procs \cup {NoProc}]
  BY <1>1 DEF Orderly, TypeOK
<1>9. TypeOK'
  BY <1>1, <1>5, <1>8 DEF Orderly, TypeOK
<1> QED
  BY <1>5, <1>6, <1>7, <1>9 DEF Orderly

\* The end of a run removes its own stop file, and late forgets it.
LEMMA CleanSignalsOrderly ==
  ASSUME Orderly, NEW p \in Procs, CleanSignals(p)
  PROVE  Orderly'
<1> DEFINE P == Prefix(p)
           r == [run[p] EXCEPT !.pc = "cleaned", !.why = "none"]
<1>1. /\ run[p].pc = "closing" /\ stopGlobal' = FALSE
      /\ stopPrefix' = stopPrefix \ {P} /\ late' = late \ {P}
      /\ UNCHANGED <<status, lock, loopRecord, batchRecord, watch, chain, cli, disturbed>>
  BY DEF CleanSignals, Swept, records
<1>2. Fit(p, run[p]) /\ run[p] \in Runs /\ run \in [Procs -> Runs]
      /\ run[p].pc \notin InRun \cup {"agent"} /\ run[p].at <= Len(Plan[p])
      /\ lock \in [Prefixes -> Procs \cup {NoProc}]
  BY <1>1 DEF Orderly, TypeOK, InRun, Waits, Fit
<1>3. run' = [run EXCEPT ![p] = r]
  BY <1>2 DEF CleanSignals
<1>4. /\ r \in Runs /\ r.pc = "cleaned" /\ r.at = run[p].at /\ r.crashes = run[p].crashes
      /\ r.flag = run[p].flag /\ r.signaled = run[p].signaled /\ r.spent = run[p].spent
      /\ r.broke = run[p].broke /\ r.complete = run[p].complete
      /\ r.unheeded = run[p].unheeded
  <2>1. "cleaned" \in Stages /\ "none" \in Reasons
    BY DEF Stages, Reasons
  <2>2. r \in Runs
    BY <1>2, <2>1 DEF Runs
  <2>3. /\ r.pc = "cleaned" /\ r.at = run[p].at /\ r.crashes = run[p].crashes
        /\ r.flag = run[p].flag /\ r.signaled = run[p].signaled
    BY <1>2 DEF Runs
  <2>4. /\ r.spent = run[p].spent /\ r.broke = run[p].broke
        /\ r.complete = run[p].complete /\ r.unheeded = run[p].unheeded
    BY <1>2 DEF Runs
  <2> QED
    BY <2>2, <2>3, <2>4
<1> HIDE DEF r
<1>5. Fit(p, r)
  BY <1>2, <1>4, MovesFit
<1>6. /\ watch' = [watch EXCEPT ![p] = watch[p]] /\ watch[p] \in Watches
      /\ watch[p].killer = "nobody"
  BY <1>1, WatchStays
<1>7. /\ run' \in [Procs -> Runs] /\ watch' \in [Procs -> Watches]
      /\ \A q \in Procs : Fit(q, run[q])' /\ WatchFits(q)'
  BY <1>1, <1>3, <1>5, <1>6, FitsKept
<1>8. run[p].pc \in Holding /\ r.pc \in Holding
  BY <1>1, <1>4 DEF Holding
<1>9. LocksFit'
  BY <1>1, <1>3, <1>4, <1>8, LocksKept
<1>10. StopsHeard'
  <2>1. run'[p] = r /\ \A q \in Procs \ {p} : run'[q] = run[q]
    BY <1>2, <1>3
  <2>2. ASSUME NEW Q \in stopPrefix, Q # P, Q \notin late PROVE Hearing(Q)'
    <3>1. lock[Q] # NoProc /\ run[lock[Q]].pc \in Listening /\ Q \in Prefixes
      BY <2>2 DEF Orderly, TypeOK, StopsHeard, Hearing, Listening
    <3>2. lock[Q] \in Procs /\ lock[Q] # p /\ lock' = lock
      BY <1>1, <1>2, <2>2, <3>1 DEF Orderly, LocksFit
    <3> QED
      BY <2>1, <3>1, <3>2 DEF Hearing, Listening
  <2> QED
    BY <1>1, <2>2 DEF StopsHeard
<1>11. stopPrefix' \subseteq Prefixes /\ late' \subseteq Prefixes
  BY <1>1 DEF Orderly, TypeOK
<1>12. TypeOK'
  BY <1>1, <1>7, <1>11 DEF Orderly, TypeOK
<1> QED
  BY <1>7, <1>9, <1>10, <1>12 DEF Orderly

\* A process that goes gives its lock back.
LEMMA LockReleased ==
  ASSUME Orderly, NEW p \in Procs, NEW r, run' = [run EXCEPT ![p] = r],
         r.pc \notin Holding, ~r.complete,
         lock' = [P \in Prefixes |-> IF lock[P] = p THEN NoProc ELSE lock[P]]
  PROVE  LocksFit' /\ lock' \in [Prefixes -> Procs \cup {NoProc}]
<1>1. run \in [Procs -> Runs] /\ lock \in [Prefixes -> Procs \cup {NoProc}]
  BY DEF Orderly, TypeOK
<1>2. run'[p] = r /\ \A q \in Procs \ {p} : run'[q] = run[q]
  BY <1>1
<1>3. ASSUME NEW P \in Prefixes, lock'[P] # NoProc
      PROVE  run'[lock'[P]].pc \in Holding \cup {"decide"} /\ Prefix(lock[P])' = P
  <2>1. lock'[P] = lock[P] /\ lock[P] \in Procs \ {p}
    BY <1>1, <1>3
  <2>2. run[lock[P]].pc \in Holding \cup {"decide"} /\ Prefix(lock[P]) = P
    BY <2>1, <1>3 DEF Orderly, LocksFit
  <2> QED
    BY <1>2, <2>1, <2>2 DEF Prefix
<1>4. ASSUME NEW q \in Procs, run'[q].pc \in Holding \/ run'[q].complete
      PROVE  lock'[Prefix(q)'] = q
  <2>1. q # p /\ run'[q] = run[q]
    BY <1>2, <1>4
  <2>2. lock[Prefix(q)] = q /\ Prefix(q)' = Prefix(q)
    BY <1>4, <2>1 DEF Orderly, LocksFit, Prefix
  <2>3. Fit(q, run[q]) /\ run[q].pc # "check" /\ run[q] \in Runs
    BY <1>1, <1>4, <2>1 DEF Orderly, Fit, Holding, InRun, Waits
  <2>4. Prefix(q) \in Prefixes
    BY <2>3, PrefixIsOne DEF Fit, Runs
  <2> QED
    BY <2>1, <2>2, <2>4
<1>5. lock' \in [Prefixes -> Procs \cup {NoProc}]
  BY <1>1
<1> QED
  BY <1>3, <1>4, <1>5 DEF LocksFit

\* ... and the stop file it would have looked at is late from then on.
LEMMA StopsReleased ==
  ASSUME Orderly, NEW p \in Procs, NEW r, run' = [run EXCEPT ![p] = r],
         lock' = [P \in Prefixes |-> IF lock[P] = p THEN NoProc ELSE lock[P]],
         stopPrefix' = stopPrefix,
         \A P \in stopPrefix : P \in late \/ (run[p].pc \in Listening /\ lock[P] = p) => P \in late'
  PROVE  StopsHeard'
<1>1. run \in [Procs -> Runs] /\ lock \in [Prefixes -> Procs \cup {NoProc}]
      /\ stopPrefix \subseteq Prefixes
  BY DEF Orderly, TypeOK
<1>2. \A q \in Procs \ {p} : run'[q] = run[q]
  BY <1>1
<1>3. ASSUME NEW P \in stopPrefix, P \notin late' PROVE Hearing(P)'
  <2>1. lock[P] # NoProc /\ run[lock[P]].pc \in Listening
    BY <1>3 DEF Orderly, StopsHeard, Hearing, Listening
  <2>2. lock[P] \in Procs \ {p} /\ lock'[P] = lock[P]
    BY <1>1, <1>3, <2>1
  <2> QED
    BY <1>2, <2>1, <2>2 DEF Hearing, Listening
<1> QED
  BY <1>3 DEF StopsHeard

\* A batch goes on with nothing but its place, its rungs and what it has met.
LEMMA DecidesFit ==
  ASSUME Orderly, NEW p \in Procs, Decide(p)
  PROVE  \E r : /\ run' = [run EXCEPT ![p] = r] /\ Fit(p, r) /\ r.pc \in {"over", "check"}
                /\ ~r.complete /\ ~r.flag
<1>1. run[p].pc = "decide" /\ Fit(p, run[p]) /\ run[p] \in Runs
  BY DEF Orderly, TypeOK, Decide
<1>2. CASE Over(p)
  <2> DEFINE r == [FreshRun EXCEPT !.pc = "over"]
  <2>1. Fit(p, r) /\ r.pc = "over" /\ ~r.complete
    BY FreshFits DEF NotRunning
  <2>2. ~r.flag
    BY DEF FreshRun
  <2> QED
    BY <1>2, <2>1, <2>2 DEF Over
<1>3. CASE /\ GoesOn(p)
           /\ run' = [run EXCEPT ![p] =
                [FreshRun EXCEPT !.pc = "check", !.at = run[p].at + 1,
                                 !.rungs = p \in chain /\ run[p].rungs,
                                 !.broke = run[p].broke]]
  <2>1. PICK rungs \in BOOLEAN :
          run' = [run EXCEPT ![p] =
            [FreshRun EXCEPT !.pc = "check", !.at = run[p].at + 1, !.rungs = rungs,
                             !.broke = run[p].broke]]
    <3>1. (p \in chain /\ run[p].rungs) \in BOOLEAN
      OBVIOUS
    <3> QED
      BY <1>3, <3>1, Zenon
  <2> DEFINE g == [FreshRun EXCEPT !.pc = "check", !.at = run[p].at + 1]
             r == [g EXCEPT !.rungs = rungs, !.broke = run[p].broke]
  <2>2. run' = [run EXCEPT ![p] = r]
    BY <2>1
  <2>3. run[p].at \in Nat /\ run[p].at >= 1 /\ run[p].broke \in BOOLEAN
    BY <1>1 DEF Fit, Runs
  <2>4. "check" \in Stages
    BY DEF Stages
  <2>5. g \in Runs /\ g.pc = "check" /\ g.at = run[p].at + 1
    <3>1. run[p].at + 1 \in Nat
      BY <2>3
    <3>2. g.pc = "check" /\ g.at = run[p].at + 1
      BY DEF FreshRun
    <3>3. \A n \in Nat : [FreshRun EXCEPT !.pc = "check", !.at = n] \in Runs
      BY <2>4, FreshIsRun DEF Runs
    <3> QED
      BY <3>1, <3>2, <3>3
  <2>6. g.crashes = 0 /\ ~g.flag /\ ~g.unheeded /\ ~g.complete
    BY DEF FreshRun
  <2> HIDE DEF g
  <2>7. /\ r \in Runs /\ r.pc = g.pc /\ r.at = g.at /\ r.crashes = g.crashes
        /\ r.flag = g.flag /\ r.unheeded = g.unheeded /\ r.complete = g.complete
        /\ r.broke = run[p].broke
    BY <2>1, <2>3, <2>5 DEF Runs
  <2> HIDE DEF r
  <2>8. ~(p \in chain /\ run[p].broke)
    BY <1>1, <1>3 DEF Fit, GoesOn, ChainGoesOn
  <2>9. Fit(p, r)
    BY <2>3, <2>5, <2>6, <2>7, <2>8, Limits DEF Fit
  <2> QED
    BY <2>2, <2>5, <2>6, <2>7, <2>9
<1> QED
  BY <1>2, <1>3 DEF Decide, EndBatch

LEMMA DecideOrderly ==
  ASSUME Orderly, NEW p \in Procs, Decide(p)
  PROVE  Orderly'
<1>1. PICK r : /\ run' = [run EXCEPT ![p] = r] /\ Fit(p, r) /\ r.pc \in {"over", "check"}
               /\ ~r.complete /\ ~r.flag
  BY DecidesFit
<1>2. /\ run[p].pc = "decide" /\ run[p].pc \notin Listening
      /\ lock' = [P \in Prefixes |-> IF lock[P] = p THEN NoProc ELSE lock[P]]
      /\ batchRecord' \in {batchRecord, NoProc}
      /\ UNCHANGED <<status, stopGlobal, stopPrefix, loopRecord, watch,
                     chain, cli, late, disturbed>>
  BY DEF Decide, EndBatch, files, outside, Listening, InRun, Waits
<1>3. /\ watch' = [watch EXCEPT ![p] = watch[p]] /\ watch[p] \in Watches
      /\ watch[p].killer = "nobody"
  BY <1>2, WatchStays
<1>4. /\ run' \in [Procs -> Runs] /\ watch' \in [Procs -> Watches]
      /\ \A q \in Procs : Fit(q, run[q])' /\ WatchFits(q)'
  BY <1>1, <1>2, <1>3, FitsKept
<1>5. r.pc \notin Holding
  BY <1>1 DEF Holding, InRun, Waits
<1>6. LocksFit' /\ lock' \in [Prefixes -> Procs \cup {NoProc}]
  BY <1>1, <1>2, <1>5, LockReleased
<1>7. StopsHeard'
  BY <1>1, <1>2, StopsReleased
<1>8. TypeOK'
  BY <1>2, <1>4, <1>6 DEF Orderly, TypeOK
<1> QED
  BY <1>4, <1>6, <1>7, <1>8 DEF Orderly

LEMMA Disturbed ==
  ASSUME Orderly, Disturb
  PROVE  disturbed' \in 0 .. MaxDisturbances
BY Limits DEF Orderly, TypeOK, Disturb

LEMMA KillOrderly ==
  ASSUME Orderly, NEW p \in Procs, Kill(p)
  PROVE  Orderly'
<1> DEFINE r == [FreshRun EXCEPT !.pc = "dead"]
<1>1. /\ run' = [run EXCEPT ![p] = r] /\ watch' = [watch EXCEPT ![p] = NewWatch]
      /\ lock' = [P \in Prefixes |-> IF lock[P] = p THEN NoProc ELSE lock[P]]
      /\ late' = late \cup {P \in stopPrefix : lock[P] = p} /\ Disturb
      /\ UNCHANGED <<status, stopGlobal, stopPrefix, loopRecord, batchRecord, chain, cli>>
  BY DEF Kill, files, records
<1>2. Fit(p, r) /\ r.pc \notin Holding \cup {"decide", "agent"} /\ ~r.complete
  BY FreshFits DEF NotRunning
<1> HIDE DEF r
<1>3. /\ run' \in [Procs -> Runs] /\ watch' \in [Procs -> Watches]
      /\ \A q \in Procs : Fit(q, run[q])' /\ WatchFits(q)'
  BY <1>1, <1>2, FitsKept, NewWatchFits
<1>4. LocksFit' /\ lock' \in [Prefixes -> Procs \cup {NoProc}]
  BY <1>1, <1>2, LockReleased
<1>5. StopsHeard'
  BY <1>1, StopsReleased
<1>6. late' \subseteq Prefixes /\ disturbed' \in 0 .. MaxDisturbances
  BY <1>1, Disturbed DEF Orderly, TypeOK
<1>7. TypeOK'
  BY <1>1, <1>3, <1>4, <1>6 DEF Orderly, TypeOK
<1> QED
  BY <1>3, <1>4, <1>5, <1>7 DEF Orderly

-----------------------------------------------------------------------------
(* The watchdog.                                                           *)

LEMMA ExtensionIsNat ==
  ASSUME NEW n \in Nat
  PROVE  Extension(n) \in Nat
<1>1. FirstExtension \in Nat /\ ExtensionDecrement \in Nat
  BY WatchAssumption DEF WatchAssumption
<1>2. PICK m \in Nat : m = n * ExtensionDecrement
  BY <1>1
<1>3. Extension(n) = IF m < FirstExtension THEN FirstExtension - m ELSE 0
  BY <1>2 DEF Extension
<1> QED
  BY <1>1, <1>3

LEMMA ExtendedIsWatch ==
  ASSUME NEW w \in Watches
  PROVE  LET u == Extended(w) IN u \in Watches /\ u.grace = w.grace /\ u.killer = w.killer
<1> DEFINE x == Extension(w.used)
           used == IF w.used < FirstExtension THEN w.used + 1 ELSE w.used
           left == IF w.left + x < BaseTimeout THEN w.left + x ELSE BaseTimeout
<1>1. FirstExtension \in Nat /\ BaseTimeout \in Nat /\ Grace \in Nat
  BY WatchAssumption DEF WatchAssumption
<1>2. w.used \in 0 .. FirstExtension /\ w.left \in 0 .. BaseTimeout
  BY DEF Watches
<1>3. x \in Nat
  BY <1>1, <1>2, ExtensionIsNat
<1>4. Extended(w) = w \/ Extended(w) = [w EXCEPT !.used = used, !.left = left]
  BY DEF Extended
<1> HIDE DEF x
<1>5. used \in 0 .. FirstExtension /\ left \in 0 .. BaseTimeout
  BY <1>1, <1>2, <1>3
<1> HIDE DEF used, left
<1> QED
  BY <1>4, <1>5 DEF Watches

LEMMA PolledIsWatch ==
  ASSUME NEW w \in Watches, w.killer = "nobody",
         NEW flag \in BOOLEAN, NEW active \in BOOLEAN, NEW tagged \in BOOLEAN
  PROVE  LET n == Polled(w, flag, active, tagged) IN
         n \in Watches /\ n.killer # "outside" /\ (n.killer = "signal" => flag)
<1> DEFINE v == IF tagged THEN Armed(w) ELSE w
           u == IF active THEN Extended(v) ELSE v
           n == Polled(w, flag, active, tagged)
<1>1. FirstExtension \in Nat /\ BaseTimeout \in Nat /\ Grace \in Nat
  BY WatchAssumption DEF WatchAssumption
<1>2. Armed(w) \in Watches /\ Armed(w).killer = "nobody"
  BY <1>1 DEF Armed, Watches, Unarmed
<1>3. v \in Watches /\ v.killer = "nobody"
  BY <1>2
<1>4. \/ flag /\ n = Killed("signal")
      \/ n \in {Killed("grace"), Killed("deadline")}
      \/ ~flag /\ v.grace # 0 /\ u.left # 0 /\ n = Tick(u)
  BY DEF Polled
<1> HIDE DEF v, n
<1>5. u \in Watches /\ u.killer = "nobody" /\ u.grace = v.grace
  BY <1>3, ExtendedIsWatch
<1> HIDE DEF u
<1>6. ASSUME NEW killer \in Killers
      PROVE  Killed(killer) \in Watches /\ Killed(killer).killer = killer
  BY NewWatchFits DEF Killed, Watches
<1>7. CASE flag /\ n = Killed("signal")
  BY <1>6, <1>7 DEF Killers, n
<1>8. CASE n \in {Killed("grace"), Killed("deadline")}
  BY <1>6, <1>8 DEF Killers, n
<1>9. CASE v.grace # 0 /\ u.left # 0 /\ n = Tick(u)
  <2>1. u.left - 1 \in 0 .. BaseTimeout
    BY <1>1, <1>5, <1>9 DEF Watches
  <2>2. u.grace = Unarmed \/ u.grace - 1 \in 0 .. Unarmed
    BY <1>1, <1>5, <1>9 DEF Watches, Unarmed
  <2>3. Tick(u) \in Watches /\ Tick(u).killer = "nobody"
    BY <1>5, <2>1, <2>2 DEF Tick, Watches
  <2> QED
    BY <1>9, <2>3 DEF n
<1> QED
  BY <1>4, <1>7, <1>8, <1>9

LEMMA PollOrderly ==
  ASSUME Orderly, NEW p \in Procs, Poll(p)
  PROVE  Orderly'
<1>1. /\ run[p].pc = "agent" /\ watch[p].killer = "nobody"
      /\ UNCHANGED <<status, lock, stopGlobal, stopPrefix, loopRecord, batchRecord, run,
                     chain, cli, late, disturbed>>
  BY DEF Poll, files, records, outside
<1>2. Fit(p, run[p]) /\ run[p] \in Runs /\ watch[p] \in Watches
      /\ run \in [Procs -> Runs] /\ watch \in [Procs -> Watches]
  BY DEF Orderly, TypeOK
<1>3. PICK w \in Watches : /\ watch' = [watch EXCEPT ![p] = w]
                           /\ w.killer # "outside" /\ (w.killer = "signal" => run[p].flag)
  <2>1. PICK active \in BOOLEAN, tagged \in BOOLEAN :
          watch' = [watch EXCEPT ![p] = Polled(watch[p], run[p].flag, active, tagged)]
    BY <1>2 DEF Poll
  <2>2. run[p].flag \in BOOLEAN
    BY <1>2 DEF Runs
  <2> QED
    BY <1>1, <1>2, <2>1, <2>2, PolledIsWatch
<1>4. run' = [run EXCEPT ![p] = run[p]]
  BY <1>1, <1>2
<1>5. /\ run' \in [Procs -> Runs] /\ watch' \in [Procs -> Watches]
      /\ \A q \in Procs : Fit(q, run[q])' /\ WatchFits(q)'
  BY <1>1, <1>2, <1>3, <1>4, FitsKept
<1>6. LocksFit' /\ StopsHeard'
  BY <1>1 DEF Orderly, LocksFit, StopsHeard, Hearing, Prefix
<1>7. TypeOK'
  BY <1>1, <1>5 DEF Orderly, TypeOK
<1> QED
  BY <1>5, <1>6, <1>7 DEF Orderly

\* A signal to the loop, or to its agent alone.
LEMMA SignalOrderly ==
  ASSUME Orderly, NEW p \in Procs, Interrupt(p) \/ Terminate(p)
  PROVE  Orderly'
<1>1. /\ run[p].pc \in InRun /\ Disturb
      /\ UNCHANGED <<status, lock, stopGlobal, stopPrefix, loopRecord, batchRecord,
                     chain, cli, late>>
  BY DEF Interrupt, Terminate, InRun, files, records
<1>2. Fit(p, run[p]) /\ WatchFits(p) /\ run[p] \in Runs /\ watch[p] \in Watches
      /\ run \in [Procs -> Runs] /\ watch \in [Procs -> Watches]
  BY DEF Orderly, TypeOK
<1>3. PICK flag \in BOOLEAN, w \in Watches :
        /\ run' = [run EXCEPT ![p] = [run[p] EXCEPT !.flag = flag, !.signaled = TRUE]]
        /\ watch' = [watch EXCEPT ![p] = w] /\ (w.killer = "signal" => flag)
        /\ run[p].pc # "agent" => w.killer = "nobody"
  <2>1. CASE Interrupt(p)
    <3>1. /\ run' = [run EXCEPT ![p] = [run[p] EXCEPT !.flag = TRUE, !.signaled = TRUE]]
          /\ watch' = [watch EXCEPT ![p] = watch[p]]
      BY <1>2, <2>1 DEF Interrupt
    <3> QED
      BY <1>2, <3>1 DEF WatchFits
  <2>2. CASE Terminate(p)
    <3>1. /\ run' = [run EXCEPT ![p] = [run[p] EXCEPT !.flag = run[p].flag, !.signaled = TRUE]]
          /\ watch' = [watch EXCEPT ![p] = Killed("outside")] /\ run[p].pc = "agent"
      BY <1>2, <2>2 DEF Terminate, Runs
    <3>2. Killed("outside") \in Watches /\ Killed("outside").killer = "outside"
      BY NewWatchFits DEF Killed, Watches, Killers
    <3>3. run[p].flag \in BOOLEAN
      BY <1>2 DEF Runs
    <3> QED
      BY <3>1, <3>2, <3>3
  <2> QED
    BY <2>1, <2>2
<1> DEFINE r == [run[p] EXCEPT !.flag = flag, !.signaled = TRUE]
<1>4. /\ r \in Runs /\ r.pc = run[p].pc /\ r.at = run[p].at /\ r.crashes = run[p].crashes
      /\ r.flag = flag /\ r.signaled = TRUE /\ r.spent = run[p].spent
      /\ r.broke = run[p].broke /\ r.complete = run[p].complete
      /\ r.unheeded = run[p].unheeded /\ r.iter = run[p].iter /\ r.task = run[p].task
      /\ r.attempts = run[p].attempts
  <2>1. r \in Runs
    BY <1>2, <1>3 DEF Runs
  <2>2. /\ r.pc = run[p].pc /\ r.at = run[p].at /\ r.crashes = run[p].crashes
        /\ r.flag = flag /\ r.signaled = TRUE /\ r.spent = run[p].spent
        /\ r.broke = run[p].broke
    BY <1>2 DEF Runs
  <2>3. /\ r.complete = run[p].complete
        /\ r.unheeded = run[p].unheeded /\ r.iter = run[p].iter /\ r.task = run[p].task
        /\ r.attempts = run[p].attempts
    BY <1>2 DEF Runs
  <2> QED
    BY <2>1, <2>2, <2>3
<1>5. run' = [run EXCEPT ![p] = r]
  BY <1>3
<1> HIDE DEF r
<1>6. Fit(p, r)
  BY <1>2, <1>4 DEF Fit
<1>7. /\ run' \in [Procs -> Runs] /\ watch' \in [Procs -> Watches]
      /\ \A q \in Procs : Fit(q, run[q])' /\ WatchFits(q)'
  BY <1>1, <1>3, <1>4, <1>5, <1>6, FitsKept
<1>8. LocksFit'
  BY <1>1, <1>4, <1>5, LocksKept
<1>9. StopsHeard'
  BY <1>1, <1>4, <1>5, StopsKept
<1>10. disturbed' \in 0 .. MaxDisturbances
  BY <1>1, Disturbed
<1>11. TypeOK'
  BY <1>1, <1>7, <1>10 DEF Orderly, TypeOK
<1> QED
  BY <1>7, <1>8, <1>9, <1>11 DEF Orderly

-----------------------------------------------------------------------------
(* The command that stops a run.                                           *)

\* What does not change a process, its agent or a lock leaves them as they fit.
LEMMA CommandFits ==
  ASSUME Orderly, UNCHANGED <<lock, run, watch, chain>>
  PROVE  /\ LocksFit' /\ \A q \in Procs : Fit(q, run[q])' /\ WatchFits(q)'
         /\ \A P : Hearing(P)' <=> Hearing(P)
BY DEF Orderly, LocksFit, Prefix, Fit, WatchFits, Hearing

LEMMA StopOrderly ==
  ASSUME Orderly, StopWrite \/ StopRecheck \/ \E P \in Prefixes : StopResolve(P)
  PROVE  Orderly'
<1>1. UNCHANGED <<status, lock, loopRecord, batchRecord, run, watch, chain>>
  BY DEF StopWrite, StopRecheck, StopResolve, records
<1>2. /\ LocksFit' /\ \A q \in Procs : Fit(q, run[q])' /\ WatchFits(q)'
      /\ \A P : Hearing(P)' <=> Hearing(P)
  BY <1>1, CommandFits
<1>3. /\ cli' \in [pc : {"idle", "write", "recheck"}, prefix : Prefixes \cup {"none"},
                   proc : Procs \cup {NoProc}]
      /\ stopGlobal' \in BOOLEAN /\ disturbed' \in 0 .. MaxDisturbances
      /\ stopPrefix' \subseteq Prefixes /\ late' \subseteq Prefixes
      /\ \A P \in stopPrefix' : P \in late' \/ Hearing(P)
  <2>1. /\ cli \in [pc : {"idle", "write", "recheck"}, prefix : Prefixes \cup {"none"},
                    proc : Procs \cup {NoProc}]
        /\ loopRecord \in [Prefixes -> Procs \cup {NoProc}] /\ batchRecord \in Procs \cup {NoProc}
        /\ stopGlobal \in BOOLEAN /\ disturbed \in 0 .. MaxDisturbances
        /\ stopPrefix \subseteq Prefixes /\ late \subseteq Prefixes
        /\ \A P \in stopPrefix : P \in late \/ Hearing(P)
    BY DEF Orderly, TypeOK, StopsHeard
  <2>2. CASE StopWrite
    BY <2>1, <2>2 DEF StopWrite
  <2>3. CASE StopRecheck
    BY <2>1, <2>3 DEF StopRecheck, NoCommand, files
  <2>4. ASSUME NEW P \in Prefixes, StopResolve(P)
        PROVE  /\ cli' \in [pc : {"idle", "write", "recheck"}, prefix : Prefixes \cup {"none"},
                            proc : Procs \cup {NoProc}]
               /\ UNCHANGED <<stopGlobal, stopPrefix, late>>
               /\ disturbed' \in 0 .. MaxDisturbances
    <3>1. Disturb /\ UNCHANGED <<stopGlobal, stopPrefix, late>>
      BY <2>4 DEF StopResolve, files
    <3>2. disturbed' \in 0 .. MaxDisturbances
      BY <3>1, Disturbed
    <3> QED
      BY <2>1, <2>4, <3>1, <3>2 DEF StopResolve
  <2> QED
    BY <2>1, <2>2, <2>3, <2>4
<1>4. StopsHeard'
  BY <1>2, <1>3 DEF StopsHeard
<1>5. TypeOK'
  BY <1>1, <1>3 DEF Orderly, TypeOK
<1> QED
  BY <1>2, <1>4, <1>5 DEF Orderly

-----------------------------------------------------------------------------
(* The invariant.                                                          *)

LEMMA InitOrderly ==
  ASSUME Init
  PROVE  Orderly
<1>1. \A p \in Procs : run[p] = FreshRun /\ watch[p] = NewWatch
  BY DEF Init
<1>2. FreshRun = [FreshRun EXCEPT !.pc = "off"]
  <2>1. FreshRun.pc = "off"
    BY DEF FreshRun
  <2> QED
    BY <2>1, FreshIsRun DEF Runs
<1>3. \A p \in Procs : Fit(p, run[p]) /\ ~run[p].complete
                       /\ run[p].pc \notin Holding \cup {"decide", "agent"}
  BY <1>1, <1>2, FreshFits DEF NotRunning
<1>4. \A p \in Procs : WatchFits(p)
  BY <1>1, NewWatchFits DEF WatchFits
<1>5. LocksFit /\ StopsHeard
  BY <1>3 DEF Init, LocksFit, StopsHeard
<1>6. TypeOK
  <2>1. run \in [Procs -> Runs] /\ watch \in [Procs -> Watches]
    BY FreshIsRun, NewWatchFits DEF Init
  <2>2. /\ lock \in [Prefixes -> Procs \cup {NoProc}]
        /\ loopRecord \in [Prefixes -> Procs \cup {NoProc}]
        /\ batchRecord \in Procs \cup {NoProc}
    BY DEF Init
  <2>3. /\ cli \in [pc : {"idle", "write", "recheck"}, prefix : Prefixes \cup {"none"},
                    proc : Procs \cup {NoProc}]
        /\ disturbed \in 0 .. MaxDisturbances
    BY Limits DEF Init, NoCommand
  <2>4. status \in [Tasks -> Statuses]
    BY SessionAssumption DEF Init, SessionAssumption
  <2>5. stopGlobal \in BOOLEAN /\ stopPrefix \subseteq Prefixes /\ late \subseteq Prefixes
        /\ chain \subseteq Batches
    BY DEF Init
  <2> QED
    BY <2>1, <2>2, <2>3, <2>4, <2>5 DEF TypeOK
<1> QED
  BY <1>3, <1>4, <1>5, <1>6 DEF Orderly

\* An action of an iteration.
Iterates(p) ==
  IterationHead(p) \/ Select(p) \/ AgentEnds(p) \/ WaitOver(p) \/ WaitStopped(p)

LEMMA IteratesIterated ==
  ASSUME Orderly, NEW p \in Procs, Iterates(p)
  PROVE  Iterated(p)
BY HeadIterates, SelectIterates, AgentEndsIterates, WaitOverIterates, WaitStoppedIterates
   DEF Iterates

LEMMA NextOrderly ==
  ASSUME Orderly, [Next]_vars
  PROVE  Orderly'
<1>1. CASE UNCHANGED vars
  <2>1. UNCHANGED <<status, lock, stopGlobal, stopPrefix, loopRecord, batchRecord, run, watch,
                    chain, cli, late, disturbed>>
    BY <1>1 DEF vars, files, records, outside
  <2>2. /\ LocksFit' /\ \A q \in Procs : Fit(q, run[q])' /\ WatchFits(q)'
        /\ \A P : Hearing(P)' <=> Hearing(P)
    BY <2>1, CommandFits
  <2>3. StopsHeard' /\ TypeOK'
    BY <2>1, <2>2 DEF Orderly, StopsHeard, TypeOK
  <2> QED
    BY <2>2, <2>3 DEF Orderly
<1>2. ASSUME NEW p \in Procs, Step(p) PROVE Orderly'
  <2>1. CASE Iterates(p)
    BY <2>1, IteratesIterated, IteratedOrderly
  <2>2. CASE BatchCheck(p)
    BY <2>2, BatchCheckOrderly
  <2>3. CASE TakeLock(p)
    BY <2>3, TakeLockOrderly
  <2>4. CASE WriteRecord(p) \/ DropRecord(p)
    BY <2>4, RecordsOrderly
  <2>5. CASE CleanSignals(p)
    BY <2>5, CleanSignalsOrderly
  <2>6. CASE Decide(p)
    BY <2>6, DecideOrderly
  <2>7. CASE Poll(p)
    BY <2>7, PollOrderly
  <2> QED
    BY <1>2, <2>1, <2>2, <2>3, <2>4, <2>5, <2>6, <2>7 DEF Step, Iterates
<1>3. ASSUME NEW p \in Procs, Launch(p) \/ Interrupt(p) \/ Terminate(p) \/ Kill(p)
      PROVE  Orderly'
  BY <1>3, LaunchOrderly, SignalOrderly, KillOrderly
<1>4. CASE StopWrite \/ StopRecheck \/ \E P \in Prefixes : StopResolve(P)
  BY <1>4, StopOrderly
<1> QED
  BY <1>1, <1>2, <1>3, <1>4 DEF Next

LEMMA AlwaysOrderly == Spec => []Orderly
<1>1. Init => Orderly
  BY InitOrderly
<1>2. Orderly /\ [Next]_vars => Orderly'
  BY NextOrderly
<1> QED
  BY <1>1, <1>2, PTL DEF Spec

\* Every variable of Session has its type in every reachable state, for any number of
\* processes, plans and limits; in particular the attempts and the crashes of a run stay
\* within the limits that react_to_transient and the crash tracker compute back-offs for.
THEOREM TypeCorrect == Spec => []TypeOK
<1>1. Orderly => TypeOK
  BY DEF Orderly
<1> QED
  BY <1>1, AlwaysOrderly, PTL

\* A stop file whose prefix nobody runs was written after its run had cleaned up, or its
\* run was killed: an orderly run leaves none to the next one, wherever its end and the
\* three steps of `loop stop` fall.
THEOREM StopsLeftLate == Spec => []NoStaleStop
<1>1. Orderly => NoStaleStop
  BY DEF Orderly, StopsHeard, NoStaleStop, Hearing
<1> QED
  BY <1>1, AlwaysOrderly, PTL

\* After a rate limit the loop claims nothing before it has waited, rerouted or stopped,
\* whatever the pipeline made of the outcome.
THEOREM LimitsHeeded == Spec => RateLimitHeeded
<1>1. Orderly => \A p \in Procs : Claims(p) => ~run[p].unheeded
  BY DEF Orderly, Fit, Claims
<1> QED
  BY <1>1, AlwaysOrderly, PTL DEF RateLimitHeeded

\* An action of a process outside its iterations.
Moves(p) ==
  \/ Launch(p) \/ BatchCheck(p) \/ TakeLock(p) \/ WriteRecord(p) \/ CleanSignals(p)
  \/ DropRecord(p) \/ Decide(p) \/ Interrupt(p) \/ Terminate(p) \/ Kill(p)

\* The state of a process changes by its own actions only.
LEMMA OthersStay ==
  ASSUME Orderly, NEW p \in Procs, NEW q \in Procs, q # p, Iterates(q) \/ Moves(q)
  PROVE  run'[p] = run[p]
<1>1. run \in [Procs -> Runs]
  BY DEF Orderly, TypeOK
<1>2. CASE Iterates(q)
  BY <1>1, <1>2, IteratesIterated DEF Iterated, RunFollows
<1>3. CASE Launch(q) \/ BatchCheck(q) \/ TakeLock(q) \/ WriteRecord(q)
  BY <1>1, <1>3 DEF Launch, BatchCheck, EndBatch, Over, GoTo, TakeLock, WriteRecord
<1>4. CASE CleanSignals(q) \/ DropRecord(q) \/ Decide(q)
  BY <1>1, <1>4 DEF CleanSignals, DropRecord, Decide, EndBatch, Over, GoTo
<1>5. CASE Interrupt(q) \/ Terminate(q) \/ Kill(q)
  BY <1>1, <1>5 DEF Interrupt, Terminate, Kill
<1> QED
  BY <1>2, <1>3, <1>4, <1>5 DEF Moves

\* A step is a process's, or changes no process and no row.
LEMMA WhoSteps ==
  ASSUME [Next]_vars
  PROVE  \/ \E q \in Procs : Iterates(q) \/ Moves(q)
         \/ UNCHANGED <<status, run>>
BY DEF Next, Step, Iterates, Moves, vars, Poll, StopResolve, StopWrite, StopRecheck

LEMMA OwnStep ==
  ASSUME Orderly, [Next]_vars, NEW p \in Procs, run'[p] # run[p]
  PROVE  Iterates(p) \/ Moves(p)
BY WhoSteps, OthersStay

\* What the steps outside the iterations make of the stage and the place of a process.
LEMMA MovesTo ==
  ASSUME Orderly, NEW p \in Procs, Moves(p)
  PROVE  \/ run[p].pc = "off" /\ run'[p].pc \in {"check", "lock"} /\ run'[p].at = run[p].at
         \/ run[p].pc = "check" /\ run'[p].pc \in {"over", "lock"} /\ run'[p].at <= run[p].at
         \/ /\ run[p].pc = "lock" /\ run'[p].pc \in {"record", "decide"}
            /\ run'[p].at = run[p].at
         \/ run[p].pc = "record" /\ run'[p].pc = "head" /\ run'[p].at = run[p].at
         \/ run[p].pc = "closing" /\ run'[p].pc = "cleaned" /\ run'[p].at = run[p].at
         \/ run[p].pc = "cleaned" /\ run'[p].pc = "decide" /\ run'[p].at = run[p].at
         \/ run[p].pc = "decide" /\ run'[p].pc = "over" /\ run'[p].at <= run[p].at
         \/ Decide(p) /\ run'[p].pc = "check" /\ GoesOn(p)
         \/ run[p].pc \in InRun /\ run'[p].pc = run[p].pc /\ run'[p].at = run[p].at
         \/ run'[p].pc = "dead" /\ run'[p].at <= run[p].at
<1>1. run \in [Procs -> Runs] /\ run[p] \in Runs /\ run[p].at >= 1
  BY DEF Orderly, TypeOK, Fit
<1>2. ASSUME NEW stage PROVE GoTo(p, stage) => run'[p].pc = stage /\ run'[p].at = run[p].at
  BY <1>1 DEF GoTo, Runs
<1>3. FreshRun.at = 1 /\ [FreshRun EXCEPT !.pc = "over"].pc = "over"
      /\ [FreshRun EXCEPT !.pc = "over"].at = 1
      /\ [FreshRun EXCEPT !.pc = "dead"].pc = "dead" /\ [FreshRun EXCEPT !.pc = "dead"].at = 1
  BY DEF FreshRun
<1>4. Over(p) => run'[p].pc = "over" /\ run'[p].at <= run[p].at
  BY <1>1, <1>3 DEF Over
<1>5. CASE Launch(p)
  BY <1>2, <1>5 DEF Launch
<1>11. CASE BatchCheck(p)
  <2>1. run[p].pc = "check" /\ (Over(p) \/ GoTo(p, "lock"))
    BY <1>11 DEF BatchCheck, EndBatch
  <2>2. GoTo(p, "lock") => run'[p].pc = "lock" /\ run'[p].at = run[p].at
    BY <1>2
  <2>3. run[p].at \in Nat
    BY <1>1 DEF Runs
  <2>4. CASE Over(p)
    BY <1>4, <2>1, <2>4
  <2>5. CASE GoTo(p, "lock")
    BY <2>1, <2>2, <2>3, <2>5
  <2> QED
    BY <2>1, <2>4, <2>5
<1>12. CASE WriteRecord(p) \/ DropRecord(p)
  BY <1>2, <1>12 DEF WriteRecord, DropRecord
<1>6. CASE TakeLock(p)
  <2>1. run[p].pc = "lock"
    BY <1>6 DEF TakeLock
  <2>2. \/ GoTo(p, "record")
        \/ run' = [run EXCEPT ![p] = [@ EXCEPT !.pc = "decide", !.code = 1, !.rungs = FALSE]]
    BY <1>6 DEF TakeLock
  <2>3. [run[p] EXCEPT !.pc = "decide", !.code = 1, !.rungs = FALSE].pc = "decide"
        /\ [run[p] EXCEPT !.pc = "decide", !.code = 1, !.rungs = FALSE].at = run[p].at
    BY <1>1 DEF Runs
  <2> QED
    BY <1>1, <1>2, <2>1, <2>2, <2>3
<1>7. CASE CleanSignals(p)
  <2>1. [run[p] EXCEPT !.pc = "cleaned", !.why = "none"].pc = "cleaned"
        /\ [run[p] EXCEPT !.pc = "cleaned", !.why = "none"].at = run[p].at
    BY <1>1 DEF Runs
  <2>2. run' = [run EXCEPT ![p] = [run[p] EXCEPT !.pc = "cleaned", !.why = "none"]]
    BY <1>1, <1>7 DEF CleanSignals
  <2> QED
    BY <1>1, <1>7, <2>1, <2>2 DEF CleanSignals
<1>8. CASE Decide(p)
  <2>1. run[p].pc = "decide"
    BY <1>8 DEF Decide
  <2>2. \/ Over(p)
        \/ /\ GoesOn(p)
           /\ run' = [run EXCEPT ![p] =
                [FreshRun EXCEPT !.pc = "check", !.at = run[p].at + 1,
                                 !.rungs = p \in chain /\ run[p].rungs,
                                 !.broke = run[p].broke]]
    BY <1>8 DEF Decide, EndBatch
  <2>3. [FreshRun EXCEPT !.pc = "check", !.at = run[p].at + 1,
                         !.rungs = p \in chain /\ run[p].rungs,
                         !.broke = run[p].broke].pc = "check"
    BY DEF FreshRun
  <2> QED
    BY <1>1, <1>4, <1>8, <2>1, <2>2, <2>3
<1>9. CASE Interrupt(p) \/ Terminate(p)
  <2>1. \/ run' = [run EXCEPT ![p] = [run[p] EXCEPT !.flag = TRUE, !.signaled = TRUE]]
        \/ run' = [run EXCEPT ![p] = [run[p] EXCEPT !.signaled = TRUE]]
    BY <1>1, <1>9 DEF Interrupt, Terminate
  <2>2. run[p].pc \in InRun
    BY <1>9 DEF Interrupt, Terminate, InRun
  <2> QED
    BY <1>1, <2>1, <2>2 DEF Runs
<1>10. CASE Kill(p)
  BY <1>1, <1>3, <1>10 DEF Kill
<1> QED
  BY <1>5, <1>6, <1>7, <1>8, <1>9, <1>10, <1>11, <1>12 DEF Moves

\* A chain whose account met a spend limit starts no other run, also when an unavailable
\* rung would otherwise let it build on an unfinished PRD.
THEOREM SpendStops == Spec => SpendStopsChain
<1>1. ASSUME Orderly, [Next]_vars, NEW p \in chain, run[p].broke
      PROVE  run'[p].pc # "lock"
  <2>1. p \in Procs /\ run[p].pc \in {"closing", "cleaned", "decide"}
    BY <1>1, SessionAssumption DEF Orderly, TypeOK, Fit, SessionAssumption
  <2>2. CASE run'[p] = run[p]
    BY <2>1, <2>2
  <2>3. CASE Iterates(p)
    BY <1>1, <2>1, <2>3, IteratesIterated DEF Iterated, InRun, Waits
  <2>4. CASE Moves(p)
    BY <1>1, <2>1, <2>4, MovesTo DEF InRun, Waits
  <2> QED
    BY <1>1, <2>1, <2>2, <2>3, <2>4, OwnStep
<1>2. Orderly /\ [Next]_vars => [\A p \in chain : run[p].broke => run'[p].pc # "lock"]_vars
  BY <1>1
<1> QED
  BY <1>2, AlwaysOrderly, PTL DEF Spec, SpendStopsChain

\* The end of a run is an iteration's, and its code and reason are earned.
LEMMA EndsEarned ==
  ASSUME Orderly, [Next]_vars, NEW p \in Procs, Ends(p)
  PROVE  Earned(p, run'[p])
<1>1. run[p].pc \in InRun /\ run'[p].pc = "closing" /\ run \in [Procs -> Runs]
  BY DEF Ends, Orderly, TypeOK
<1>2. CASE Iterates(p)
  BY <1>1, <1>2, IteratesIterated DEF Iterated, RunFollows
<1>3. CASE Moves(p)
  BY <1>1, <1>3, MovesTo DEF InRun, Waits, Decide
<1>4. run'[p] # run[p]
  BY <1>1 DEF InRun, Waits
<1> QED
  BY <1>2, <1>3, <1>4, OwnStep

\* A run ends as signalled only if it, or its agent, was signalled from outside: no kill of
\* its watchdog is taken for Ctrl-C, not even one that a signal of its own overtakes.
THEOREM SignalsReal == Spec => SignalsAreReal
<1>1. Orderly /\ [Next]_vars =>
        [\A p \in Procs : Ends(p) /\ run'[p].why = "signal" => run[p].signaled]_vars
  BY EndsEarned DEF Earned
<1> QED
  BY <1>1, AlwaysOrderly, PTL DEF Spec, SignalsAreReal

\* Code 0 of a run that was neither stopped nor short of quota means that no task of its
\* prefix is open, but for a run halted in an iteration that completed a task.
THEOREM ZeroIsEarned == Spec => ExitZeroIsEarned
<1>1. Orderly /\ [Next]_vars =>
        [\A p \in Procs :
           Ends(p) /\ run'[p].code = 0 /\ run'[p].why \notin {"stop", "quota", "halted_done"}
             => Open(Prefix(p), status') = {}]_vars
  BY EndsEarned DEF Earned
<1> QED
  BY <1>1, AlwaysOrderly, PTL DEF Spec, ExitZeroIsEarned

-----------------------------------------------------------------------------
(* Two prefixes that share no row: the 8-hex prefixes that init generates   *)
(* never do, while one prefix of the user's choice may contain another one. *)

PrefixesApart == \A P, Q \in Prefixes : P # Q => TasksOf[P] \cap TasksOf[Q] = {}

\* A run that has taken the lock finds no claimed row, and a run that was complete stays so
\* until its chain has decided.
Clean ==
  \A p \in Procs :
    /\ run[p].pc = "record" => \A t \in TasksOf[Prefix(p)] : status[t] # "in_progress"
    /\ run[p].complete => Open(Prefix(p), status) = {}

\* Nobody else works on the rows of a run that has not returned.
LEMMA RowsAreOwn ==
  ASSUME PrefixesApart, Orderly, NEW p \in Procs, run[p].pc \in Holding \/ run[p].complete,
         NEW q \in Procs, q # p, run[q].pc \in InRun
  PROVE  TasksOf[Prefix(p)] \cap TasksOf[Prefix(q)] = {} /\ TasksOf[Prefix(p)] \subseteq Tasks
<1>1. lock[Prefix(p)] = p /\ lock[Prefix(q)] = q
  BY DEF Orderly, LocksFit, Holding
<1>2. Prefix(q) \in Prefixes
  BY RunIsReady
<1>3. Fit(p, run[p]) /\ run[p].pc # "check" /\ run[p] \in Runs
  BY DEF Orderly, Fit, Holding, InRun, Waits
<1>4. Prefix(p) \in Prefixes /\ TasksOf[Prefix(p)] \subseteq Tasks
  BY <1>3, PrefixIsOne DEF Fit, Runs
<1> QED
  BY <1>1, <1>2, <1>4 DEF PrefixesApart

\* What a step of another process does to the rows of p.
LEMMA OthersRows ==
  ASSUME PrefixesApart, Orderly, [Next]_vars, NEW p \in Procs,
         run[p].pc \in Holding \/ run[p].complete, ~Iterates(p)
  PROVE  \A t \in TasksOf[Prefix(p)] :
           /\ status'[t] = "in_progress" => status[t] = "in_progress"
           /\ status'[t] \in {"todo", "in_progress"} => status[t] \in {"todo", "in_progress"}
<1> SUFFICES ASSUME NEW t \in TasksOf[Prefix(p)]
             PROVE  /\ status'[t] = "in_progress" => status[t] = "in_progress"
                    /\ status'[t] \in {"todo", "in_progress"} =>
                         status[t] \in {"todo", "in_progress"}
  OBVIOUS
<1>1. status \in [Tasks -> Statuses]
  BY DEF Orderly, TypeOK
<1>2. Fit(p, run[p]) /\ run[p].pc # "check" /\ run[p] \in Runs
  BY DEF Orderly, Fit, Holding, InRun, Waits
<1>3. t \in Tasks
  BY <1>2, PrefixIsOne DEF Fit, Runs
<1>4. CASE UNCHANGED status
  BY <1>4
<1>5. ASSUME NEW q \in Procs, Iterates(q)
      PROVE  /\ status'[t] = "in_progress" => status[t] = "in_progress"
             /\ status'[t] \in {"todo", "in_progress"} => status[t] \in {"todo", "in_progress"}
  <2>1. q # p /\ Iterated(q)
    BY <1>5, IteratesIterated
  <2>2. t \notin TasksOf[Prefix(q)]
    BY <2>1, RowsAreOwn DEF Iterated
  <2> QED
    BY <1>3, <2>1, <2>2 DEF Iterated, RowsFollow
<1>6. ASSUME NEW q \in Procs, Moves(q)
      PROVE  /\ status'[t] = "in_progress" => status[t] = "in_progress"
             /\ status'[t] \in {"todo", "in_progress"} => status[t] \in {"todo", "in_progress"}
  <2>1. UNCHANGED status \/ status' = Recovered(Prefix(q), status)
    BY <1>6 DEF Moves, Launch, BatchCheck, TakeLock, WriteRecord, CleanSignals, DropRecord,
                Decide, Interrupt, Terminate, Kill
  <2> QED
    BY <1>1, <1>3, <2>1 DEF Recovered
<1> QED
  BY <1>4, <1>5, <1>6, WhoSteps

LEMMA InitClean ==
  ASSUME Init PROVE Clean
BY DEF Init, Clean, FreshRun

\* Iterations leave no new run behind; one that ends a run says truly if it is complete.
LEMMA IterationClean ==
  ASSUME Orderly, NEW p \in Procs, Iterates(p)
  PROVE  /\ run'[p].pc # "record"
         /\ run'[p].complete => Open(Prefix(p)', status') = {}
<1>1. PICK r \in Runs : /\ run' = [run EXCEPT ![p] = r] /\ Fit(p, r) /\ r.at = run[p].at
                        /\ r.pc \in InRun \cup {"closing"} /\ (r.pc = "closing" => Earned(p, r))
  BY IteratesIterated DEF Iterated, RunFollows
<1>2. run'[p] = r /\ Prefix(p)' = Prefix(p)
  BY <1>1 DEF Orderly, TypeOK, Prefix
<1>3. r.complete => r.pc = "closing"
  BY <1>1 DEF Fit, InRun, Waits
<1> QED
  BY <1>1, <1>2, <1>3 DEF Earned, InRun, Waits

\* Who takes the lock recovers the rows, and nothing is complete before it ends.
LEMMA MoveClean ==
  ASSUME Orderly, NEW p \in Procs, Moves(p)
  PROVE  /\ run'[p].pc = "record" => TakeLock(p) /\ GoTo(p, "record")
                                      /\ status' = Recovered(Prefix(p), status)
         /\ run'[p].complete => run[p].complete /\ run'[p].at = run[p].at
<1>1. run \in [Procs -> Runs] /\ run[p] \in Runs
  BY DEF Orderly, TypeOK
<1>2. FreshRun.complete = FALSE /\ \A s : [FreshRun EXCEPT !.pc = s].complete = FALSE
  BY DEF FreshRun
<1>3. ASSUME NEW stage, GoTo(p, stage)
      PROVE  run'[p].pc = stage /\ run'[p].complete = run[p].complete /\ run'[p].at = run[p].at
  BY <1>1, <1>3 DEF GoTo, Runs
<1>4. ASSUME Over(p) PROVE run'[p].pc = "over" /\ run'[p].complete = FALSE
  BY <1>1, <1>4 DEF Over, FreshRun
<1>5. CASE Launch(p)
  BY <1>3, <1>5 DEF Launch
<1>6. CASE BatchCheck(p)
  <2>1. Over(p) \/ GoTo(p, "lock")
    BY <1>6 DEF BatchCheck, EndBatch
  <2>2. CASE Over(p)
    BY <1>4, <2>2
  <2>3. CASE GoTo(p, "lock")
    BY <1>3, <2>3
  <2> QED
    BY <2>1, <2>2, <2>3
<1>7. CASE WriteRecord(p) \/ DropRecord(p)
  BY <1>3, <1>7 DEF WriteRecord, DropRecord
<1>8. CASE TakeLock(p)
  <2>1. \/ GoTo(p, "record") /\ status' = Recovered(Prefix(p), status)
        \/ run' = [run EXCEPT ![p] = [run[p] EXCEPT !.pc = "decide", !.code = 1,
                                                   !.rungs = FALSE]]
    BY <1>1, <1>8 DEF TakeLock
  <2>2. CASE GoTo(p, "record") /\ status' = Recovered(Prefix(p), status)
    BY <1>3, <1>8, <2>2
  <2>3. CASE run' = [run EXCEPT ![p] = [run[p] EXCEPT !.pc = "decide", !.code = 1,
                                                     !.rungs = FALSE]]
    <3> DEFINE r == [run[p] EXCEPT !.pc = "decide", !.code = 1, !.rungs = FALSE]
    <3>1. r.pc = "decide" /\ r.complete = run[p].complete /\ r.at = run[p].at
      BY <1>1 DEF Runs
    <3>2. run'[p] = r
      BY <1>1, <2>3
    <3> QED
      BY <3>1, <3>2
  <2> QED
    BY <2>1, <2>2, <2>3
<1>9. CASE CleanSignals(p)
  <2> DEFINE r == [run[p] EXCEPT !.pc = "cleaned", !.why = "none"]
  <2>1. r.pc = "cleaned" /\ r.complete = run[p].complete /\ r.at = run[p].at
    BY <1>1 DEF Runs
  <2>2. run'[p] = r
    BY <1>1, <1>9 DEF CleanSignals
  <2> QED
    BY <2>1, <2>2
<1>10. CASE Decide(p)
  BY <1>10, DecidesFit, <1>1
<1>11. CASE Interrupt(p) \/ Terminate(p)
  <2>1. \/ run' = [run EXCEPT ![p] = [run[p] EXCEPT !.flag = TRUE, !.signaled = TRUE]]
        \/ run' = [run EXCEPT ![p] = [run[p] EXCEPT !.signaled = TRUE]]
    BY <1>1, <1>11 DEF Interrupt, Terminate
  <2>2. run[p].pc # "record"
    BY <1>11 DEF Interrupt, Terminate, InRun, Waits
  <2>3. ASSUME NEW r, r = [run[p] EXCEPT !.flag = TRUE, !.signaled = TRUE]
                      \/ r = [run[p] EXCEPT !.signaled = TRUE]
        PROVE  r.pc = run[p].pc /\ r.complete = run[p].complete /\ r.at = run[p].at
    <3>1. CASE r = [run[p] EXCEPT !.flag = TRUE, !.signaled = TRUE]
      BY <1>1, <3>1 DEF Runs
    <3>2. CASE r = [run[p] EXCEPT !.signaled = TRUE]
      BY <1>1, <3>2 DEF Runs
    <3> QED
      BY <2>3, <3>1, <3>2
  <2>4. \/ run'[p] = [run[p] EXCEPT !.flag = TRUE, !.signaled = TRUE]
        \/ run'[p] = [run[p] EXCEPT !.signaled = TRUE]
    BY <1>1, <2>1
  <2>5. /\ run'[p].pc = run[p].pc /\ run'[p].complete = run[p].complete
        /\ run'[p].at = run[p].at
    BY <2>3, <2>4
  <2> QED
    BY <2>2, <2>5
<1>12. CASE Kill(p)
  BY <1>1, <1>12 DEF Kill, FreshRun
<1> QED
  BY <1>5, <1>6, <1>7, <1>8, <1>9, <1>10, <1>11, <1>12 DEF Moves

LEMMA NextClean ==
  ASSUME PrefixesApart, Orderly, Clean, [Next]_vars
  PROVE  Clean'
<1> SUFFICES ASSUME NEW p \in Procs
             PROVE  /\ run'[p].pc = "record" =>
                         \A t \in TasksOf[Prefix(p)'] : status'[t] # "in_progress"
                    /\ run'[p].complete => Open(Prefix(p)', status') = {}
  BY DEF Clean
<1>1. CASE Iterates(p)
  BY <1>1, IterationClean
<1>2. CASE ~Iterates(p) /\ run'[p].at = run[p].at
           /\ (run'[p].pc = "record" => run[p].pc = "record")
           /\ (run'[p].complete => run[p].complete)
  <2>1. Prefix(p)' = Prefix(p)
    BY <1>2 DEF Prefix
  <2>2. CASE run'[p].pc = "record" \/ run'[p].complete
    <3>1. run[p].pc \in Holding \/ run[p].complete
      BY <1>2, <2>2 DEF Holding
    <3>2. \A t \in TasksOf[Prefix(p)] :
            /\ status'[t] = "in_progress" => status[t] = "in_progress"
            /\ status'[t] \in {"todo", "in_progress"} => status[t] \in {"todo", "in_progress"}
      BY <1>2, <3>1, OthersRows
    <3>3. run'[p].pc = "record" => \A t \in TasksOf[Prefix(p)] : status'[t] # "in_progress"
      BY <1>2, <3>2 DEF Clean
    <3>4. run'[p].complete => Open(Prefix(p), status') = {}
      BY <1>2, <3>2 DEF Clean, Open
    <3> QED
      BY <2>1, <3>3, <3>4
  <2> QED
    BY <2>2
<1>3. CASE Moves(p) /\ ~Iterates(p)
  <2>1. CASE run'[p].pc = "record"
    <3>1. TakeLock(p) /\ GoTo(p, "record") /\ status' = Recovered(Prefix(p), status)
      BY <1>3, <2>1, MoveClean
    <3>2. run'[p].at = run[p].at
      BY <3>1 DEF GoTo, Orderly, TypeOK, Runs
    <3>3. ~run'[p].complete
      <4>1. Fit(p, run[p])' /\ run[p].pc = "lock"
        BY <3>1, NextOrderly DEF Orderly, TakeLock
      <4> QED
        BY <2>1, <4>1 DEF Fit
    <3>4. Prefix(p)' = Prefix(p)
      BY <3>2 DEF Prefix
    <3>5. Fit(p, run[p]) /\ run[p].pc = "lock" /\ run[p] \in Runs
      BY <3>1 DEF Orderly, Fit, TakeLock
    <3>6. TasksOf[Prefix(p)] \subseteq Tasks
      BY <3>5, PrefixIsOne DEF Fit, Runs
    <3> QED
      BY <3>1, <3>3, <3>4, <3>6 DEF Recovered
  <2>2. CASE run'[p].pc # "record" /\ run'[p].complete
    BY <1>2, <1>3, <2>2, MoveClean
  <2>3. CASE run'[p].pc # "record" /\ ~run'[p].complete
    BY <2>3
  <2> QED
    BY <2>1, <2>2, <2>3
<1>4. CASE run'[p] = run[p] /\ ~Iterates(p)
  BY <1>2, <1>4
<1> QED
  BY <1>1, <1>3, <1>4, OwnStep

LEMMA AlwaysClean ==
  ASSUME PrefixesApart
  PROVE  Spec => []Clean
<1>1. Init => Clean
  BY InitClean
<1>2. Orderly /\ Clean /\ [Next]_vars => Clean'
  BY NextClean
<1> QED
  BY <1>1, <1>2, AlwaysOrderly, PTL DEF Spec

\* A chain goes on to its next PRD only from a run that ended with code 0 and left no open
\* task in the table, or met an unavailable rung; what the other processes do between the
\* end of the run and the decision does not matter.
THEOREM ChainsBuildOnDone ==
  ASSUME PrefixesApart
  PROVE  Spec => ChainBuildsOnDone
<1>1. ASSUME Orderly, Clean, [Next]_vars, NEW p \in chain, run'[p].at > run[p].at
      PROVE  run[p].code = 0 /\ (Open(Prefix(p), status) = {} \/ run[p].rungs)
  <2>1. p \in Procs /\ run[p].at \in Nat /\ run \in [Procs -> Runs] /\ run[p] \in Runs
    <3>1. p \in Procs
      BY <1>1, SessionAssumption DEF Orderly, TypeOK, SessionAssumption
    <3>2. run \in [Procs -> Runs]
      BY <1>1 DEF Orderly, TypeOK
    <3> QED
      BY <3>1, <3>2 DEF Runs
  <2>2. CASE Iterates(p)
    BY <1>1, <2>1, <2>2, IteratesIterated DEF Iterated, RunFollows
  <2>3. CASE Moves(p)
    <3>1. (Decide(p) /\ GoesOn(p)) \/ run'[p].at <= run[p].at
      BY <1>1, <2>1, <2>3, MovesTo
    <3>2. GoesOn(p)
      <4>1. run'[p].at \in Nat
        BY <1>1, <2>1, NextOrderly DEF Orderly, TypeOK, Runs
      <4> QED
        BY <1>1, <2>1, <3>1, <4>1
    <3> QED
      BY <1>1, <2>1, <3>2 DEF GoesOn, ChainGoesOn, Clean
  <2>4. run'[p] # run[p]
    BY <1>1, <2>1
  <2> QED
    BY <1>1, <2>1, <2>2, <2>3, <2>4, OwnStep
<1>2. Orderly /\ Clean /\ [Next]_vars =>
        [\A p \in chain : run'[p].at > run[p].at =>
           /\ run[p].code = 0
           /\ Open(Prefix(p), status) = {} \/ run[p].rungs]_vars
  BY <1>1
<1> QED
  BY <1>2, AlwaysOrderly, AlwaysClean, PTL DEF Spec, ChainBuildsOnDone

\* A run starts from a prefix without claimed rows, whatever an earlier run left behind or
\* died with, and until its end nobody else claims one of its rows.
THEOREM ClaimsOwn ==
  ASSUME PrefixesApart
  PROVE  Spec => ClaimsAreOwn
<1>1. ASSUME Orderly, Clean, [Next]_vars, NEW p \in Procs,
             run'[p].pc \in {"record"} \cup InRun, NEW t \in TasksOf[Prefix(p)],
             status'[t] = "in_progress"
      PROVE  run[p].pc \in InRun /\ (status[t] = "in_progress" \/ Claims(p))
  <2>1. CASE Iterates(p)
    <3>1. Iterated(p) /\ run[p].pc \in InRun
      BY <1>1, <2>1, IteratesIterated DEF Iterated
    <3>2. t \in Tasks
      BY <1>1, <3>1, RunIsReady
    <3>3. run'[p].pc # "closing"
      BY <1>1 DEF InRun, Waits
    <3> QED
      BY <1>1, <3>1, <3>2, <3>3 DEF Iterated, RowsFollow, Claims
  <2>2. CASE ~Iterates(p) /\ run[p].pc \in InRun
    <3>1. run[p].pc \in Holding
      BY <2>2 DEF Holding
    <3> QED
      BY <1>1, <2>2, <3>1, OthersRows
  <2>3. CASE ~Iterates(p) /\ run[p].pc = "record"
    <3>1. run[p].pc \in Holding
      BY <2>3 DEF Holding
    <3>2. status[t] # "in_progress"
      BY <1>1, <2>3 DEF Clean
    <3> QED
      BY <1>1, <2>3, <3>1, <3>2, OthersRows
  <2>4. CASE ~Iterates(p) /\ run[p].pc \notin InRun \cup {"record"}
    <3>1. Moves(p)
      BY <1>1, <2>4, OwnStep
    <3>2. run'[p].pc = "record"
      BY <1>1, <2>4, <3>1, MovesTo DEF InRun, Waits
    <3>3. TakeLock(p) /\ status' = Recovered(Prefix(p), status)
      BY <1>1, <3>1, <3>2, MoveClean
    <3>4. Fit(p, run[p]) /\ run[p].pc = "lock" /\ run[p] \in Runs
      BY <1>1, <3>3 DEF Orderly, Fit, TakeLock
    <3>5. t \in Tasks
      BY <1>1, <3>4, PrefixIsOne DEF Fit, Runs
    <3> QED
      BY <1>1, <3>3, <3>5 DEF Recovered
  <2> QED
    BY <2>1, <2>2, <2>3, <2>4
<1>2. Orderly /\ Clean /\ [Next]_vars =>
        [\A p \in Procs : run'[p].pc \in {"record"} \cup InRun =>
           \A t \in {u \in TasksOf[Prefix(p)] : status'[u] = "in_progress"} :
             /\ run[p].pc \in InRun
             /\ status[t] = "in_progress" \/ Claims(p)]_vars
  BY <1>1
<1> QED
  BY <1>2, AlwaysOrderly, AlwaysClean, PTL DEF Spec, ClaimsAreOwn
=============================================================================
