----------------------------- MODULE AgentWatch -----------------------------
(***************************************************************************)
(* The watchdog beside one agent: it polls until the agent is reaped, and  *)
(* kills the agent's process group for one of three reasons.  Time is in   *)
(* polls.  A watch is a value, so that every process can carry its own.    *)
(***************************************************************************)
EXTENDS Naturals

CONSTANTS
  BaseTimeout,         \* TimeoutConfig.base_timeout
  FirstExtension,      \* INITIAL_EXTENSION_SECS
  ExtensionDecrement,  \* EXTENSION_DECREMENT_SECS
  Grace                \* POST_COMPLETION_GRACE_SECS

ASSUME WatchAssumption ==
  /\ BaseTimeout \in Nat \ {0} /\ FirstExtension \in Nat
  /\ ExtensionDecrement \in Nat \ {0} /\ Grace \in Nat

Unarmed == Grace + 1     \* completion_epoch = 0
\* Who ended the agent: its watchdog for one of three reasons, or somebody else.
Killers == {"nobody", "signal", "grace", "deadline", "outside"}
Watches == [left : 0 .. BaseTimeout, used : 0 .. FirstExtension,
            grace : 0 .. Unarmed, killer : Killers, beat : BOOLEAN]

NewWatch == [left |-> BaseTimeout, used |-> 0, grace |-> Unarmed,
             killer |-> "nobody", beat |-> FALSE]

\* The n-th extension is shorter than the one before; the last one is empty.
ExtensionKept(n) == FirstExtension
Extension(n) == IF n * ExtensionDecrement < FirstExtension
                THEN FirstExtension - n * ExtensionDecrement ELSE 0

\* The deadline after a poll that saw new activity, capped at the base.
Extended(w) ==
  IF Extension(w.used) = 0 THEN w
  ELSE [w EXCEPT !.used = IF @ < FirstExtension THEN @ + 1 ELSE @,
                 !.left = IF @ + Extension(w.used) < BaseTimeout
                          THEN @ + Extension(w.used) ELSE BaseTimeout]

\* The stream thread saw the completion tag of the claimed task; the first
\* sight of it counts.
Armed(w) == [w EXCEPT !.grace = IF @ = Unarmed THEN Grace ELSE @]

\* A poll is a step of its own, also where an extension undoes it: an agent that
\* is polled for ever need not end by itself.
Tick(w) == [w EXCEPT !.beat = ~@, !.left = @ - 1,
                     !.grace = IF @ \in {0, Unarmed} THEN @ ELSE @ - 1]

\* The loop returns after a kill: only who killed is kept.
Killed(killer) == [NewWatch EXCEPT !.killer = killer]

\* One pass of the loop: the signal flag, then the grace window, then the
\* deadline, which an extension in the same pass may still move.
Polled(w, flag, active, tagged) ==
  LET v == IF tagged THEN Armed(w) ELSE w
      u == IF active THEN Extended(v) ELSE v
  IN CASE flag                                -> Killed("signal")
       [] ~flag /\ v.grace = 0                -> Killed("grace")
       [] ~flag /\ v.grace # 0 /\ u.left = 0  -> Killed("deadline")
       [] OTHER                               -> Tick(u)

\* An agent that ended by SIGINT or SIGTERM means a signal to the loop, unless
\* the watchdog sent it at the end of the grace window.
MeansSignalBlindly(w, terminated) == terminated
MeansSignal(w, terminated) == terminated /\ w.killer # "grace"
=============================================================================
