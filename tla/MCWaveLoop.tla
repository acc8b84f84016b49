----------------------------- MODULE MCWaveLoop -----------------------------
(* Instances of WaveLoop for TLC.                                          *)
EXTENDS WaveLoop

CONSTANTS a, b, c, d, f

\* Outputs about the claimed task, and <completed> tags for another one.
Own(o, tag, kind) ==
  [outcome |-> o, tag |-> tag, peer |-> NoTask, commit |-> kind]
Peer(tag, t, kind) ==
  [outcome |-> "no_signal", tag |-> tag, peer |-> t, commit |-> kind]

\* b depends on a
BAfterA == [t \in Tasks |-> IF t = b THEN {a} ELSE {}]
Independent == [t \in Tasks |-> {}]
NoFiles == [t \in Tasks |-> {}]
SameFile == [t \in Tasks |-> {f}]

\* Agents change a file that only b declares.
OnlyBDeclares == [t \in Tasks |-> IF t = b THEN {f} ELSE {}]

\* The menus of agent outputs of the runs.
Menu ==
  {Own("no_signal", "completed", "plain"), Own("completed", "none", "marked"),
   Own("crash", "none", "plain"), Own("crash", "none", "none"),
   Own("overflow", "none", "none"), Own("no_signal", "skipped", "none"),
   Peer("completed", a, "marked")}

ShortMenu ==
  {Own("no_signal", "completed", "plain"), Own("rate_limit", "completed", "plain"),
   Own("transient", "none", "none"), Own("no_signal", "skipped", "none")}

PlainMenu ==
  {Own("no_signal", "completed", "plain"), Own("crash", "none", "none"),
   Own("auth_failure", "none", "none"), Own("no_signal", "failed", "none")}

ClosingMenu ==
  {Own("completed", "done", "plain"), Own("crash", "none", "marked"),
   Own("rate_limit", "none", "none")}

ThrottledMenu ==
  {Own("no_signal", "completed", "plain"), Own("rate_limit", "none", "none")}
=============================================================================
