------------------------------ MODULE Delivery ------------------------------
(***************************************************************************)
(* What the loop promises about the commits of its agents, without slots,  *)
(* branches, merges and crashes: a commit is made once, lands on the loop  *)
(* branch or waits for that, and is given up only while a run that is over *)
(* closes its slots.  What has landed stays, what was given up never lands.*)
(***************************************************************************)
EXTENDS Naturals

CONSTANT Tasks   \* the tasks that commits are made for

VARIABLES
  work,      \* number of commits made for each task
  landed,    \* commits on the loop branch
  lost,      \* commits given up
  closing    \* a run that is over closes its slots

vars == <<work, landed, lost, closing>>

Made == UNION {{[task |-> t, n |-> k] : k \in 1 .. work[t]} : t \in Tasks}
Waiting == Made \ (landed \cup lost)

Init ==
  /\ work = [t \in Tasks |-> 0]
  /\ landed = {} /\ lost = {} /\ closing = FALSE

\* An agent commits for its task: on the loop branch itself, or beside it.
Make(t) ==
  /\ ~closing
  /\ work' = [work EXCEPT ![t] = @ + 1]
  /\ landed' \in {landed, landed \cup {[task |-> t, n |-> work[t] + 1]}}
  /\ UNCHANGED <<lost, closing>>

Land ==
  /\ ~closing
  /\ \E S \in SUBSET Waiting : landed' = landed \cup S
  /\ UNCHANGED <<work, lost, closing>>

Close == ~closing /\ closing' = TRUE /\ UNCHANGED <<work, landed, lost>>

GiveUp ==
  /\ closing /\ closing' = FALSE
  /\ \E S \in SUBSET Waiting : lost' = lost \cup S
  /\ UNCHANGED <<work, landed>>

Next == (\E t \in Tasks : Make(t)) \/ Land \/ Close \/ GiveUp

Spec == Init /\ [][Next]_vars
=============================================================================
