--------------------------- MODULE DeliveryProofs ---------------------------
(* WaveLoop implements Delivery, for every number of tasks, slots, runs,      *)
(* crashes and faults.                                                        *)
EXTENDS WaveLoopProofs

\* Every commit that a branch reaches is one of those made for its task, so a
\* new commit is never mistaken for one that was given up.
CommitsMade == \A x \in AllCommits : x.n <= work[x.task]

LEMMA CommitsTyped ==
  ASSUME TypeInv
  PROVE  /\ work \in [Tasks -> Nat] /\ main \in SUBSET Commits
         /\ branch \in [Ephemeral -> SUBSET Commits]
         /\ AllCommits \in SUBSET Commits
<1>1. /\ work \in [Tasks -> Nat] /\ main \in SUBSET Commits
      /\ branch \in [Ephemeral -> SUBSET Commits]
  BY DEF TypeInv, TypeOK, GitTypeOK
<1> QED BY <1>1 DEF AllCommits

\* What an agent's commit, or its absence, does to the three git variables.
LEMMA AgentCommits ==
  ASSUME ConstantsAssumption, TypeInv, NEW s \in Slots, AgentFinishes(s)
  PROVE  \/ work' = work /\ main' = main /\ branch' = branch
         \/ \E t \in Tasks, x \in Commits :
              /\ x.task = t /\ x.n = work[t] + 1
              /\ work' = [work EXCEPT ![t] = @ + 1]
              /\ main' \in {main, main \cup {x}}
              /\ AllCommits' = AllCommits \cup {x}
<1>t. slot[s].task \in Tasks /\ work \in [Tasks -> Nat]
  <2>1. slot[s].state # "idle" BY DEF AgentFinishes, Running
  <2> QED BY <2>1, CommitsTyped, ProcessedSlotTypes
<1> DEFINE t == slot[s].task
<1>1. PICK r \in AgentResults \cup {Interrupted} :
        LET new == IF r.commit = "none" THEN {}
                   ELSE {[task |-> t, n |-> work[t] + 1,
                          marked |-> r.commit = "marked"]}
        IN /\ work' = [work EXCEPT ![t] = IF r.commit = "none" THEN @ ELSE @ + 1]
           /\ main' = IF s = 0 THEN main \cup new ELSE main
           /\ branch' = [e \in Ephemeral |->
                           IF e = s THEN branch[e] \cup new ELSE branch[e]]
  BY DEF AgentFinishes
<1>b. branch \in [Ephemeral -> SUBSET Commits] BY CommitsTyped
<1>2. CASE r.commit = "none"
  <2>1. work' = work BY <1>1, <1>2, <1>t
  <2>2. main' = main BY <1>1, <1>2
  <2>3. branch' = branch BY <1>1, <1>2, <1>b
  <2> QED BY <2>1, <2>2, <2>3
<1>3. CASE r.commit # "none"
  <2> DEFINE x == [task |-> t, n |-> work[t] + 1, marked |-> r.commit = "marked"]
  <2>1. x \in Commits /\ x.task = t /\ x.n = work[t] + 1
    BY <1>t DEF Commits
  <2>2. work' = [work EXCEPT ![t] = @ + 1] BY <1>1, <1>3, <1>t
  <2>3. /\ main' = IF s = 0 THEN main \cup {x} ELSE main
        /\ branch' = [e \in Ephemeral |->
                        IF e = s THEN branch[e] \cup {x} ELSE branch[e]]
    BY <1>1, <1>3
  <2>4. s = 0 \/ s \in Ephemeral BY DEF Ephemeral
  <2>5. 0 \notin Ephemeral BY DEF Ephemeral
  <2>6. AllCommits' = AllCommits \cup {x}
    <3>1. CASE s = 0
      <4>1. \A e \in Ephemeral : branch'[e] = branch[e]
        BY <2>3, <2>5, <3>1
      <4>2. main' = main \cup {x} BY <2>3, <3>1
      <4> HIDE DEF x
      <4> QED BY <4>1, <4>2 DEF AllCommits
    <3>2. CASE s # 0
      <4>1. main' = main BY <2>3, <3>2
      <4>2. \A e \in Ephemeral :
              branch'[e] = IF e = s THEN branch[e] \cup {x} ELSE branch[e]
        BY <2>3
      <4>3. s \in Ephemeral BY <2>4, <3>2
      <4> HIDE DEF x
      <4>m. /\ \A y : y \in AllCommits <=>
                  y \in main \/ \E e \in Ephemeral : y \in branch[e]
            /\ \A y : y \in AllCommits' <=>
                  y \in main' \/ \E e \in Ephemeral : y \in branch'[e]
        BY DEF AllCommits
      <4>4. AllCommits' \subseteq AllCommits \cup {x}
        BY <4>1, <4>2, <4>m
      <4>5. x \in AllCommits' BY <4>2, <4>3, <4>m
      <4>6. \A e \in Ephemeral : branch[e] \subseteq branch'[e] BY <4>2
      <4>7. AllCommits \subseteq AllCommits' BY <4>1, <4>6 DEF AllCommits
      <4> QED BY <4>4, <4>5, <4>7
    <3> QED BY <3>1, <3>2
  <2>7. main' \in {main, main \cup {x}} BY <2>3
  <2> HIDE DEF x
  <2> QED BY <1>t, <2>1, <2>2, <2>6, <2>7
<1> QED BY <1>2, <1>3

\* Nothing but an agent makes a commit.
LEMMA OnlyAgentsCommit ==
  ASSUME ConstantsAssumption, TypeInv, Next, \A s \in Slots : ~AgentFinishes(s)
  PROVE  work' = work /\ AllCommits' \subseteq AllCommits
<1>b. branch \in [Ephemeral -> SUBSET Commits] BY CommitsTyped
<1>1. CASE ReconcileStaleSlots
  <2>w. work' = work BY <1>1 DEF ReconcileStaleSlots
  <2> SUFFICES main' \subseteq AllCommits
               /\ \A s \in Ephemeral : branch'[s] \subseteq AllCommits
    BY <2>w DEF AllCommits
  <2>1. CASE dirty # {}
    <3>1. /\ main' = main
          /\ branch' = [s \in Ephemeral |->
               IF s \in StaleWork \cup dirty THEN branch[s] ELSE {}]
      BY <1>1, <2>1 DEF ReconcileStaleSlots
    <3> QED BY <3>1 DEF AllCommits
  <2>2. CASE dirty = {}
    <3>1. PICK R \in SUBSET StaleWork :
            /\ main' = main \cup UNION {branch[e] : e \in R}
            /\ \/ branch' = [e \in Ephemeral |->
                               IF e \in StaleWork \ R THEN branch[e] ELSE {}]
               \/ branch' = [e \in Ephemeral |->
                               IF e \in StaleWork \ R THEN branch[e] ELSE main']
      BY <1>1, <2>2 DEF ReconcileStaleSlots
    <3>2. R \subseteq Ephemeral BY DEF StaleWork
    <3>3. main' \subseteq AllCommits BY <3>1, <3>2 DEF AllCommits
    <3>4. \A s \in Ephemeral : branch'[s] \in {branch[s], {}, main'}
      BY <3>1
    <3> QED BY <3>3, <3>4 DEF AllCommits
  <2> QED BY <2>1, <2>2
<1>2. CASE FastForward
  <2>1. /\ work' = work /\ main' = main
        /\ \A s \in Ephemeral : branch'[s] \in {main, branch[s]}
    BY <1>2 DEF FastForward, Advanced
  <2> QED BY <2>1 DEF AllCommits
<1>3. CASE ExitCleanup
  <2>1. /\ work' = work /\ main' = main
        /\ \A s \in Ephemeral : branch'[s] \in {{}, branch[s]}
    BY <1>3 DEF ExitCleanup
  <2> QED BY <2>1 DEF AllCommits
<1>4. ASSUME NEW s \in Slots, MergeSlot(s)
      PROVE  work' = work /\ AllCommits' \subseteq AllCommits
  <2>1. work' = work /\ branch' = branch BY <1>4 DEF MergeSlot
  <2>2. main' = main \/ main' = main \cup branch[s]
    BY <1>4 DEF MergeSlot, MergeOk, AttemptHead
  <2>3. CASE s \in Ephemeral BY <2>1, <2>2, <2>3 DEF AllCommits
  <2>4. s # 0
    <3>1. pc = "merge" /\ cursor = s BY <1>4 DEF MergeSlot
    <3> QED BY <3>1 DEF TypeInv, WaveShape
  <2> QED BY <2>3, <2>4 DEF Ephemeral
<1>5. CASE /\ ~ReconcileStaleSlots /\ ~FastForward /\ ~ExitCleanup
           /\ \A s \in Slots : ~MergeSlot(s)
  <2>1. main' = main /\ branch' = branch BY <1>5, OnlyGitActions
  <2>2. work' = work BY <1>5, WorkKept
  <2> QED BY <2>1, <2>2 DEF AllCommits
<1> QED BY <1>1, <1>2, <1>3, <1>4, <1>5

LEMMA CommitsMadeStep ==
  ASSUME ConstantsAssumption, TypeInv, CommitsMade, Next PROVE CommitsMade'
<1>t. work \in [Tasks -> Nat] /\ AllCommits \subseteq Commits BY CommitsTyped
<1>1. CASE \A s \in Slots : ~AgentFinishes(s)
  BY <1>1, OnlyAgentsCommit DEF CommitsMade
<1>2. ASSUME NEW s \in Slots, AgentFinishes(s) PROVE CommitsMade'
  <2>1. CASE work' = work /\ main' = main /\ branch' = branch
    BY <2>1 DEF CommitsMade, AllCommits
  <2>2. ASSUME NEW t \in Tasks, NEW x \in Commits,
               x.task = t, x.n = work[t] + 1,
               work' = [work EXCEPT ![t] = @ + 1],
               AllCommits' = AllCommits \cup {x}
        PROVE  CommitsMade'
    <3>1. \A u \in Tasks : work[u] \in Nat /\ work'[u] \in Nat
                          /\ work[u] <= work'[u]
      BY <1>t, <2>2
    <3>2. x.n <= work'[x.task] BY <1>t, <2>2
    <3>3. \A y \in AllCommits : y.task \in Tasks /\ y.n \in Nat
                               /\ y.n <= work[y.task]
      BY <1>t DEF CommitsMade, Commits
    <3>4. \A y \in AllCommits : y.n <= work'[y.task] BY <3>1, <3>3
    <3> QED BY <2>2, <3>2, <3>4 DEF CommitsMade
  <2> QED BY <1>2, <2>1, <2>2, AgentCommits
<1> QED BY <1>1, <1>2

-----------------------------------------------------------------------------
(* The refinement.                                                         *)

\* What CommitsMade says of the names Delivery knows commits by.
LEMMA NamesMade ==
  ASSUME TypeInv, CommitsMade
  PROVE  Names(AllCommits) \subseteq Made
<1> SUFFICES ASSUME NEW x \in AllCommits PROVE Name(x) \in Made
  BY DEF Names
<1>1. x.task \in Tasks /\ x.n \in Nat \ {0} /\ work[x.task] \in Nat
  BY CommitsTyped DEF Commits
<1>2. x.n \in 1 .. work[x.task] BY <1>1 DEF CommitsMade
<1> QED BY <1>1, <1>2 DEF Made, Name

\* A commit is one of those made exactly when its number is in range.
LEMMA MadeMembers ==
  ASSUME NEW t \in Tasks, NEW k
  PROVE  [task |-> t, n |-> k] \in Made <=> k \in 1 .. work[t]
<1>1. ASSUME k \in 1 .. work[t] PROVE [task |-> t, n |-> k] \in Made
  BY <1>1 DEF Made
<1>2. ASSUME [task |-> t, n |-> k] \in Made PROVE k \in 1 .. work[t]
  <2>1. PICK u \in Tasks : \E j \in 1 .. work[u] :
          [task |-> t, n |-> k] = [task |-> u, n |-> j]
    BY <1>2 DEF Made
  <2>2. u = t BY <2>1
  <2>3. \E j \in 1 .. work[t] : j = k BY <2>1, <2>2
  <2> QED BY <2>3
<1> QED BY <1>1, <1>2

\* An agent's commit is a Make.
LEMMA CommitIsMake ==
  ASSUME ConstantsAssumption, TypeInv, CommitsMade,
         NEW t \in Tasks, NEW x \in Commits,
         x.task = t, x.n = work[t] + 1, work' = [work EXCEPT ![t] = @ + 1],
         main' \in {main, main \cup {x}}, AllCommits' = AllCommits \cup {x},
         pc # "cleanup", pc' = pc
  PROVE  Given!Make(t)
<1> DEFINE i == [task |-> t, n |-> work[t] + 1]
<1>t. work \in [Tasks -> Nat] BY CommitsTyped
<1>1. Names(main') \in {Names(main), Names(main) \cup {i}}
  BY DEF Names, Name
<1>2. Names(AllCommits') = Names(AllCommits) \cup {i} BY DEF Names, Name
<1>3. i \notin Made BY <1>t, MadeMembers
<1>4. Made' = Made \cup {i}
  <2>1. \A u \in Tasks : work'[u] = IF u = t THEN work[t] + 1 ELSE work[u]
    BY <1>t
  <2>2. 1 .. work[t] + 1 = 1 .. work[t] \cup {work[t] + 1} BY <1>t
  <2>3. \A u \in Tasks : \A k : k \in 1 .. work'[u] <=>
          k \in 1 .. work[u] \/ (u = t /\ k = work[t] + 1)
    BY <2>1, <2>2
  <2>4. Made' \subseteq Made \cup {i}
    <3> SUFFICES ASSUME NEW y \in Made' PROVE y \in Made \cup {i} OBVIOUS
    <3>1. PICK u \in Tasks : \E k \in 1 .. work'[u] : y = [task |-> u, n |-> k]
      BY DEF Made
    <3>k. PICK k \in 1 .. work'[u] : y = [task |-> u, n |-> k] BY <3>1
    <3>2. CASE k \in 1 .. work[u] BY <3>k, <3>2, MadeMembers
    <3>3. CASE u = t /\ k = work[t] + 1 BY <3>k, <3>3
    <3> QED BY <2>3, <3>k, <3>2, <3>3
  <2>5. i \in Made'
    <3>1. work[t] + 1 \in 1 .. work'[t] BY <2>3
    <3> QED BY <3>1 DEF Made
  <2>6. Made \subseteq Made'
    <3> SUFFICES ASSUME NEW y \in Made PROVE y \in Made' OBVIOUS
    <3>1. PICK u \in Tasks : \E k \in 1 .. work[u] : y = [task |-> u, n |-> k]
      BY DEF Made
    <3>k. PICK k \in 1 .. work[u] : y = [task |-> u, n |-> k] BY <3>1
    <3>2. k \in 1 .. work'[u] BY <2>3, <3>k
    <3> QED BY <3>k, <3>2 DEF Made
  <2> QED BY <2>4, <2>5, <2>6
<1>5. Made' \ Names(AllCommits') = Made \ Names(AllCommits)
  BY <1>2, <1>3, <1>4
<1> HIDE DEF i
<1> QED BY <1>1, <1>5 DEF Given!Make, i

\* The actions that take a commit to the loop branch leave its exit alone.
LEMMA LandingKeepsRun ==
  ASSUME Next, main' # main
  PROVE  pc # "cleanup" /\ pc' # "cleanup"
<1>1. CASE ReconcileStaleSlots
  <2>1. pc = "stale" /\ pc' \in {"down", "top"}
    BY <1>1 DEF ReconcileStaleSlots
  <2> QED BY <2>1
<1>2. CASE FastForward \/ ExitCleanup BY <1>2 DEF FastForward, ExitCleanup
<1>3. ASSUME NEW s \in Slots, AgentFinishes(s)
      PROVE  pc # "cleanup" /\ pc' # "cleanup"
  BY <1>3 DEF AgentFinishes
<1>4. ASSUME NEW s \in Slots, MergeSlot(s)
      PROVE  pc # "cleanup" /\ pc' # "cleanup"
  BY <1>4 DEF MergeSlot
<1> QED BY <1>1, <1>2, <1>3, <1>4, OnlyGitActions

\* Every step of the loop is a step of Delivery, or none of its variables
\* changes.
LEMMA DeliveryStep ==
  ASSUME ConstantsAssumption, TypeInv, CommitsMade, Next
  PROVE  Given!Next \/ UNCHANGED Given!vars
<1> DEFINE lost == Made \ Names(AllCommits)
<1>m. Names(main) \subseteq Names(main') BY MainGrows DEF Names
<1>n. Names(AllCommits) \subseteq Made BY NamesMade
<1>g. Given!Made = Made BY DEF Given!Made, Made
<1>a. Names(main') \subseteq Names(AllCommits') BY DEF Names, AllCommits
<1>b. Names(main) \subseteq Names(AllCommits) BY DEF Names, AllCommits
<1>1. ASSUME NEW s \in Slots, AgentFinishes(s)
      PROVE  Given!Next \/ UNCHANGED Given!vars
  <2>1. pc = "run" /\ pc' = pc BY <1>1 DEF AgentFinishes
  <2>2. CASE work' = work /\ main' = main /\ branch' = branch
    BY <2>1, <2>2 DEF Given!vars, Made, Names, AllCommits
  <2>3. ASSUME NEW t \in Tasks, NEW x \in Commits,
               x.task = t, x.n = work[t] + 1,
               work' = [work EXCEPT ![t] = @ + 1],
               main' \in {main, main \cup {x}},
               AllCommits' = AllCommits \cup {x}
        PROVE  Given!Next
    <3>1. Given!Make(t) BY <2>1, <2>3, CommitIsMake
    <3> QED BY <3>1 DEF Given!Next
  <2> QED BY <1>1, <2>2, <2>3, AgentCommits
<1>2. CASE \A s \in Slots : ~AgentFinishes(s)
  <2>1. work' = work /\ AllCommits' \subseteq AllCommits
    BY <1>2, OnlyAgentsCommit
  <2>2. Made' = Made BY <2>1 DEF Made
  <2>3. CASE pc # "cleanup"
    <3>1. AllCommits' = AllCommits BY <2>1, <2>3, CommitsKept
    <3>2. lost' = lost BY <2>2, <3>1 DEF Names
    <3>3. CASE main' = main
      <4>1. Names(main)' = Names(main) BY <3>3 DEF Names
      <4>2. CASE pc' = "cleanup"
        <5>1. Given!Close
          BY <2>1, <2>3, <3>2, <4>1, <4>2 DEF Given!Close
        <5> QED BY <5>1 DEF Given!Next
      <4>3. CASE pc' # "cleanup"
        BY <2>1, <2>3, <3>2, <4>1, <4>3 DEF Given!vars
      <4> QED BY <4>2, <4>3
    <3>4. CASE main' # main
      <4>1. pc' # "cleanup" BY <3>4, LandingKeepsRun
      <4> DEFINE S == Names(main') \ Names(main)
      <4>2. S \subseteq Given!Waiting
        BY <1>a, <1>g, <1>n, <3>1 DEF Given!Waiting
      <4>3. Names(main') = Names(main) \cup S BY <1>m
      <4>4. Given!Land
        <5> HIDE DEF S
        <5> QED BY <2>1, <2>3, <3>2, <4>1, <4>2, <4>3 DEF Given!Land
      <4> QED BY <4>4 DEF Given!Next
    <3> QED BY <3>3, <3>4
  <2>4. CASE pc = "cleanup"
    <3>1. main' = main BY <2>4, LandingKeepsRun
    <3>2. Names(main)' = Names(main) BY <3>1 DEF Names
    <3>3. CASE pc' = "cleanup"
      <4>1. ~ReconcileStaleSlots /\ ~FastForward
        BY <2>4 DEF ReconcileStaleSlots, FastForward
      <4>2. ~ExitCleanup BY <3>3 DEF ExitCleanup, Forget
      <4>3. \A s \in Slots : ~MergeSlot(s) BY <2>4 DEF MergeSlot
      <4>4. branch' = branch BY <1>2, <4>1, <4>2, <4>3, OnlyGitActions
      <4>5. lost' = lost BY <2>2, <3>1, <4>4 DEF Names, AllCommits
      <4> QED BY <2>1, <2>4, <3>2, <3>3, <4>5 DEF Given!vars
    <3>4. CASE pc' # "cleanup"
      <4> DEFINE S == Names(AllCommits) \ Names(AllCommits')
      <4>1. Names(AllCommits') \subseteq Names(AllCommits)
        BY <2>1 DEF Names
      <4>2. S \subseteq Given!Waiting
        <5>1. Names(main) \subseteq Names(AllCommits') BY <1>a, <3>2
        <5> QED BY <1>g, <1>n, <5>1 DEF Given!Waiting
      <4>3. lost' = lost \cup S BY <1>n, <2>2, <4>1
      <4>4. Given!GiveUp
        <5> HIDE DEF S
        <5> QED BY <2>1, <2>4, <3>2, <3>4, <4>2, <4>3 DEF Given!GiveUp
      <4> QED BY <4>4 DEF Given!Next
    <3> QED BY <3>3, <3>4
  <2> QED BY <2>3, <2>4
<1> QED BY <1>1, <1>2

LEMMA CommitsMadeInvariant == Spec => []CommitsMade
<1>1. Init => CommitsMade BY DEF Init, CommitsMade, AllCommits
<1>2. TypeInv /\ CommitsMade /\ [Next]_vars => CommitsMade'
  <2>1. CASE Next BY <2>1, CommitsMadeStep, ConstantsAssumption
  <2>2. CASE UNCHANGED vars
    BY <2>2 DEF vars, git, CommitsMade, AllCommits
  <2> QED BY <2>1, <2>2
<1> QED BY <1>1, <1>2, TypeInvariant, PTL DEF Spec

\* WaveLoop implements Delivery: whatever conflicts, resets, crashes, refused
\* fast-forwards and restarts happen, a commit lands at most once and for good,
\* one that was given up never comes back, and only the cleanup of a run that
\* is over gives any up.
THEOREM LoopDelivers == Spec => DeliversWork
<1>1. Init => Given!Init
  <2> SUFFICES ASSUME Init PROVE Given!Init OBVIOUS
  <2>1. work = [t \in Tasks |-> 0] /\ main = {} /\ pc # "cleanup"
    BY DEF Init
  <2>2. Made = {}
    <3>1. \A t \in Tasks : 1 .. work[t] = {} BY <2>1
    <3> QED BY <3>1 DEF Made
  <2> QED BY <2>1, <2>2 DEF Given!Init, Names
<1>2. TypeInv /\ CommitsMade /\ [Next]_vars => [Given!Next]_(Given!vars)
  <2>1. CASE Next BY <2>1, DeliveryStep, ConstantsAssumption
  <2>2. CASE UNCHANGED vars
    BY <2>2 DEF vars, git, Given!vars, Made, Names, AllCommits
  <2> QED BY <2>1, <2>2
<1> QED
  BY <1>1, <1>2, TypeInvariant, CommitsMadeInvariant, PTL
  DEF Spec, DeliversWork, Given!Spec
=============================================================================
