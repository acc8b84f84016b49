------------------------------ MODULE MCSession ------------------------------
(* An instance of Session for TLC: a batch over two PRDs beside a single loop *)
(* over the first of them, which a crash has left with a claimed row; the     *)
(* second PRD was finished by an earlier run.                                 *)
EXTENDS Session

CONSTANTS p1, p2, a1, a2, b1

mcPlan == [x \in {p1, p2} |-> IF x = p1 THEN <<"A", "B">> ELSE <<"A">>]
mcIterations == [x \in {p1, p2} |-> 1]
mcAgents == [x \in {p1, p2} |-> IF x = p1 THEN AgentOutcomes
                                   ELSE {"completed", "crash"}]
mcTasksOf == [P \in {"A", "B"} |-> IF P = "A" THEN {a1, a2} ELSE {b1}]
mcInitialStatus == [t \in {a1, a2, b1} |-> CASE t = a1 -> "in_progress"
                                           [] t = a2 -> "todo"
                                           [] t = b1 -> "done"]
mcDependsOn == [t \in {a1, a2, b1} |-> {}]
=============================================================================
