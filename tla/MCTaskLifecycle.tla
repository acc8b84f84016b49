--------------------------- MODULE MCTaskLifecycle ---------------------------
(* Instances of TaskLifecycle for TLC: two tasks, the second depends on the  *)
(* first, so that they are not interchangeable.                              *)
EXTENDS TaskLifecycle

CONSTANTS t1, t2

mcTasks == {t1, t2}
mcDependsOn == [t \in mcTasks |-> IF t = t2 THEN {t1} ELSE {}]
mcCommands == [cli |-> 2, loop |-> 1]
=============================================================================
