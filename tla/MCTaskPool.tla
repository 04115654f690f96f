----------------------------- MODULE MCTaskPool ------------------------------
(* A pool of two workers for TLC: main, which owns the pool, and another    *)
(* caller of addTask share two tasks; null entries may be added as well.    *)
(* Two workers are the least that can race for a task, three entries the    *)
(* least that leave one in the list while both work.                        *)
EXTENDS TaskPool

CONSTANTS w1, w2, main, other, t1, t2

MCThreads == {w1, w2}
MCCallers == {main, other}
MCTasks == {t1, t2}
==============================================================================
