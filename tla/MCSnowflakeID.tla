--------------------------- MODULE MCSnowflakeID ---------------------------
(* A small instance of the id generators for TLC: two goroutines of one    *)
(* process, which is given more ids than its epoch has, and one of another *)
EXTENDS SnowflakeID

CONSTANTS w1, w2, t1, t2, t3

MCWorkers == {w1, w2}
MCThreads == {t1, t2, t3}
MCWorkerOf == [t \in MCThreads |-> IF t = t3 THEN w2 ELSE w1]
MCWorkerId == [w \in MCWorkers |-> IF w = w1 THEN 0 ELSE 1]
MCMaxIds == [w \in MCWorkers |-> IF w = w1 THEN 4 ELSE 1]
MCMaxLives == [w \in MCWorkers |-> IF w = w1 THEN 2 ELSE 1]

=============================================================================
