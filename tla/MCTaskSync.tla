---------------------------- MODULE MCTaskSync ----------------------------
(* Instances of TaskSync for TLC.                                          *)
EXTENDS TaskSync

CONSTANTS t1, t2, t3, s1

MCIpri == [t \in {t1, t2} |-> IF t = t1 THEN 1 ELSE 2]
MCIpriSame == [t \in {t1, t2} |-> 2]
Alike == Permutations({t1, t2})
MCIpriEqual == [t \in {t1, t2, t3} |-> IF t = t1 THEN 1 ELSE 2]
MCFifo == [s \in {s1} |-> "FIFO"]
MCTpri == [s \in {s1} |-> "TPRI"]
MCNoCnt == [s \in {s1} |-> 0]
MCMaxSem == [s \in {s1} |-> 1]
=============================================================================
