------------------------------ MODULE MCMutex ------------------------------
(* Instances of Mutex for TLC.                                             *)
EXTENDS Mutex

CONSTANTS high, mid, low, m1, m2

MCIpri == [t \in {high, mid, low} |-> IF t = high THEN 1 ELSE IF t = mid THEN 2 ELSE 3]
MCIpriSame == [t \in {high, mid, low} |-> 2]
AllAlike == Permutations({high, mid, low})
MCNoSem == [s \in {} |-> 0]
MCInherit == [m \in {m1, m2} |-> {"INHERIT"}]
MCMixed == [m \in {m1, m2} |-> IF m = m1 THEN {"INHERIT"} ELSE {"INHERIT", "CEILING", "FIFO"}]
MCCeil == [m \in {m1, m2} |-> 1]
MCOrdered == [m \in {m1, m2} |-> IF m = m1 THEN 1 ELSE 2]
MCAnyOrder == [m \in {m1, m2} |-> 0]

(* Either two mutexes and no timeouts, or timeouts and one mutex with       *)
(* dispatching enabled: both at once make more states than a run can visit. *)
Timed == \E t \in Task : due[t] # 0
ChainsOrTimeouts ==
    IF Timed'
    THEN mtxatr'[m2] = NONE /\ mpri'[m2] = TMAX_TPRI /\ ~dsp'
    ELSE systim' = Zero
=============================================================================
