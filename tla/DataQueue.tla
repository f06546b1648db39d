------------------------------ MODULE DataQueue ------------------------------
(***************************************************************************)
(* Data queues (uC3credtq.c, uC3deldtq.c, uC3snddtq.c, uC3rcvdtq.c): a     *)
(* ring of words, receivers that wait in que while it is empty and senders *)
(* that wait in sque while it is full, each with its word in par.  The     *)
(* control block keeps where the next word is put and how many there are;  *)
(* where the next is taken follows from these.                             *)
(***************************************************************************)
EXTENDS Waiting

CONSTANTS Dtq, Data,
          DtqAtr, DtqCnt    \* attributes and capacities to create queues with

ASSUME DataQueueAssumption ==
    /\ Dtq \subseteq Obj /\ NONE \notin Data
    /\ DtqAtr \subseteq SUBSET {"TPRI"} /\ DtqCnt \subseteq Nat

VARIABLES dtqcnt, cnt, put, dtq
dtqvars == <<dtqcnt, cnt, put, dtq>>

DtqInit ==
    /\ dtqcnt = [o \in Dtq |-> 0] /\ cnt = dtqcnt /\ put = dtqcnt
    /\ dtq = [o \in Dtq |-> <<>>]

-----------------------------------------------------------------------------
(* Faults for the mutants of this module: the ring's end is missed by one; *)
(* a word that replaces one does not advance the place to put.             *)
StoreBeyond(o, v, more) ==
    /\ cnt' = [cnt EXCEPT ![o] = more] /\ dtq' = [dtq EXCEPT ![o][put[o]] = v]
    /\ put' = [put EXCEPT ![o] = IF @ + 1 > dtqcnt[o] THEN 0 ELSE @ + 1]
    /\ UNCHANGED dtqcnt
StoreInPlace(o, v, more) ==
    /\ cnt' = [cnt EXCEPT ![o] = more] /\ dtq' = [dtq EXCEPT ![o][put[o]] = v]
    /\ put' = [put EXCEPT ![o] = IF more = cnt[o] THEN @
                                 ELSE IF @ + 1 >= dtqcnt[o] THEN 0 ELSE @ + 1]
    /\ UNCHANGED dtqcnt

(* The ring takes v.  When a forced word finds it full, it takes the place *)
(* of the oldest one.                                                      *)
Store(o, v, more) ==
    /\ cnt' = [cnt EXCEPT ![o] = more]
    /\ dtq' = [dtq EXCEPT ![o][put[o]] = v]
    /\ put' = [put EXCEPT ![o] = IF @ + 1 >= dtqcnt[o] THEN 0 ELSE @ + 1]
    /\ UNCHANGED dtqcnt

(* Where the oldest word is. *)
Oldest(o) ==
    IF put[o] >= cnt[o] THEN put[o] - cnt[o] ELSE put[o] + dtqcnt[o] - cnt[o]

Full(o) == cnt[o] = dtqcnt[o]

(* cre_dtq with room for n words; what they are at first is not known. *)
CreDtq(o, a, n) ==
    /\ Create(o, a)
    /\ dtqcnt' = [dtqcnt EXCEPT ![o] = n]
    /\ cnt' = [cnt EXCEPT ![o] = 0] /\ put' = [put EXCEPT ![o] = 0]
    /\ dtq' = [dtq EXCEPT ![o] = [i \in 0..(n - 1) |-> NONE]]

(* The control block is gone; it is set to zero when it is created anew. *)
DelDtq(o) ==
    /\ Delete(o)
    /\ dtqcnt' = [dtqcnt EXCEPT ![o] = 0]
    /\ cnt' = [cnt EXCEPT ![o] = 0] /\ put' = [put EXCEPT ![o] = 0]
    /\ dtq' = [dtq EXCEPT ![o] = <<>>]

(* snd_dtq, psnd_dtq, tsnd_dtq and fsnd_dtq that need not wait *)
SndDtq(o, v, fmode) ==
    /\ o \in objs
    /\ fmode => dtqcnt[o] # 0
    /\ IF que[o] # <<>>
       THEN Wake({Head(que[o])}) /\ Gives(o, v) /\ UNCHANGED dtqvars
       ELSE /\ ~Full(o) \/ fmode
            /\ Store(o, v, IF Full(o) THEN cnt[o] ELSE cnt[o] + 1)
            /\ GivesNothing /\ UNCHANGED waiting
    /\ UNCHANGED steady

SndDtqWait(t, o, v, timed) ==
    /\ Ready(t) /\ o \in objs
    /\ que[o] = <<>> /\ Full(o)
    /\ Block(t, o, "SDTQ", v, timed)
    /\ GivesNothing
    /\ UNCHANGED <<steady, dtqvars>>

(* rcv_dtq, prcv_dtq and trcv_dtq that need not wait.  The word of the     *)
(* first sender that waits moves into the place that became free.          *)
RcvDtq(o) ==
    /\ o \in objs
    /\ IF cnt[o] > 0
       THEN /\ Gives(o, dtq[o][Oldest(o)])
            /\ IF sque[o] # <<>>
               THEN LET t == Head(sque[o])
                    IN Wake({t}) /\ Store(o, par[t], cnt[o])
               ELSE /\ cnt' = [cnt EXCEPT ![o] = @ - 1]
                    /\ UNCHANGED <<waiting, dtqcnt, put, dtq>>
       ELSE /\ sque[o] # <<>>
            /\ Gives(o, par[Head(sque[o])])
            /\ Wake({Head(sque[o])}) /\ UNCHANGED dtqvars
    /\ UNCHANGED steady

RcvDtqWait(t, o, timed) ==
    /\ Ready(t) /\ o \in objs
    /\ cnt[o] = 0 /\ sque[o] = <<>>
    /\ Block(t, o, "RDTQ", NONE, timed)
    /\ GivesNothing
    /\ UNCHANGED <<steady, dtqvars>>

DtqNext == \E o \in Dtq \cap ids :
    \/ \E a \in DtqAtr, n \in DtqCnt : CreDtq(o, a, n)
    \/ DelDtq(o) \/ RcvDtq(o)
    \/ \E v \in Data, f \in BOOLEAN : SndDtq(o, v, f)
    \/ \E t \in Task, timed \in BOOLEAN :
          \/ \E v \in Data : SndDtqWait(t, o, v, timed)
          \/ RcvDtqWait(t, o, timed)

-----------------------------------------------------------------------------
(* The line of values a data queue holds: the ring from its oldest word    *)
(* on, and behind it the words of the senders in the order they will be    *)
(* served.                                                                 *)
Stored(o) == [i \in 1..cnt[o] |->
    LET p == Oldest(o) + i - 1
    IN dtq[o][IF p >= dtqcnt[o] THEN p - dtqcnt[o] ELSE p]]
Line(o) == Stored(o) \o [i \in 1..Len(sque[o]) |-> par[sque[o][i]]]

DtqTypeOK ==
    /\ dtqcnt \in [Dtq -> Nat] /\ cnt \in [Dtq -> Nat] /\ put \in [Dtq -> Nat]
    /\ DOMAIN dtq = Dtq
    /\ \A o \in Dtq :
          /\ cnt[o] <= dtqcnt[o] /\ (put[o] < dtqcnt[o] \/ put[o] = 0)
          /\ dtq[o] \in [0..(dtqcnt[o] - 1) -> Data \cup {NONE}]

(* A receiver waits only while there is nothing to receive, neither a word *)
(* nor a sender, and a sender only while the ring is full: so the handing  *)
(* over in send and receive never overtakes a word.                        *)
NoIdleDtq == \A o \in objs \cap Dtq :
    /\ que[o] # <<>> => cnt[o] = 0 /\ sque[o] = <<>>
    /\ sque[o] # <<>> => Full(o)

=============================================================================
