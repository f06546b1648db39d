------------------------------ MODULE FixedPool ------------------------------
(***************************************************************************)
(* Fixed-sized memory pools (uC3crempf.c, uC3delmpf.c, uC3getmpf.c,        *)
(* uC3relmpf.c): a list of the free blocks, linked through their own       *)
(* memory, of which the first is taken and to the front of which one is    *)
(* returned; a returned block goes to the first task that waits.           *)
(***************************************************************************)
EXTENDS Waiting

CONSTANTS Mpf,
          BlkCnt,    \* the number of blocks of each pool
          MpfAtr     \* attributes to create pools with

ASSUME FixedPoolAssumption ==
    /\ Mpf \subseteq Obj /\ BlkCnt \in [Mpf -> Nat \ {0}]
    /\ MpfAtr \subseteq SUBSET {"TPRI"}

VARIABLES free,      \* the free blocks from mpf->top on
          blkcnt,
          lent       \* history: the blocks that tasks hold
mpfvars == <<free, blkcnt, lent>>

MpfInit ==
    /\ free = [o \in Mpf |-> <<>>] /\ blkcnt = [o \in Mpf |-> 0]
    /\ lent = [o \in Mpf |-> {}]

-----------------------------------------------------------------------------
CreMpf(o, a) ==
    /\ Create(o, a)
    /\ free' = [free EXCEPT ![o] = [i \in 1..BlkCnt[o] |-> i]]
    /\ blkcnt' = [blkcnt EXCEPT ![o] = BlkCnt[o]]
    /\ lent' = [lent EXCEPT ![o] = {}]

DelMpf(o) ==
    /\ Delete(o)
    /\ free' = [free EXCEPT ![o] = <<>>] /\ blkcnt' = [blkcnt EXCEPT ![o] = 0]
    /\ lent' = [lent EXCEPT ![o] = {}]

(* get_mpf, pget_mpf and tget_mpf that need not wait *)
GetMpf(o) ==
    /\ o \in objs /\ free[o] # <<>>
    /\ Gives(o, Head(free[o]))
    /\ free' = [free EXCEPT ![o] = Tail(@)]
    /\ blkcnt' = [blkcnt EXCEPT ![o] = @ - 1]
    /\ lent' = [lent EXCEPT ![o] = @ \cup {Head(free[o])}]
    /\ UNCHANGED <<waiting, steady>>

GetMpfWait(t, o, timed) ==
    /\ Ready(t) /\ o \in objs /\ free[o] = <<>>
    /\ Block(t, o, "MPF", NONE, timed)
    /\ GivesNothing
    /\ UNCHANGED <<steady, mpfvars>>

(* A fault: the block that went to a task is linked in too. *)
RelMpfBoth(o, b) ==
    /\ o \in objs /\ b \in lent[o]
    /\ IF sque[o] # <<>>
       THEN Wake({Head(sque[o])}) /\ Gives(o, b) /\ UNCHANGED lent
       ELSE GivesNothing /\ UNCHANGED waiting /\ lent' = [lent EXCEPT ![o] = @ \ {b}]
    /\ free' = [free EXCEPT ![o] = <<b>> \o @]
    /\ blkcnt' = [blkcnt EXCEPT ![o] = @ + 1]
    /\ UNCHANGED steady

RelMpf(o, b) ==
    /\ o \in objs /\ b \in lent[o]
    /\ IF sque[o] # <<>>
       THEN Wake({Head(sque[o])}) /\ Gives(o, b) /\ UNCHANGED mpfvars
       ELSE /\ free' = [free EXCEPT ![o] = <<b>> \o @]
            /\ blkcnt' = [blkcnt EXCEPT ![o] = @ + 1]
            /\ lent' = [lent EXCEPT ![o] = @ \ {b}]
            /\ GivesNothing /\ UNCHANGED waiting
    /\ UNCHANGED steady

MpfNext == \E o \in Mpf \cap ids :
    \/ \E a \in MpfAtr : CreMpf(o, a)
    \/ DelMpf(o) \/ GetMpf(o)
    \/ \E b \in lent[o] : RelMpf(o, b)
    \/ \E t \in Task, timed \in BOOLEAN : GetMpfWait(t, o, timed)

-----------------------------------------------------------------------------
MpfTypeOK ==
    /\ free \in [Mpf -> Seq(Nat)] /\ blkcnt \in [Mpf -> Nat]
    /\ lent \in [Mpf -> SUBSET Nat]

(* Every block is in the free list once or lent to one task: none is lost  *)
(* or lent twice over any sequence of timeouts, releases and hand-overs.   *)
BlocksKept == \A o \in objs \cap Mpf :
    /\ blkcnt[o] = Len(free[o])
    /\ Members(free[o]) \cup lent[o] = 1..BlkCnt[o]
    /\ Members(free[o]) \cap lent[o] = {}
    /\ \A i, j \in 1..Len(free[o]) : free[o][i] = free[o][j] => i = j

(* No task waits for a block while there is a free one. *)
NoIdleMpf == \A o \in objs \cap Mpf : sque[o] # <<>> => free[o] = <<>>

=============================================================================
