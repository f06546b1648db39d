------------------------------ MODULE Semaphore ------------------------------
(***************************************************************************)
(* Semaphores that are created and deleted (uC3cresem.c, uC3delsem.c,      *)
(* uC3waisem.c, uC3sigsem.c).  A returned resource goes to the first task  *)
(* that waits in sque; the counter counts those nobody waits for.          *)
(***************************************************************************)
EXTENDS Waiting

CONSTANTS Sem,
          MaxSem,    \* the largest count of each semaphore
          SemAtr     \* attributes to create semaphores with

ASSUME SemaphoreAssumption ==
    /\ Sem \subseteq Obj /\ MaxSem \in [Sem -> Nat \ {0}]
    /\ SemAtr \subseteq SUBSET {"TPRI"}

VARIABLE semcnt

SemInit == semcnt = [o \in Sem |-> 0]

-----------------------------------------------------------------------------
CreSem(o, a, isemcnt) ==
    /\ isemcnt <= MaxSem[o]
    /\ Create(o, a) /\ semcnt' = [semcnt EXCEPT ![o] = isemcnt]

DelSem(o) == Delete(o) /\ semcnt' = [semcnt EXCEPT ![o] = 0]

(* wai_sem, pol_sem and twai_sem that need not wait *)
WaiSem(o) ==
    /\ o \in objs /\ semcnt[o] > 0
    /\ semcnt' = [semcnt EXCEPT ![o] = @ - 1]
    /\ GivesNothing
    /\ UNCHANGED <<waiting, steady>>

WaiSemWait(t, o, timed) ==
    /\ Ready(t) /\ o \in objs /\ semcnt[o] = 0
    /\ Block(t, o, "SEM", NONE, timed)
    /\ GivesNothing
    /\ UNCHANGED <<steady, semcnt>>

(* A counter that is full refuses with E_QOVR. *)
SigSem(o) ==
    /\ o \in objs
    /\ \/ sque[o] # <<>> /\ Wake({Head(sque[o])}) /\ UNCHANGED semcnt
       \/ /\ sque[o] = <<>> /\ semcnt[o] < MaxSem[o]
          /\ semcnt' = [semcnt EXCEPT ![o] = @ + 1]
          /\ UNCHANGED waiting
    /\ GivesNothing
    /\ UNCHANGED steady

SemNext == \E o \in Sem \cap ids :
    \/ \E a \in SemAtr, n \in 0..MaxSem[o] : CreSem(o, a, n)
    \/ DelSem(o) \/ WaiSem(o) \/ SigSem(o)
    \/ \E t \in Task, timed \in BOOLEAN : WaiSemWait(t, o, timed)

-----------------------------------------------------------------------------
SemTypeOK ==
    /\ semcnt \in [Sem -> Nat] /\ \A o \in Sem : semcnt[o] <= MaxSem[o]

(* No task waits for a resource that is counted as free. *)
NoIdleSem == \A o \in objs \cap Sem : sque[o] # <<>> => semcnt[o] = 0

=============================================================================
