------------------------------- MODULE Objects -------------------------------
(***************************************************************************)
(* The communication objects together, with what the tasks that wait for   *)
(* them share: priorities, timeouts, rel_wai and ter_tsk.  A service is    *)
(* one step; but while the kernel serves the tasks waiting for a memory    *)
(* pool or message buffer one by one, the next step is the next of these.  *)
(* A task that does the same after its timeout has no such privilege.      *)
(***************************************************************************)
EXTENDS Semaphore, EventFlag, DataQueue, Mailbox, MessageBuffer, Rendezvous,
        FixedPool, MemPool

(* The identifiers of each kind. *)
Kind == <<Flg, Dtq, Mbx, Mbf, Por, Mpf, Mpl, Sem>>

ASSUME ObjectsAssumption ==
    /\ \A o \in Obj : \E i \in 1..8 : o \in Kind[i]
    /\ \A i, j \in 1..8 : i # j => Kind[i] \cap Kind[j] = {}

vars == <<wvars, semcnt, flgptn, dtqvars, mbxvars, mbfvars, mpfvars, mplvars, overtaken>>

Init ==
    /\ WInit /\ SemInit /\ FlgInit /\ DtqInit /\ MbxInit /\ MbfInit /\ MpfInit /\ MplInit

-----------------------------------------------------------------------------
(* What every kind of object knows nothing of. *)
TaskNext == \E t \in Task :
    \/ TimeOut(t) \/ RelWai(t) \/ TerTsk(t)
    \/ \E p \in 1..MaxPri : ChgPri(t, p)

Service ==
    /\ chk = NONE
    /\ \/ TaskNext /\ UNCHANGED <<semcnt, flgptn, dtqvars, mbxvars, mbfvars, mpfvars, mplvars>>
       \/ SemNext  /\ UNCHANGED <<flgptn, dtqvars, mbxvars, mbfvars, mpfvars, mplvars>>
       \/ FlgNext  /\ UNCHANGED <<semcnt, dtqvars, mbxvars, mbfvars, mpfvars, mplvars>>
       \/ DtqNext  /\ UNCHANGED <<semcnt, flgptn, mbxvars, mbfvars, mpfvars, mplvars>>
       \/ MbxNext  /\ UNCHANGED <<semcnt, flgptn, dtqvars, mbfvars, mpfvars, mplvars>>
       \/ MbfNext  /\ UNCHANGED <<semcnt, flgptn, dtqvars, mbxvars, mpfvars, mplvars>>
       \/ PorNext  /\ UNCHANGED <<semcnt, flgptn, dtqvars, mbxvars, mbfvars, mpfvars, mplvars>>
       \/ MpfNext  /\ UNCHANGED <<semcnt, flgptn, dtqvars, mbxvars, mbfvars, mplvars>>
       \/ MplNext  /\ UNCHANGED <<semcnt, flgptn, dtqvars, mbxvars, mbfvars, mpfvars>>

Serving ==
    \/ \E o \in Mpl : ChkMpl(o) /\ UNCHANGED <<semcnt, flgptn, dtqvars, mbxvars, mbfvars, mpfvars>>
    \/ \E o \in Mbf : ChkMbf(o) /\ UNCHANGED <<semcnt, flgptn, dtqvars, mbxvars, mpfvars, mplvars>>

(* Once a look outside the kernel was overtaken nothing more is said. *)
Next ==
    \/ ~overtaken /\ (Service \/ Serving) /\ UNCHANGED overtaken
    \/ /\ ~overtaken /\ chk = NONE /\ \E t \in Task : Overtaken(t)
       /\ UNCHANGED <<semcnt, flgptn, dtqvars, mbxvars, mbfvars, mpfvars>>
    \/ overtaken /\ UNCHANGED vars

Spec == Init /\ [][Next]_vars

-----------------------------------------------------------------------------
TypeOK ==
    /\ WTypeOK /\ SemTypeOK /\ FlgTypeOK /\ DtqTypeOK /\ MbxTypeOK /\ MbfTypeOK
    /\ MpfTypeOK /\ MplTypeOK
    /\ \A t \in Task : /\ wsts[t] = "MPL"  => par[t] \in BlkSz
                       /\ wsts[t] = "SDTQ" => par[t] \in Data
                       /\ wsts[t] = "SMBF" => par[t] \in Mail

(* No task waits for what is there: a resource, a pattern, a word or the   *)
(* room for it, a message, a block.                                        *)
NoIdleWait == NoIdleSem /\ NoIdleFlg /\ NoIdleDtq /\ NoIdleMbx /\ NoIdleMpf

(* The same where requests differ in size, so that the end of one wait may *)
(* let others go on: the pools of memory and the message buffers.          *)
NoIdleMemory == NoIdleMpl /\ NoIdleMbf

=============================================================================
