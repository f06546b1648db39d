------------------------------ MODULE TaskSync ------------------------------
(***************************************************************************)
(* Task management, task-dependent synchronisation, delays, timeouts and   *)
(* semaphores: which queues a task is on, and how it gets off them.        *)
(*                                                                         *)
(* A task control block has one pair of links for the ready queue or an    *)
(* object's wait queue and another for the timer queue.  Its flags msts    *)
(* and the reason of its wait wsts alone say which of them are in use, and *)
(* every service that ends a wait, from whatever side, unlinks the block   *)
(* by these.  A service is one step, as Dispatch shows it to be: it        *)
(* belongs to the running task, to an interrupt handler that posted it or  *)
(* to a time event handler.                                                *)
(***************************************************************************)
EXTENDS TimerQueue, Queue, FiniteSets

CONSTANTS Task, Sem,
          MaxPri,     \* the lowest priority
          Ipri,       \* initial priority of each task
          SemAttr,    \* order of each semaphore's wait queue: FIFO or TPRI
          IsemCnt, MaxSem,            \* initial and largest semaphore count
          MaxAct, MaxWup, MaxSus,     \* TMAX_ACTCNT, TMAX_WUPCNT, TMAX_SUSCNT
          Timeouts,   \* the finite timeouts and delays asked for
          Tick,       \* milliseconds per tick
          MaxTime,    \* bound: the time at which ticks cease
          FEVR,       \* TMO_FEVR
          NONE

ASSUME TaskSyncAssumption ==
    /\ IsFiniteSet(Task) /\ NONE \notin Task \cup {"SLP", "DLY"}
    /\ MaxPri \in Nat \ {0} /\ Ipri \in [Task -> 1..MaxPri]
    /\ Sem \cap {"SLP", "DLY", NONE} = {}
    /\ SemAttr \in [Sem -> {"FIFO", "TPRI"}]
    /\ MaxSem \in [Sem -> Nat \ {0}]
    /\ IsemCnt \in [Sem -> Nat] /\ \A s \in Sem : IsemCnt[s] <= MaxSem[s]
    /\ MaxAct \in Nat /\ MaxWup \in Nat /\ MaxSus \in Nat \ {0}
    /\ Tick \in UW \ {0} /\ MaxTime \in Nat
    /\ \A d \in Timeouts : d \in Nat \ {0} /\ d + Tick \in UW
    /\ FEVR \notin Timeouts

VARIABLES
    msts,       \* flags of each task: DMT, RDY, WAI, SUS, FIFO, TMR
    wsts,       \* what a task waits for: SLP, DLY, a semaphore, or NONE
    cpri,       \* current priority; no mutexes here, so bpri is the same
    act, wup, sus,  \* queued activations and wakeups, nested suspensions
    rdq,        \* the ready queue of each priority
    semq,       \* the wait queues of a semaphore: number 0 with FIFO order
    semcnt,
    timq, stime, systim,
    ctcb,       \* the running task; NONE: to be chosen
    pri,        \* the priority it was dispatched with
    dsp, rdsp,  \* dispatching is disabled; a dispatch was deferred
    due         \* history: when a timeout elapses by the call that was made

tcbs   == <<msts, wsts, cpri, act, wup, sus>>
queues == <<rdq, semq, semcnt, timq, stime>>
system == <<ctcb, pri, dsp, rdsp>>
vars   == <<tcbs, queues, system, systim, due>>

Init ==
    /\ msts = [t \in Task |-> {"DMT"}] /\ wsts = [t \in Task |-> NONE]
    /\ cpri = Ipri
    /\ act = [t \in Task |-> 0] /\ wup = act /\ sus = act
    /\ rdq = [p \in 1..MaxPri |-> <<>>]
    /\ semq = [s \in Sem |-> [p \in 0..MaxPri |-> <<>>]] /\ semcnt = IsemCnt
    /\ timq = <<>> /\ stime = [t \in Task |-> Zero] /\ systim = Zero
    /\ ctcb = NONE /\ pri = MaxPri + 1 /\ dsp = FALSE /\ rdsp = FALSE
    /\ due = [t \in Task |-> 0]

-----------------------------------------------------------------------------
(* QUEUES                                                                  *)

Ready(t)   == "RDY" \in msts[t]
Waits(t)   == "WAI" \in msts[t]
Dormant(t) == msts[t] = {"DMT"}

(* A choice of the running task has become necessary; or is put off. *)
Redispatch ==
    IF dsp THEN rdsp' = TRUE /\ UNCHANGED ctcb
           ELSE ctcb' = NONE /\ UNCHANGED rdsp

(* _kernel_enqrdq of the tasks of ts, one after the other, on the queues   *)
(* rq: a suspended one is left with the suspension, the others are ready,  *)
(* at the priorities cp.  One above the running priority takes over.       *)
EnqRdq(ts, rq, cp) ==
    LET in == {ts[i] : i \in 1..Len(ts)}
        ready == {t \in in : "SUS" \notin msts[t]}
    IN /\ msts' = [t \in Task |-> IF t \in ready THEN {"RDY"}
                                  ELSE IF t \in in THEN {"SUS"} ELSE msts[t]]
       /\ wsts' = [t \in Task |-> IF t \in in THEN NONE ELSE wsts[t]]
       /\ rdq' = [p \in 1..MaxPri |->
                    rq[p] \o Keep(ts, {t \in ready : cp[t] = p})]
       /\ IF \E t \in ready : pri > cp[t] THEN Redispatch ELSE UNCHANGED <<ctcb, rdsp>>

RdqWithout(t) == [rdq EXCEPT ![cpri[t]] = Unlink(@, t)]

(* deqtcb in a wait on an object; a sleep or a delay has no such queue. *)
SemqWithout(ts) ==
    [s \in Sem |-> [p \in 0..MaxPri |->
        Keep(semq[s][p], {t \in Task : ~(t \in ts /\ wsts[t] = s)})]]

TimqWithout(t) == IF "TMR" \in msts[t] THEN Unlink(timq, t) ELSE timq

(* The running task t gives up the processor to wait, for d at most. *)
Block(t, flags, why, d) ==
    /\ rdq' = RdqWithout(t)
    /\ wsts' = [wsts EXCEPT ![t] = why]
    /\ ctcb' = NONE
    /\ IF d = FEVR
       THEN /\ msts' = [msts EXCEPT ![t] = flags]
            /\ UNCHANGED <<stime, timq, due>>
       ELSE /\ msts' = [msts EXCEPT ![t] = flags \cup {"TMR"}]
            /\ stime' = [stime EXCEPT ![t] = Advance(systim, d)]
            /\ timq' = EnqTim(timq, stime', t)
            /\ due' = [due EXCEPT ![t] = Value(systim) + d]

-----------------------------------------------------------------------------
(* TASK MANAGEMENT                                                         *)

(* _kernel_acttsk, and _kernel_statsk_2 when the task is dormant *)
ActTsk(t) ==
    /\ IF Dormant(t)
       THEN /\ cpri' = [cpri EXCEPT ![t] = Ipri[t]]
            /\ EnqRdq(<<t>>, rdq, cpri')
            /\ UNCHANGED act
       ELSE /\ act[t] < MaxAct
            /\ act' = [act EXCEPT ![t] = @ + 1]
            /\ UNCHANGED <<cpri, msts, wsts, rdq, ctcb, rdsp>>
    /\ UNCHANGED <<wup, sus, semq, semcnt, timq, stime, pri, dsp, systim, due>>

StaTsk(t) == Dormant(t) /\ ActTsk(t)

CanAct(t) ==
    /\ act' = [act EXCEPT ![t] = 0]
    /\ UNCHANGED <<msts, wsts, cpri, wup, sus, queues, system, systim, due>>

(* A task that ends, by itself or terminated, starts anew for every        *)
(* activation that is queued.  rq is the ready queue without it.           *)
StartAnewOrDormant(t, rq) ==
    IF act[t] > 0
    THEN /\ act' = [act EXCEPT ![t] = @ - 1]
         /\ cpri' = [cpri EXCEPT ![t] = Ipri[t]]
         /\ rdq' = [rq EXCEPT ![Ipri[t]] = Append(@, t)]
         /\ msts' = [msts EXCEPT ![t] = {"RDY"}]
    ELSE /\ rdq' = rq
         /\ msts' = [msts EXCEPT ![t] = {"DMT"}]
         /\ UNCHANGED <<act, cpri>>

(* _kernel_exttsk_1, which also enables dispatching.  A deferred dispatch  *)
(* is thereby made; the code leaves rdsp set, which makes the next kernel  *)
(* entry choose the running task once more, to no effect.                  *)
ExtTsk(t) ==
    /\ ctcb = t
    /\ StartAnewOrDormant(t, RdqWithout(t))
    /\ wsts' = [wsts EXCEPT ![t] = NONE]
    /\ ctcb' = NONE
    /\ dsp' = FALSE /\ rdsp' = FALSE
    /\ UNCHANGED <<wup, sus, semq, semcnt, timq, stime, pri, systim, due>>

(* _kernel_tertsk_1 *)
TerTsk(t) ==
    /\ ctcb # NONE /\ ctcb # t /\ ~Dormant(t)
    /\ StartAnewOrDormant(t, IF Ready(t) THEN RdqWithout(t) ELSE rdq)
    /\ wsts' = [wsts EXCEPT ![t] = IF act[t] > 0 THEN NONE ELSE @]
    /\ semq' = IF Waits(t) THEN SemqWithout({t}) ELSE semq
    /\ timq' = IF Waits(t) THEN TimqWithout(t) ELSE timq
    /\ IF act[t] > 0 /\ pri > Ipri[t] THEN Redispatch ELSE UNCHANGED <<ctcb, rdsp>>
    /\ UNCHANGED <<wup, sus, semcnt, stime, pri, dsp, systim, due>>

(* A fault: a task that lowers its own priority goes on. *)
ChgPriUnnoticed(t, p) ==
    /\ ~Dormant(t) /\ ~Waits(t)
    /\ cpri' = [cpri EXCEPT ![t] = p]
    /\ rdq' = IF Ready(t) THEN [RdqWithout(t) EXCEPT ![p] = Append(@, t)] ELSE rdq
    /\ pri' = IF ctcb = t THEN p ELSE pri
    /\ IF ctcb # t /\ pri > p THEN Redispatch ELSE UNCHANGED <<ctcb, rdsp>>
    /\ UNCHANGED <<msts, wsts, act, wup, sus, semq, semcnt, timq, stime, dsp, systim, due>>

(* _kernel_chgpri_2 and _kernel_chgpri, without mutexes *)
ChgPri(t, p) ==
    LET moves == Waits(t) /\ wsts[t] \in Sem /\ "FIFO" \notin msts[t] IN
    /\ ~Dormant(t)
    /\ cpri' = [cpri EXCEPT ![t] = p]
    /\ rdq' = IF Ready(t) THEN [RdqWithout(t) EXCEPT ![p] = Append(@, t)] ELSE rdq
    /\ semq' = IF moves
               THEN [SemqWithout({t}) EXCEPT ![wsts[t]][p] = Append(@, t)]
               ELSE semq
    /\ CASE Ready(t) /\ ctcb = t /\ pri > p -> pri' = p /\ UNCHANGED <<ctcb, rdsp>>
         [] Ready(t) /\ ctcb = t /\ pri <= p -> Redispatch /\ UNCHANGED pri
         [] Ready(t) /\ ctcb # t /\ pri > p -> Redispatch /\ UNCHANGED pri
         [] OTHER -> UNCHANGED <<pri, ctcb, rdsp>>
    /\ UNCHANGED <<msts, wsts, act, wup, sus, semcnt, timq, stime, dsp, systim, due>>

(* _kernel_rotrdq *)
RotRdq(p) ==
    /\ rdq[p] # <<>>
    /\ rdq' = [rdq EXCEPT ![p] = Append(Tail(@), Head(@))]
    /\ IF pri >= p THEN Redispatch ELSE UNCHANGED <<ctcb, rdsp>>
    /\ UNCHANGED <<tcbs, semq, semcnt, timq, stime, pri, dsp, systim, due>>

-----------------------------------------------------------------------------
(* SYNCHRONISATION                                                         *)

(* _kernel_slptsk_1; d = 0 is TMO_POL.  A call with dispatching disabled   *)
(* is refused (E_CTX) and changes nothing, as every one that may wait.     *)
SlpTsk(t, d) ==
    /\ ctcb = t /\ ~dsp
    /\ IF wup[t] > 0
       THEN /\ wup' = [wup EXCEPT ![t] = @ - 1]
            /\ UNCHANGED <<rdq, wsts, ctcb, msts, stime, timq, due>>
       ELSE /\ d # 0
            /\ Block(t, {"WAI"}, "SLP", d)
            /\ UNCHANGED wup
    /\ UNCHANGED <<cpri, act, sus, semq, semcnt, pri, dsp, rdsp, systim>>

(* A fault: wakeups are counted without limit. *)
WupTskUnlimited(t) ==
    /\ ~Dormant(t) /\ ~(Waits(t) /\ wsts[t] = "SLP")
    /\ wup' = [wup EXCEPT ![t] = @ + 1]
    /\ UNCHANGED <<msts, wsts, cpri, act, sus, queues, system, systim, due>>

(* _kernel_wuptsk *)
WupTsk(t) ==
    /\ ~Dormant(t)
    /\ IF Waits(t) /\ wsts[t] = "SLP"
       THEN /\ timq' = TimqWithout(t)
            /\ EnqRdq(<<t>>, rdq, cpri)
            /\ UNCHANGED wup
       ELSE /\ wup[t] # MaxWup
            /\ wup' = [wup EXCEPT ![t] = @ + 1]
            /\ UNCHANGED <<timq, msts, wsts, rdq, ctcb, rdsp>>
    /\ UNCHANGED <<cpri, act, sus, semq, semcnt, stime, pri, dsp, systim, due>>

CanWup(t) ==
    /\ ~Dormant(t)
    /\ wup' = [wup EXCEPT ![t] = 0]
    /\ UNCHANGED <<msts, wsts, cpri, act, sus, queues, system, systim, due>>

(* A fault: the released task stays on the timer queue. *)
RelWaiTimed(t) ==
    /\ Waits(t)
    /\ semq' = SemqWithout({t})
    /\ EnqRdq(<<t>>, rdq, cpri)
    /\ UNCHANGED <<cpri, act, wup, sus, semcnt, timq, stime, pri, dsp, systim, due>>

(* _kernel_relwai *)
RelWai(t) ==
    /\ Waits(t)
    /\ semq' = SemqWithout({t})
    /\ timq' = TimqWithout(t)
    /\ EnqRdq(<<t>>, rdq, cpri)
    /\ UNCHANGED <<cpri, act, wup, sus, semcnt, stime, pri, dsp, systim, due>>

(* _kernel_sustsk; the running task is refused with dispatching disabled *)
SusTsk(t) ==
    /\ ~Dormant(t)
    /\ ~(ctcb = t /\ dsp)
    /\ sus[t] < MaxSus
    /\ sus' = [sus EXCEPT ![t] = @ + 1]
    /\ IF Ready(t)
       THEN /\ rdq' = RdqWithout(t)
            /\ msts' = [msts EXCEPT ![t] = {"SUS"}]
            /\ ctcb' = IF ctcb = t THEN NONE ELSE ctcb
       ELSE /\ msts' = [msts EXCEPT ![t] = @ \cup {"SUS"}]
            /\ UNCHANGED <<rdq, ctcb>>
    /\ UNCHANGED <<wsts, cpri, act, wup, semq, semcnt, timq, stime, pri, dsp, rdsp,
                   systim, due>>

(* A fault: the count is compared before it is decremented. *)
RsmTskLate(t, force) ==
    /\ "SUS" \in msts[t]
    /\ sus' = [sus EXCEPT ![t] = IF force \/ @ = 0 THEN 0 ELSE @ - 1]
    /\ IF sus[t] # 0
       THEN UNCHANGED <<msts, wsts, rdq, ctcb, rdsp>>
       ELSE /\ ~Waits(t)
            /\ EnqRdq(<<t>>, rdq, cpri)
    /\ UNCHANGED <<cpri, act, wup, semq, semcnt, timq, stime, pri, dsp, systim, due>>

(* _kernel_rsmtsk, by rsm_tsk or (force) by frsm_tsk *)
RsmTsk(t, force) ==
    /\ "SUS" \in msts[t]
    /\ sus' = [sus EXCEPT ![t] = IF force THEN 0 ELSE @ - 1]
    /\ CASE sus'[t] # 0 ->
              UNCHANGED <<msts, wsts, rdq, ctcb, rdsp>>
         [] sus'[t] = 0 /\ Waits(t) ->
              /\ msts' = [msts EXCEPT ![t] = @ \ {"SUS"}]
              /\ UNCHANGED <<wsts, rdq, ctcb, rdsp>>
         [] sus'[t] = 0 /\ ~Waits(t) ->
              /\ msts' = [msts EXCEPT ![t] = {"RDY"}]
              /\ wsts' = [wsts EXCEPT ![t] = NONE]
              /\ rdq' = [rdq EXCEPT ![cpri[t]] = Append(@, t)]
              /\ IF pri > cpri[t] THEN Redispatch ELSE UNCHANGED <<ctcb, rdsp>>
    /\ UNCHANGED <<cpri, act, wup, semq, semcnt, timq, stime, pri, dsp, systim, due>>

(* _kernel_dlytsk_1: a delay lasts d in full, so the tick under way does   *)
(* not count.                                                              *)
DlyTsk(t, d) ==
    /\ ctcb = t /\ ~dsp
    /\ Block(t, {"WAI"}, "DLY", d + Tick)
    /\ UNCHANGED <<cpri, act, wup, sus, semq, semcnt, pri, dsp, rdsp, systim>>

(* _kernel_waisem.  Polling is allowed with dispatching disabled, and to   *)
(* time event handlers.                                                    *)
WaiSem(t, s, d) ==
    /\ ctcb = t /\ ~dsp
    /\ IF semcnt[s] > 0
       THEN /\ semcnt' = [semcnt EXCEPT ![s] = @ - 1]
            /\ UNCHANGED <<rdq, semq, wsts, ctcb, msts, stime, timq, due>>
       ELSE /\ LET fifo == SemAttr[s] = "FIFO" IN
               /\ Block(t, IF fifo THEN {"WAI", "FIFO"} ELSE {"WAI"}, s, d)
               /\ semq' = [semq EXCEPT ![s][IF fifo THEN 0 ELSE cpri[t]] = Append(@, t)]
            /\ UNCHANGED semcnt
    /\ UNCHANGED <<cpri, act, wup, sus, pri, dsp, rdsp, systim>>

PolSem(s) ==
    /\ semcnt[s] > 0
    /\ semcnt' = [semcnt EXCEPT ![s] = @ - 1]
    /\ UNCHANGED <<tcbs, rdq, semq, timq, stime, system, systim, due>>

(* A fault: only the first queue of a semaphore is searched. *)
WaitingFifo(s) == {p \in {0} : semq[s][p] # <<>>}

(* _kernel_gettcb on a wait queue: the most urgent waiter *)
Waiting(s) == {p \in 0..MaxPri : semq[s][p] # <<>>}
FirstWaiter(s) == Head(semq[s][CHOOSE p \in Waiting(s) : \A q \in Waiting(s) : p <= q])

(* _kernel_sigsem *)
SigSem(s) ==
    /\ IF Waiting(s) # {}
       THEN LET t == FirstWaiter(s) IN
            /\ semq' = SemqWithout({t})
            /\ timq' = TimqWithout(t)
            /\ EnqRdq(<<t>>, rdq, cpri)
            /\ UNCHANGED semcnt
       ELSE /\ semcnt[s] < MaxSem[s]
            /\ semcnt' = [semcnt EXCEPT ![s] = @ + 1]
            /\ UNCHANGED <<semq, timq, msts, wsts, rdq, ctcb, rdsp>>
    /\ UNCHANGED <<cpri, act, wup, sus, stime, pri, dsp, systim, due>>

(* _kernel_sigtim: every wait whose time has come ends. *)
SigTim ==
    /\ Value(systim) + Tick <= MaxTime
    /\ systim' = Advance(systim, Tick)
    /\ LET over == DueOf(timq, stime, systim') IN
       /\ semq' = SemqWithout({over[i] : i \in 1..Len(over)})
       /\ EnqRdq(over, rdq, cpri)
    /\ timq' = RestOf(timq, stime, systim')
    /\ UNCHANGED <<cpri, act, wup, sus, semcnt, stime, pri, dsp, due>>

-----------------------------------------------------------------------------
(* DISPATCHING                                                             *)

DisDsp == ctcb # NONE /\ dsp' = TRUE
          /\ UNCHANGED <<tcbs, queues, ctcb, pri, rdsp, systim, due>>

(* ena_dsp, and what _kernel_relrun makes up for *)
EnaDsp ==
    /\ ctcb # NONE /\ dsp
    /\ dsp' = FALSE
    /\ rdsp' = FALSE
    /\ ctcb' = IF rdsp THEN NONE ELSE ctcb
    /\ UNCHANGED <<tcbs, queues, pri, systim, due>>

Urgent == {p \in 1..MaxPri : rdq[p] # <<>>}
HighestReady == Head(rdq[CHOOSE p \in Urgent : \A q \in Urgent : p <= q])

(* The dispatcher, with no service left to execute *)
Dispatch ==
    /\ ctcb = NONE
    /\ IF Urgent = {}
       THEN pri' = MaxPri + 1 /\ UNCHANGED ctcb
       ELSE ctcb' = HighestReady /\ pri' = cpri[ctcb']
    /\ UNCHANGED <<tcbs, queues, dsp, rdsp, systim, due>>

-----------------------------------------------------------------------------
Timeout == Timeouts \cup {FEVR}

Next ==
    \/ \E t \in Task :
         \/ ActTsk(t) \/ StaTsk(t) \/ CanAct(t) \/ ExtTsk(t) \/ TerTsk(t)
         \/ WupTsk(t) \/ CanWup(t) \/ RelWai(t)
         \/ SusTsk(t) \/ \E force \in BOOLEAN : RsmTsk(t, force)
         \/ \E p \in 1..MaxPri : ChgPri(t, p)
         \/ \E d \in Timeout \cup {0} : SlpTsk(t, d)
         \/ \E d \in Timeouts : DlyTsk(t, d)
         \/ \E s \in Sem, d \in Timeout : WaiSem(t, s, d)
    \/ \E s \in Sem : PolSem(s) \/ SigSem(s)
    \/ \E p \in 1..MaxPri : RotRdq(p)
    \/ SigTim \/ DisDsp \/ EnaDsp \/ Dispatch

Spec == Init /\ [][Next]_vars

-----------------------------------------------------------------------------
(* PROPERTIES                                                              *)

Flags == {"DMT", "RDY", "WAI", "SUS", "FIFO", "TMR"}

TypeOK ==
    /\ msts \in [Task -> SUBSET Flags]
    /\ wsts \in [Task -> {"SLP", "DLY", NONE} \cup Sem]
    /\ cpri \in [Task -> 1..MaxPri]
    /\ act \in [Task -> 0..MaxAct] /\ wup \in [Task -> 0..MaxWup]
    /\ sus \in [Task -> 0..MaxSus]
    /\ rdq \in [1..MaxPri -> Seq(Task)]
    /\ semq \in [Sem -> [0..MaxPri -> Seq(Task)]]
    /\ semcnt \in [Sem -> Nat] /\ \A s \in Sem : semcnt[s] <= MaxSem[s]
    /\ timq \in Seq(Task) /\ stime \in [Task -> Stamp] /\ systim \in Stamp
    /\ ctcb \in Task \cup {NONE} /\ pri \in 1..(MaxPri + 1)
    /\ dsp \in BOOLEAN /\ rdsp \in BOOLEAN
    /\ due \in [Task -> Nat]

Times(q, t) == Cardinality({i \in 1..Len(q) : q[i] = t})

(* Where a service would unlink a task is where the task is.  The links a  *)
(* wait and the ready queue share are in use exactly once or not at all,   *)
(* on the queue of the current priority even after priority changes; those *)
(* of the timer queue are in use exactly while TMR says so; whichever of   *)
(* wakeup, release, signal, timeout, suspension and termination gets to a  *)
(* waiting task first.                                                     *)
QueuesMatchState ==
    \A t \in Task :
        /\ \A p \in 1..MaxPri :
              Times(rdq[p], t) = IF Ready(t) /\ cpri[t] = p THEN 1 ELSE 0
        /\ \A s \in Sem, p \in 0..MaxPri :
              Times(semq[s][p], t) =
                  IF Waits(t) /\ wsts[t] = s
                     /\ p = (IF SemAttr[s] = "FIFO" THEN 0 ELSE cpri[t])
                  THEN 1 ELSE 0
        /\ Times(timq, t) = IF "TMR" \in msts[t] THEN 1 ELSE 0

(* Whenever a task executes with dispatching enabled, or disabled but with *)
(* no dispatch put off, it is the first of the most urgent ready tasks;    *)
(* and a task that disabled dispatching keeps the processor until it       *)
(* enables it or ends.                                                     *)
RunsMostUrgent ==
    /\ ctcb # NONE /\ ~(dsp /\ rdsp) => ctcb = HighestReady
    /\ ctcb # NONE => Ready(ctcb)
    /\ dsp => ctcb # NONE

(* No signal is lost and no waiter overlooked: a task never waits while    *)
(* the semaphore has resources.                                            *)
NoIdleResource ==
    \A s \in Sem : semcnt[s] > 0 => ~\E t \in Task : Waits(t) /\ wsts[t] = s

(* A tick ends exactly the waits whose time has come by the calls that     *)
(* made them, across the carry of the lower word; none is left overdue.    *)
TimeoutsExact ==
    [][SigTim => \A t \in Task : "TMR" \in msts[t] =>
         (Waits(t)' <=> due[t] > Value(systim'))]_vars

(* The nesting count covers every suspension, so that resuming never       *)
(* counts below zero.                                                      *)
SuspensionCounted == \A t \in Task : "SUS" \in msts[t] => sus[t] > 0

=============================================================================
