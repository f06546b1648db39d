------------------------------ MODULE Dispatch ------------------------------
(***************************************************************************)
(* The scheduler and dispatcher of the kernel (uC3dsp.S): how the service  *)
(* calls of tasks and the posts of interrupt handlers are serialised, and  *)
(* which task the processor goes back to.                                  *)
(*                                                                         *)
(* The processor is at one of three levels.  A TASK executes its own code; *)
(* the SYSTEM level executes one service at a time on the system stack;    *)
(* INTERRUPT handlers nest on top of either.  A task reaches the system    *)
(* level through _kernel_entsys, a handler by posting a system service     *)
(* block (SSB), which the exit of the outermost interrupt has executed.    *)
(* That exit sometimes abandons the interrupted system level and starts    *)
(* the dispatch loop afresh; the model keeps exactly the places where      *)
(* interrupts are enabled, because that is where this must be harmless.    *)
(*                                                                         *)
(* One action is one stretch of code that the hardware cannot split: a     *)
(* masked section, or the code between two accesses to shared state.       *)
(***************************************************************************)
EXTENDS Naturals, Sequences, FiniteSets, SequencesExt

CONSTANTS Task,      \* the tasks, all created and started
          SSB,       \* the pool of system service blocks (ssb_num of them)
          MaxPri,    \* qrdq.inf->limit, the lowest task priority
          Prio,      \* cpri of each task (smaller is more urgent)
          InitRdq,   \* the ready queues that the initial routine leaves
          MaxWup,    \* TMAX_WUPCNT
          MaxNest,   \* how deep interrupts may nest
          NONE

ASSUME ConstantsAssumption ==
    /\ IsFiniteSet(SSB)
    /\ SSB # {} /\ SSB \cap Task = {}
    /\ NONE \notin Task \cup SSB
    /\ MaxPri \in Nat \ {0}
    /\ MaxWup \in Nat
    /\ MaxNest \in Nat \ {0}
    /\ Prio \in [Task -> 1..MaxPri]

ASSUME InitRdqAssumption ==
    /\ InitRdq \in [1..MaxPri -> Seq(Task)]
    /\ \A p \in 1..MaxPri :
         /\ \A t \in Task : Prio[t] = p <=> \E i \in 1..Len(InitRdq[p]) : InitRdq[p][i] = t
         /\ \A i, j \in 1..Len(InitRdq[p]) : InitRdq[p][i] = InitRdq[p][j] => i = j

VARIABLES
    \* the system table
    dsp, dlock, ims,  \* the three dispatch inhibitors of the word dspint
    rdsp,             \* a dispatch was asked for while inhibited
    cssb,             \* the service in progress: a task, an SSB or NONE
    ctcb,             \* the current task; NONE asks for a new choice
    pri,              \* priority of the task dispatched last
    ssbq,             \* posted SSBs, oldest first (ssb_top .. ssb_btm)
    free,             \* free SSBs (ssb_free)
    ssb_cnt, ssb_min, \* number of free SSBs and its low-water mark
    \* the task control blocks
    rdq,              \* qrdq: the ready queue of each priority
    asleep,           \* tasks with msts = TTS_WAI, wsts = TS_SLP
    wup,              \* queued wakeups
    saved,            \* tcb.sp # 0: the context of the task is saved
    tmask,            \* interrupt mask in that saved context
    par,              \* sysfunc and p1.. of each task and SSB
    \* the processor
    lv,               \* where the level below the interrupts stands
    imask,            \* its interrupt mask (I bit)
    nxt,              \* x0 in dispatch_4: the task about to be resumed
    tpc,              \* where each task stands in a service call stub
    isr               \* the nested handlers; entry: SSB acquired, or NONE

systbl == <<dsp, dlock, ims, rdsp, cssb, ctcb, pri, ssbq, free, ssb_cnt, ssb_min>>
tcbs   == <<rdq, asleep, wup, saved, tmask, par>>
cpu    == <<lv, imask, nxt, tpc, isr>>
vars   == <<systbl, tcbs, cpu>>

(* The stand-ins for the services: one that blocks its caller, one that    *)
(* readies a task, one that reorders the ready tasks.                      *)
Request == [op : {"slp", "wup"}, tsk : Task] \cup [op : {"rot"}, pri : 1..MaxPri]

(* A system function leaves its result in p1: the request is consumed.     *)
Served == [op |-> "served"]

Level == {"task", "exec", "rel", "clr", "deq", "sel", "res", "idle"}
StubPc == {"user", "stub", "unlock", "relrun", "entsys0"}

icnt == Len(isr)

(* stat.dspint as one word: any of its bytes inhibits dispatching. *)
dspint == dsp \/ dlock \/ ims

Init ==
    /\ dsp = FALSE /\ dlock = FALSE /\ ims = FALSE /\ rdsp = FALSE
    /\ cssb = NONE /\ ctcb = NONE /\ pri = MaxPri + 1
    /\ ssbq = <<>> /\ free = SSB
    \* the block that ran the initial routine has been taken and returned
    /\ ssb_cnt = Cardinality(SSB) /\ ssb_min = Cardinality(SSB) - 1
    /\ rdq = InitRdq /\ asleep = {} /\ wup = [t \in Task |-> 0]
    /\ saved = [t \in Task |-> TRUE] /\ tmask = [t \in Task |-> FALSE]
    /\ par = [c \in Task \cup SSB |-> Served]
    /\ lv = "deq" /\ imask = FALSE /\ nxt = NONE
    /\ tpc = [t \in Task |-> "user"] /\ isr = <<>>

-----------------------------------------------------------------------------
(* TASK LEVEL.  A task executes one of these when it is the current task   *)
(* and no handler is on top of it.                                         *)

Executes(t) == lv = "task" /\ ctcb = t /\ isr = <<>>

(* A fault: the object is looked up without the lock. *)
TaskRequestUnlocked(t, r) ==
    /\ Executes(t) /\ tpc[t] = "user"
    /\ r.op = "slp" => r.tsk = t
    /\ par' = [par EXCEPT ![t] = r]
    /\ tpc' = [tpc EXCEPT ![t] = "stub"]
    /\ UNCHANGED <<systbl, rdq, asleep, wup, saved, tmask, lv, imask, nxt, isr>>

(* A service call fills in the argument registers of its TCB.  Those that  *)
(* look an object up first set dlock, so that the object cannot vanish     *)
(* between the lookup and the service.                                     *)
TaskRequest(t, r) ==
    /\ Executes(t) /\ tpc[t] = "user"
    /\ r.op = "slp" => r.tsk = t
    /\ par' = [par EXCEPT ![t] = r]
    /\ dlock' = IF r.op = "wup" THEN TRUE ELSE dlock
    /\ tpc' = [tpc EXCEPT ![t] = "stub"]
    /\ UNCHANGED <<dsp, ims, rdsp, cssb, ctcb, pri, ssbq, free, ssb_cnt, ssb_min,
                   rdq, asleep, wup, saved, tmask, lv, imask, nxt, isr>>

(* The lookup finds no object: the stub releases the lock and returns      *)
(* E_NOEXS, through _kernel_relrun.                                        *)
NoExs(t) ==
    /\ Executes(t) /\ tpc[t] = "user"
    /\ dlock' = TRUE
    /\ tpc' = [tpc EXCEPT ![t] = "relrun"]
    /\ UNCHANGED <<dsp, ims, rdsp, cssb, ctcb, pri, ssbq, free, ssb_cnt, ssb_min,
                   tcbs, lv, imask, nxt, isr>>

DisDsp(t) ==
    /\ Executes(t) /\ tpc[t] = "user"
    /\ dsp' = TRUE
    /\ UNCHANGED <<dlock, ims, rdsp, cssb, ctcb, pri, ssbq, free, ssb_cnt, ssb_min,
                   tcbs, cpu>>

EnaDsp(t) ==
    /\ Executes(t) /\ tpc[t] = "user" /\ dsp
    /\ dsp' = FALSE
    /\ tpc' = [tpc EXCEPT ![t] = "relrun"]
    /\ UNCHANGED <<dlock, ims, rdsp, cssb, ctcb, pri, ssbq, free, ssb_cnt, ssb_min,
                   tcbs, lv, imask, nxt, isr>>

LocCpu(t) ==
    /\ Executes(t) /\ tpc[t] = "user"
    /\ imask' = TRUE
    /\ UNCHANGED <<systbl, tcbs, lv, nxt, tpc, isr>>

(* unl_cpu and chg_ims(0) enable interrupts before they clear ims: a       *)
(* handler that comes in between finds dispatching still inhibited.        *)
UnlCpu(t) ==
    /\ Executes(t) /\ tpc[t] = "user" /\ imask
    /\ imask' = FALSE
    /\ tpc' = [tpc EXCEPT ![t] = "unlock"]
    /\ UNCHANGED <<systbl, tcbs, lv, nxt, isr>>

ClearIms(t) ==
    /\ Executes(t) /\ tpc[t] = "unlock"
    /\ ims' = FALSE
    /\ tpc' = [tpc EXCEPT ![t] = "relrun"]
    /\ UNCHANGED <<dsp, dlock, rdsp, cssb, ctcb, pri, ssbq, free, ssb_cnt, ssb_min,
                   tcbs, lv, imask, nxt, isr>>

(* _kernel_relrun under the mask: is there a deferred dispatch to make up  *)
(* for?  If not, or if dispatching is still disabled, only dlock goes.     *)
RelRun(t) ==
    /\ Executes(t) /\ tpc[t] = "relrun"
    /\ IF imask \/ dsp \/ ~rdsp
       THEN dlock' = FALSE /\ tpc' = [tpc EXCEPT ![t] = "user"]
       ELSE tpc' = [tpc EXCEPT ![t] = "entsys0"] /\ UNCHANGED dlock
    /\ UNCHANGED <<dsp, ims, rdsp, cssb, ctcb, pri, ssbq, free, ssb_cnt, ssb_min,
                   tcbs, lv, imask, nxt, isr>>

(* entsys_0: save the task's context, record its interrupt mask as an      *)
(* inhibitor and make up for a deferred dispatch if none is left.          *)
SaveContext(t) ==
    /\ saved' = [saved EXCEPT ![t] = TRUE]
    /\ tmask' = [tmask EXCEPT ![t] = imask]
    /\ dlock' = FALSE
    /\ ims' = imask
    /\ IF ~dsp /\ ~imask /\ rdsp
       THEN rdsp' = FALSE /\ ctcb' = NONE
       ELSE UNCHANGED <<rdsp, ctcb>>
    /\ tpc' = [tpc EXCEPT ![t] = "user"]

(* _kernel_entsys(FALSE): the TCB becomes the service in progress, or is   *)
(* queued like an SSB should there be one already.                         *)
EntSys(t) ==
    /\ Executes(t) /\ tpc[t] = "stub"
    /\ SaveContext(t)
    /\ IF cssb = NONE
       THEN cssb' = t /\ UNCHANGED ssbq
       ELSE ssbq' = Append(ssbq, t) /\ UNCHANGED cssb
    /\ lv' = "exec"
    /\ UNCHANGED <<dsp, pri, free, ssb_cnt, ssb_min, rdq, asleep, wup, par,
                   imask, nxt, isr>>

(* The same entry from _kernel_relrun, which brings no service. *)
EntSys0(t) ==
    /\ Executes(t) /\ tpc[t] = "entsys0"
    /\ SaveContext(t)
    /\ lv' = IF cssb = NONE THEN "deq" ELSE "exec"
    /\ UNCHANGED <<dsp, cssb, pri, ssbq, free, ssb_cnt, ssb_min, rdq, asleep, wup,
                   par, imask, nxt, isr>>

-----------------------------------------------------------------------------
(* SYSTEM LEVEL, the loop at the label dispatch.                           *)

AtSystem(l) == lv = l /\ isr = <<>>

(* A fault: the newest block is taken first. *)
DeqSSBNewest ==
    /\ AtSystem("deq")
    /\ IF ssbq = <<>>
       THEN lv' = "sel" /\ UNCHANGED <<cssb, ssbq>>
       ELSE lv' = "exec" /\ cssb' = Last(ssbq) /\ ssbq' = Front(ssbq)
    /\ UNCHANGED <<dsp, dlock, ims, rdsp, ctcb, pri, free, ssb_cnt, ssb_min, tcbs,
                   imask, nxt, tpc, isr>>

(* deqssb: taking the oldest block and naming it in cssb is one masked     *)
(* section.                                                                *)
DeqSSB ==
    /\ AtSystem("deq")
    /\ IF ssbq = <<>>
       THEN lv' = "sel" /\ UNCHANGED <<cssb, ssbq>>
       ELSE lv' = "exec" /\ cssb' = Head(ssbq) /\ ssbq' = Tail(ssbq)
    /\ UNCHANGED <<dsp, dlock, ims, rdsp, ctcb, pri, free, ssb_cnt, ssb_min, tcbs,
                   imask, nxt, tpc, isr>>

(* A system function ends: only an SSB is given back to the pool. *)
AfterService ==
    /\ par' = [par EXCEPT ![cssb] = Served]
    /\ lv' = IF cssb \in SSB THEN "rel" ELSE "clr"

(* A fault: an inhibited dispatch is forgotten. *)
RequestDispatchOnlyNow ==
    /\ ctcb' = IF dspint THEN ctcb ELSE NONE
    /\ UNCHANGED rdsp

(* A change of precedence took place above the running priority. *)
RequestDispatch ==
    IF dspint THEN rdsp' = TRUE /\ UNCHANGED ctcb
              ELSE ctcb' = NONE /\ UNCHANGED rdsp

(* _kernel_deqtcb: the task leaves the ready queue. *)
DeqTCB(q, t) == RemoveFirst(q, t)

(* _kernel_slptsk_1 *)
ExecSleep ==
    /\ AtSystem("exec") /\ par[cssb].op = "slp"
    /\ LET t == par[cssb].tsk IN
       IF dspint
       THEN UNCHANGED <<rdq, asleep, wup, ctcb>>
       ELSE IF wup[t] > 0
       THEN wup' = [wup EXCEPT ![t] = @ - 1] /\ UNCHANGED <<rdq, asleep, ctcb>>
       ELSE /\ rdq' = [rdq EXCEPT ![Prio[t]] = DeqTCB(@, t)]
            /\ asleep' = asleep \cup {t}
            /\ ctcb' = NONE
            /\ UNCHANGED wup
    /\ AfterService
    /\ UNCHANGED <<dsp, dlock, ims, rdsp, cssb, pri, ssbq, free, ssb_cnt, ssb_min,
                   saved, tmask, imask, nxt, tpc, isr>>

(* A fault: wakeups are counted without limit. *)
ExecWakeupUnlimited ==
    /\ AtSystem("exec") /\ par[cssb].op = "wup" /\ par[cssb].tsk \notin asleep
    /\ wup' = [wup EXCEPT ![par[cssb].tsk] = @ + 1]
    /\ AfterService
    /\ UNCHANGED <<dsp, dlock, ims, rdsp, cssb, ctcb, pri, ssbq, free, ssb_cnt,
                   ssb_min, rdq, asleep, saved, tmask, imask, nxt, tpc, isr>>

(* _kernel_wuptsk, with _kernel_enqrdq for a task that sleeps *)
ExecWakeup ==
    /\ AtSystem("exec") /\ par[cssb].op = "wup"
    /\ LET t == par[cssb].tsk IN
       IF t \in asleep
       THEN /\ asleep' = asleep \ {t}
            /\ rdq' = [rdq EXCEPT ![Prio[t]] = Append(@, t)]
            /\ IF pri > Prio[t] THEN RequestDispatch ELSE UNCHANGED <<rdsp, ctcb>>
            /\ UNCHANGED wup
       ELSE /\ wup' = IF wup[t] = MaxWup THEN wup ELSE [wup EXCEPT ![t] = @ + 1]
            /\ UNCHANGED <<asleep, rdq, rdsp, ctcb>>
    /\ AfterService
    /\ UNCHANGED <<dsp, dlock, ims, cssb, pri, ssbq, free, ssb_cnt, ssb_min,
                   saved, tmask, imask, nxt, tpc, isr>>

(* _kernel_rotrdq *)
ExecRotate ==
    /\ AtSystem("exec") /\ par[cssb].op = "rot"
    /\ LET p == par[cssb].pri IN
       IF rdq[p] = <<>>
       THEN UNCHANGED <<rdq, rdsp, ctcb>>
       ELSE /\ rdq' = [rdq EXCEPT ![p] = Append(Tail(@), Head(@))]
            /\ IF pri >= p THEN RequestDispatch ELSE UNCHANGED <<rdsp, ctcb>>
    /\ AfterService
    /\ UNCHANGED <<dsp, dlock, ims, cssb, pri, ssbq, free, ssb_cnt, ssb_min,
                   asleep, wup, saved, tmask, imask, nxt, tpc, isr>>

(* Faults: a block is given back uncounted, or counted and not given back. *)
RelSSBUncounted ==
    /\ AtSystem("rel")
    /\ free' = free \cup {cssb}
    /\ lv' = "clr"
    /\ UNCHANGED <<dsp, dlock, ims, rdsp, cssb, ctcb, pri, ssbq, ssb_cnt, ssb_min,
                   tcbs, imask, nxt, tpc, isr>>

RelSSBLost ==
    /\ AtSystem("rel")
    /\ ssb_cnt' = ssb_cnt + 1
    /\ lv' = "clr"
    /\ UNCHANGED <<dsp, dlock, ims, rdsp, cssb, ctcb, pri, ssbq, free, ssb_min,
                   tcbs, imask, nxt, tpc, isr>>

(* relssb; cssb still names the block, which a handler may take again.     *)
RelSSB ==
    /\ AtSystem("rel")
    /\ free' = free \cup {cssb}
    /\ ssb_cnt' = ssb_cnt + 1
    /\ lv' = "clr"
    /\ UNCHANGED <<dsp, dlock, ims, rdsp, cssb, ctcb, pri, ssbq, ssb_min, tcbs,
                   imask, nxt, tpc, isr>>

ClearCssb ==
    /\ AtSystem("clr")
    /\ cssb' = NONE
    /\ lv' = "deq"
    /\ UNCHANGED <<dsp, dlock, ims, rdsp, ctcb, pri, ssbq, free, ssb_cnt, ssb_min,
                   tcbs, imask, nxt, tpc, isr>>

(* gettcb: the first task of the first ready queue that is not empty *)
Urgent == {p \in 1..MaxPri : rdq[p] # <<>> /\ \A q \in 1..(p - 1) : rdq[q] = <<>>}
HighestReady == IF Urgent = {} THEN NONE ELSE Head(rdq[CHOOSE p \in Urgent : TRUE])

(* dispatch_4: keep the current task or choose one. *)
Select ==
    /\ AtSystem("sel")
    /\ nxt' = IF ctcb # NONE THEN ctcb ELSE HighestReady
    /\ lv' = "res"
    /\ UNCHANGED <<systbl, tcbs, imask, tpc, isr>>

(* dispatch_5, _6, _7: under the mask the chosen task becomes current and  *)
(* its context is consumed; its own interrupt mask comes back with it.     *)
Resume ==
    /\ AtSystem("res") /\ nxt # NONE
    /\ pri' = Prio[nxt]
    /\ ctcb' = nxt
    /\ saved' = [saved EXCEPT ![nxt] = FALSE]
    /\ imask' = tmask[nxt]
    /\ tmask' = [tmask EXCEPT ![nxt] = FALSE]
    /\ lv' = "task"
    /\ nxt' = NONE
    /\ UNCHANGED <<dsp, dlock, ims, rdsp, cssb, ssbq, free, ssb_cnt, ssb_min,
                   rdq, asleep, wup, par, tpc, isr>>

(* dispatch_idle *)
Idle ==
    /\ AtSystem("res") /\ nxt = NONE
    /\ ctcb' = NONE
    /\ pri' = MaxPri + 1
    /\ lv' = "idle"
    /\ UNCHANGED <<dsp, dlock, ims, rdsp, cssb, ssbq, free, ssb_cnt, ssb_min,
                   tcbs, imask, nxt, tpc, isr>>

-----------------------------------------------------------------------------
(* INTERRUPT LEVEL.                                                        *)

(* _kernel_entint: the outermost interrupt needs the mask of the level     *)
(* below to be open; handlers that enable interrupts can be interrupted.   *)
IntEnter ==
    /\ icnt < MaxNest
    /\ icnt = 0 => ~imask
    /\ isr' = Append(isr, NONE)
    /\ UNCHANGED <<systbl, tcbs, lv, imask, nxt, tpc>>

Handling == icnt > 0
Held == isr[icnt]

(* _kernel_getssb, and the arguments of the request written to the block.  *)
(* With no block left the service call fails (E_NOMEM) and changes nothing. *)
GetSSB(b, r) ==
    /\ Handling /\ Held = NONE
    /\ r.op # "slp"
    /\ b \in free
    /\ free' = free \ {b}
    /\ ssb_cnt' = ssb_cnt - 1
    /\ ssb_min' = IF ssb_cnt - 1 < ssb_min THEN ssb_cnt - 1 ELSE ssb_min
    /\ par' = [par EXCEPT ![b] = r]
    /\ isr' = [isr EXCEPT ![icnt] = b]
    /\ UNCHANGED <<dsp, dlock, ims, rdsp, cssb, ctcb, pri, ssbq, rdq, asleep, wup,
                   saved, tmask, lv, imask, nxt, tpc>>

(* _kernel_enqssb *)
EnqSSB ==
    /\ Handling /\ Held # NONE
    /\ ssbq' = Append(ssbq, Held)
    /\ isr' = [isr EXCEPT ![icnt] = NONE]
    /\ UNCHANGED <<dsp, dlock, ims, rdsp, cssb, ctcb, pri, free, ssb_cnt, ssb_min,
                   tcbs, lv, imask, nxt, tpc>>

(* A fault: a task is gone back to with posts waiting. *)
ReturnsOverPosts ==
    \/ icnt > 1
    \/ cssb # NONE
    \/ ctcb # NONE /\ ~saved[ctcb]

(* retint, the way back to the interrupted code: from a nested interrupt,  *)
(* into a service in progress, or into a task when nothing was posted.     *)
Returns ==
    \/ icnt > 1
    \/ cssb # NONE
    \/ ctcb # NONE /\ ~saved[ctcb] /\ ssbq = <<>>

IntReturn ==
    /\ Handling /\ Held = NONE
    /\ Returns
    /\ isr' = Front(isr)
    /\ UNCHANGED <<systbl, tcbs, lv, imask, nxt, tpc>>

(* retint, the way to dispatch.  A task that was running has its context   *)
(* saved; a system level without a service, or idling, is abandoned.       *)
IntDispatch ==
    /\ Handling /\ Held = NONE
    /\ ~Returns
    /\ isr' = Front(isr)
    /\ IF ctcb # NONE /\ ~saved[ctcb]
       THEN /\ saved' = [saved EXCEPT ![ctcb] = TRUE]
            /\ tmask' = [tmask EXCEPT ![ctcb] = FALSE]
       ELSE UNCHANGED <<saved, tmask>>
    /\ imask' = FALSE
    /\ nxt' = NONE
    /\ lv' = "deq"
    /\ UNCHANGED <<systbl, rdq, asleep, wup, par, tpc>>

-----------------------------------------------------------------------------
TaskStep(t) ==
    \/ \E r \in Request : TaskRequest(t, r)
    \/ NoExs(t) \/ DisDsp(t) \/ EnaDsp(t) \/ LocCpu(t) \/ UnlCpu(t)
    \/ ClearIms(t) \/ RelRun(t) \/ EntSys(t) \/ EntSys0(t)

SystemStep ==
    \/ DeqSSB \/ ExecSleep \/ ExecWakeup \/ ExecRotate \/ RelSSB \/ ClearCssb
    \/ Select \/ Resume \/ Idle

IntStep ==
    \/ IntEnter
    \/ \E b \in SSB, r \in Request : GetSSB(b, r)
    \/ EnqSSB \/ IntReturn \/ IntDispatch

Next == (\E t \in Task : TaskStep(t)) \/ SystemStep \/ IntStep

Spec == Init /\ [][Next]_vars

(* The processor executes the code below the interrupts whenever there is  *)
(* none, and a handler runs to its end.  Nothing makes a task call a       *)
(* service or an interrupt arrive.                                         *)
Fairness ==
    /\ WF_vars(SystemStep)
    /\ WF_vars(EnqSSB)
    /\ WF_vars(IntReturn)
    /\ WF_vars(IntDispatch)

FairSpec == Spec /\ Fairness

-----------------------------------------------------------------------------
(* PROPERTIES                                                              *)

Blocks(s) == {s[i] : i \in 1..Len(s)}

TypeOK ==
    /\ dsp \in BOOLEAN /\ dlock \in BOOLEAN /\ ims \in BOOLEAN /\ rdsp \in BOOLEAN
    /\ cssb \in Task \cup SSB \cup {NONE}
    /\ ctcb \in Task \cup {NONE}
    /\ pri \in 1..(MaxPri + 1)
    /\ ssbq \in Seq(SSB \cup Task)
    /\ free \in SUBSET SSB
    /\ ssb_cnt \in Nat /\ ssb_min \in Nat
    /\ rdq \in [1..MaxPri -> Seq(Task)]
    /\ asleep \in SUBSET Task
    /\ wup \in [Task -> 0..MaxWup]
    /\ saved \in [Task -> BOOLEAN] /\ tmask \in [Task -> BOOLEAN]
    /\ par \in [Task \cup SSB -> Request \cup {Served}]
    /\ lv \in Level /\ imask \in BOOLEAN
    /\ nxt \in Task \cup {NONE}
    /\ tpc \in [Task -> StubPc]
    /\ isr \in Seq(SSB \cup {NONE})

(* Every SSB is in exactly one place: free, queued, acquired by a handler  *)
(* or being executed; the counter ref_sys reports is the number of free    *)
(* ones.  A block lost at relssb, or taken twice by nested handlers, would *)
(* sooner or later make every interrupt service call fail with E_NOMEM.    *)
InService(b) == cssb = b /\ lv \in {"exec", "rel"}
HeldBy(i, b) == i \in 1..Len(isr) /\ isr[i] = b

SSBNotLost ==
    \A b \in SSB : \/ b \in free \/ b \in Blocks(ssbq) \/ InService(b)
                  \/ \E i \in 1..Len(isr) : HeldBy(i, b)

SSBNotShared ==
    /\ \A b \in SSB :
         /\ b \in free => b \notin Blocks(ssbq) /\ ~InService(b)
         /\ b \in Blocks(ssbq) => ~InService(b)
         /\ \A i \in 1..Len(isr) :
              HeldBy(i, b) => b \notin free /\ b \notin Blocks(ssbq) /\ ~InService(b)
    /\ \A i, j \in 1..Len(ssbq) : ssbq[i] = ssbq[j] => i = j
    /\ \A i, j \in 1..Len(isr) : isr[i] = isr[j] /\ isr[i] # NONE => i = j

SSBCounted ==
    /\ ssb_cnt = Cardinality(free)
    /\ ssb_min <= ssb_cnt

SSBConserved == SSBNotLost /\ SSBNotShared /\ SSBCounted

(* What an interrupt handler posted takes effect before the interrupted    *)
(* task executes another instruction: with the handlers gone, no task      *)
(* runs, and none is about to be resumed, while a post waits.              *)
PostsDrained ==
    lv \in {"sel", "res", "task", "idle"} /\ isr = <<>> => ssbq = <<>>

(* The running task is the first of the most urgent ready tasks, unless a  *)
(* change was deferred; and one stays deferred only while dispatching is   *)
(* inhibited or the task is on its way through _kernel_relrun.             *)
HighestRuns ==
    lv = "task" /\ (~rdsp \/ (~dspint /\ ~imask /\ tpc[ctcb] \in {"user", "stub"}))
    => ctcb = HighestReady

(* From the object lookup of a service call to the service itself no other *)
(* task runs, so none can delete the object in between.                    *)
LookupLock ==
    \A t \in Task : tpc[t] = "stub" /\ par[t].op = "wup" => ctcb = t

(* The requests made and not yet served: of the service in progress and of *)
(* the blocks that wait for theirs.                                        *)
Pending == (IF lv = "exec" THEN <<par[cssb]>> ELSE <<>>)
           \o [i \in 1..Len(ssbq) |-> par[ssbq[i]]]
Running == IF lv = "task" THEN ctcb ELSE NONE

(* Exactly the requests made are served, each once, in order and as if in  *)
(* one step, and no task runs over an outstanding one.                     *)
Kernel == INSTANCE AtomicService WITH pending <- Pending, running <- Running
ServesInOrder == Kernel!ASpec

(* Once the interrupts cease, every posted block is executed and returned  *)
(* to the pool, and the kernel comes back to a task or to the idle loop.   *)
PostsServed ==
    <>[](isr = <<>>) =>
        /\ \A b \in SSB : b \in Blocks(ssbq) ~> b \in free
        /\ []<>(lv \in {"task", "idle"})
=============================================================================
