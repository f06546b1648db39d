--------------------------- MODULE AtomicService ---------------------------
(***************************************************************************)
(* What the dispatcher of the kernel promises to its callers.  A request   *)
(* is either the service call of the running task or a post of an          *)
(* interrupt handler.  Requests are served one at a time, each exactly     *)
(* once, in the order in which they were made, each in a single            *)
(* indivisible step; a task runs only when no request is outstanding and   *)
(* only when it is not asleep.  System service blocks, interrupt nesting,  *)
(* saved contexts and the deferral of dispatching do not appear here:      *)
(* Dispatch shows that they are invisible.                                 *)
(***************************************************************************)
EXTENDS Naturals, Sequences

CONSTANTS Task,      \* the tasks
          MaxWup,    \* TMAX_WUPCNT, the largest queued wakeup count
          MaxPri,    \* the lowest task priority, qrdq.inf->limit
          NONE       \* no task

VARIABLES pending,   \* the requests made and not yet served, oldest first
          asleep,    \* the tasks that wait in slp_tsk
          wup,       \* queued wakeups of each task
          running    \* the task that executes its own code, or NONE

avars == <<pending, asleep, wup, running>>

(* What a caller may ask for.  The services stand for the three effects a *)
(* service has on scheduling: the caller gives up the processor, another   *)
(* task becomes ready, the precedence among ready tasks changes.           *)
Request == [op : {"slp", "wup"}, tsk : Task] \cup [op : {"rot"}, pri : 1..MaxPri]

AInit ==
    /\ pending = <<>>
    /\ asleep = {}
    /\ wup = [t \in Task |-> 0]
    /\ running = NONE

(* The running task asks for a service; it stops until it is served. *)
Call(r) ==
    /\ running # NONE
    /\ pending = <<>>
    /\ pending' = <<r>>
    /\ running' = NONE
    /\ UNCHANGED <<asleep, wup>>

(* An interrupt handler posts a request behind all earlier ones. *)
Post(r) ==
    /\ pending' = Append(pending, r)
    /\ UNCHANGED <<asleep, wup, running>>

(* Sleeping consumes a queued wakeup; a sleep asked for while dispatching  *)
(* is disabled is refused (E_CTX).                                         *)
ServeSleep(t) ==
    \/ /\ wup[t] > 0
       /\ wup' = [wup EXCEPT ![t] = @ - 1]
       /\ UNCHANGED asleep
    \/ /\ wup[t] = 0
       /\ asleep' = asleep \cup {t}
       /\ UNCHANGED wup
    \/ UNCHANGED <<asleep, wup>>

(* A wakeup ends a sleep or is counted, up to the limit. *)
ServeWakeup(t) ==
    IF t \in asleep
    THEN asleep' = asleep \ {t} /\ UNCHANGED wup
    ELSE /\ UNCHANGED asleep
         /\ wup' = IF wup[t] < MaxWup THEN [wup EXCEPT ![t] = @ + 1] ELSE wup

Serve ==
    /\ pending # <<>>
    /\ running = NONE
    /\ pending' = Tail(pending)
    /\ running' = NONE
    /\ LET r == Head(pending) IN
       CASE r.op = "slp" -> ServeSleep(r.tsk)
         [] r.op = "wup" -> ServeWakeup(r.tsk)
         [] r.op = "rot" -> UNCHANGED <<asleep, wup>>

(* The processor goes to a task only with every request served. *)
Run(t) ==
    /\ pending = <<>>
    /\ running = NONE
    /\ t \notin asleep
    /\ running' = t
    /\ UNCHANGED <<pending, asleep, wup>>

(* An interrupt or the end of a dispatch-disabled section takes it away. *)
Preempt ==
    /\ running # NONE
    /\ running' = NONE
    /\ UNCHANGED <<pending, asleep, wup>>

ANext ==
    \/ \E r \in Request : Call(r) \/ Post(r)
    \/ Serve
    \/ \E t \in Task : Run(t)
    \/ Preempt

ASpec == AInit /\ [][ANext]_avars
=============================================================================
