------------------------------- MODULE Waiting -------------------------------
(***************************************************************************)
(* Waiting for a communication object: what semaphores, event flags, data  *)
(* queues, mailboxes, message buffers, rendezvous ports and memory pools have in   *)
(* common.                                                                 *)
(*                                                                         *)
(* An object has one wait queue or two.  The one called que here is in     *)
(* order of arrival always; sque is in order of priority if the object was *)
(* created so.  A task that waits is in one of them, and in the timer      *)
(* queue if it asked for a timeout, as its flags and the reason of its     *)
(* wait say.  Whoever ends the wait unlinks it by these.                   *)
(*                                                                         *)
(* Which task runs is not modelled here (TaskSync does): any task that is  *)
(* ready may be the one that calls next, as tasks are suspended and        *)
(* rotated and priorities are changed from outside.  A call that need not  *)
(* wait may also come from a handler and names no caller.                  *)
(***************************************************************************)
EXTENDS Naturals, Sequences, FiniteSets, Queue

CONSTANTS Task,
          MaxPri,     \* the lowest priority
          Obj,        \* the identifiers of the objects, of every kind
          Configs,    \* the sets of identifiers a system may be built with
          NONE

(* The reasons of a wait, by the queue the task is in.  In a rendezvous it *)
(* is in none.                                                             *)
QueWaits  == {"RDTQ", "RMBF", "ACP"}
SqueWaits == {"SEM", "FLG", "SDTQ", "MBX", "SMBF", "CAL", "MPF", "MPL"}

ASSUME WaitingAssumption ==
    /\ IsFiniteSet(Task) /\ NONE \notin Task /\ NONE \notin Obj
    /\ NONE \notin QueWaits \cup SqueWaits \cup {"RDV"}
    /\ MaxPri \in Nat \ {0}
    /\ Configs \subseteq SUBSET Obj

VARIABLES
    ids,            \* the identifiers the tables were made for at start-up
    objs,           \* the objects that exist
    atr,            \* their attributes
    que, sque,      \* their wait queues
    msts, wsts,     \* flags of each task; what it waits for
    wobj,           \* the object in whose queue it is
    par,            \* the parameters of the call it waits in
    cpri,           \* its priority
    timq,           \* the tasks that are in the timer queue
    chk,            \* the object whose waiting tasks the kernel is looking at
    post,           \* the pool a task has to look at when its wait timed out
    owed,           \* history: objects that nobody will look at though one
                    \* of their waiting tasks may have become the first
    out             \* history: from which object the last step handed
                    \* something over, and what

waiting == <<que, sque, msts, wsts, wobj, par, timq>>
steady  == <<ids, objs, atr, cpri, chk, post, owed>>
wvars   == <<waiting, steady, out>>

(* The attributes an object may be created with; those not named are FIFO. *)
ATTR == {"TPRI", "WMUL", "CLR", "MPRI"}

WInit ==
    /\ ids \in Configs
    /\ objs = {} /\ atr = [o \in Obj |-> {}]
    /\ que = [o \in Obj |-> <<>>] /\ sque = que
    /\ msts = [t \in Task |-> {"RDY"}] /\ wsts = [t \in Task |-> NONE]
    /\ wobj = wsts /\ par = wsts
    /\ cpri = [t \in Task |-> MaxPri]
    /\ timq = {} /\ chk = NONE /\ post = wsts /\ owed = {}
    /\ out = <<NONE, NONE>>

-----------------------------------------------------------------------------
(* t may call: it is ready and has returned from its last call. *)
Ready(t) == "RDY" \in msts[t] /\ post[t] = NONE
Waits(t) == "WAI" \in msts[t]

Members(q) == {q[i] : i \in 1..Len(q)}

(* _kernel_enqtcb into the queue of the task's priority, or the only one *)
Enq(q, t, cp, tpri) ==
    LET ahead == {u \in Task : cp[u] <= cp[t]}
    IN IF tpri THEN Keep(q, ahead) \o <<t>> \o Keep(q, Task \ ahead)
               ELSE Append(q, t)

(* deqtcb: the block leaves whichever queue it is linked in *)
Without(queue, ts) == [o \in Obj |-> Keep(queue[o], Task \ ts)]

(* deqtcb of the tasks of deq, the timer links of those of off, and        *)
(* enqrdq of all of ts.                                                    *)
Release(ts, deq, off) ==
    /\ que' = Without(que, deq) /\ sque' = Without(sque, deq)
    /\ msts' = [t \in Task |-> IF t \in ts THEN {"RDY"} ELSE msts[t]]
    /\ wsts' = [t \in Task |-> IF t \in ts THEN NONE ELSE wsts[t]]
    /\ wobj' = [t \in Task |-> IF t \in ts THEN NONE ELSE wobj[t]]
    /\ par'  = [t \in Task |-> IF t \in ts THEN NONE ELSE par[t]]
    /\ timq' = timq \ off

Timed(ts) == {t \in ts : "TMR" \in msts[t]}

(* A fault: a task that is served is left in the timer queue. *)
WakeTimed(ts) == Release(ts, ts, {})

(* Tasks that a call found in a wait queue get what they wait for. *)
Wake(ts) == Release(ts, ts, Timed(ts))

(* The task t waits for o, for reason why, with parameters p. *)
Block(t, o, why, p, timed) ==
    LET tpri == "TPRI" \in atr[o]
        fifo == why \in QueWaits \/ (why \in SqueWaits /\ ~tpri)
    IN /\ msts' = [msts EXCEPT ![t] = {"WAI"}
                     \cup (IF fifo THEN {"FIFO"} ELSE {})
                     \cup (IF timed THEN {"TMR"} ELSE {})]
       /\ wsts' = [wsts EXCEPT ![t] = why]
       /\ wobj' = [wobj EXCEPT ![t] = o]
       /\ par'  = [par EXCEPT ![t] = p]
       /\ timq' = IF timed THEN timq \cup {t} ELSE timq
       /\ que'  = IF why \in QueWaits
                  THEN [que EXCEPT ![o] = Append(@, t)] ELSE que
       /\ sque' = IF why \in SqueWaits
                  THEN [sque EXCEPT ![o] = Enq(@, t, cpri, tpri)] ELSE sque

-----------------------------------------------------------------------------
(* What a service of o hands over, to its caller or to a task that waits. *)
Gives(o, v) == out' = <<o, v>>
GivesNothing == out' = <<NONE, NONE>>

(* cre_*: the identifier is one of the configuration and is free. *)
Create(o, a) ==
    /\ o \in ids \ objs
    /\ objs' = objs \cup {o} /\ atr' = [atr EXCEPT ![o] = a]
    /\ GivesNothing
    /\ UNCHANGED <<ids, waiting, cpri, chk, post, owed>>

(* del_*: every task in a wait queue of the object is released. *)
Delete(o) ==
    /\ o \in objs
    /\ objs' = objs \ {o} /\ atr' = [atr EXCEPT ![o] = {}]
    /\ Wake(Members(que[o]) \cup Members(sque[o]))
    /\ owed' = owed \ {o} /\ GivesNothing
    /\ UNCHANGED <<ids, cpri, chk, post>>

(* _kernel_sigtim: the timeout of t elapses.  A task that waited for a     *)
(* memory pool will look at the pool's queue itself; those behind a sender *)
(* of a message buffer are left as they are.                               *)
TimeOut(t) ==
    /\ t \in timq
    /\ Release({t}, IF Waits(t) /\ wsts[t] # "RDV" THEN {t} ELSE {}, {t})
    /\ post' = IF wsts[t] = "MPL" THEN [post EXCEPT ![t] = wobj[t]] ELSE post
    /\ owed' = owed \cup {o \in Obj : wsts[t] = "SMBF" /\ sque[o] # <<>>
                                        /\ Head(sque[o]) = t}
    /\ GivesNothing
    /\ UNCHANGED <<ids, objs, atr, cpri, chk>>

(* A fault: the kernel does not look. *)
LookNot(t) == chk' = chk

(* mplfunc and mbffunc: the kernel looks at the queue t was in or moved in *)
LookAfter(t) ==
    chk' = IF Waits(t) /\ wsts[t] \in {"MPL", "SMBF"} THEN wobj[t] ELSE chk

(* _kernel_relwai; _kernel_tertsk does the same with a task that waits *)
RelWai(t) ==
    /\ Waits(t)
    /\ Release({t}, IF wsts[t] # "RDV" THEN {t} ELSE {}, Timed({t}))
    /\ LookAfter(t)
    /\ GivesNothing
    /\ UNCHANGED <<ids, objs, atr, cpri, post, owed>>

(* _kernel_tertsk of a task that is ready; it shows here only if the task  *)
(* still had to look at a pool.                                            *)
TerTsk(t) ==
    /\ post[t] # NONE
    /\ post' = [post EXCEPT ![t] = NONE] /\ owed' = owed \cup {post[t]}
    /\ GivesNothing
    /\ UNCHANGED <<ids, objs, atr, waiting, cpri, chk>>

(* _kernel_chgpri: a task in a queue in order of priority moves in it. *)
ChgPri(t, p) ==
    /\ cpri' = [cpri EXCEPT ![t] = p]
    /\ IF Waits(t) /\ "FIFO" \notin msts[t] /\ wsts[t] # "RDV"
       THEN /\ sque' = [Without(sque, {t}) EXCEPT ![wobj[t]] = Enq(@, t, cpri', TRUE)]
            /\ LookAfter(t)
       ELSE UNCHANGED <<sque, chk>>
    /\ GivesNothing
    /\ UNCHANGED <<ids, objs, atr, que, msts, wsts, wobj, par, timq, post, owed>>

-----------------------------------------------------------------------------
WTypeOK ==
    /\ ids \in Configs /\ objs \in SUBSET ids /\ atr \in [Obj -> SUBSET ATTR]
    /\ que \in [Obj -> Seq(Task)] /\ sque \in [Obj -> Seq(Task)]
    /\ msts \in [Task -> SUBSET {"RDY", "WAI", "FIFO", "TMR"}]
    /\ wsts \in [Task -> QueWaits \cup SqueWaits \cup {"RDV", NONE}]
    /\ wobj \in [Task -> Obj \cup {NONE}]
    /\ cpri \in [Task -> 1..MaxPri] /\ timq \in SUBSET Task
    /\ chk \in Obj \cup {NONE} /\ post \in [Task -> Obj \cup {NONE}]
    /\ owed \in SUBSET Obj

Order(q) == \A i, j \in 1..Len(q) : i < j => cpri[q[i]] <= cpri[q[j]]

(* A task is in the queue that its state names, once and in no other, in   *)
(* the timer queue exactly if its flags say so, and a queue in order of    *)
(* priority is in that order: from whichever side waits are ended, the     *)
(* links that are followed are those that exist.                           *)
QueuesMatchWaits ==
    /\ \A o \in Obj :
          /\ \A i \in 1..Len(que[o]) : LET t == que[o][i] IN
                Waits(t) /\ wsts[t] \in QueWaits /\ wobj[t] = o
          /\ \A i \in 1..Len(sque[o]) : LET t == sque[o][i] IN
                Waits(t) /\ wsts[t] \in SqueWaits /\ wobj[t] = o
          /\ \A i, j \in 1..Len(que[o])  : i # j => que[o][i] # que[o][j]
          /\ \A i, j \in 1..Len(sque[o]) : i # j => sque[o][i] # sque[o][j]
          /\ "TPRI" \in atr[o] => Order(sque[o])
          /\ o \notin objs => que[o] = <<>> /\ sque[o] = <<>>
    /\ \A t \in Task :
          /\ Waits(t) <=> wsts[t] # NONE
          /\ wsts[t] \in QueWaits  => t \in Members(que[wobj[t]])
          /\ wsts[t] \in SqueWaits => t \in Members(sque[wobj[t]])
          /\ t \in timq <=> "TMR" \in msts[t]
          /\ "RDY" \in msts[t] => msts[t] = {"RDY"}

=============================================================================
