------------------------------- MODULE Mutex -------------------------------
(***************************************************************************)
(* Mutexes: ownership, priority inheritance and priority ceiling, on top   *)
(* of the tasks of TaskSync.  The services that neither touch a priority   *)
(* nor a wait on a mutex are left to that module.                          *)
(*                                                                         *)
(* A mutex knows its owner, the next mutex of the same owner (the chain    *)
(* lockmtx of a task), its waiters and a priority: its ceiling, or the one *)
(* its owner inherits.  A change of priority walks from a waiting task to  *)
(* the owner of what it waits for, and on.  A service makes several such   *)
(* changes in turn; the operators below take and return the kernel's state *)
(* as a record k, and Become makes the last one the next state.            *)
(***************************************************************************)
EXTENDS TaskSync

CONSTANTS Mtx,
          Attr,         \* the attributes each mutex may be created with
          CeilPri,      \* ceilpri
          TMAX_TPRI,    \* a priority below all others
          Rank          \* callers lock mutexes of different ranks in this order

ASSUME MutexAssumption ==
    /\ IsFiniteSet(Mtx) /\ Mtx \cap (Sem \cup {"SLP", "DLY", NONE}) = {}
    /\ NONE \notin {"FIFO", "TPRI", "INHERIT", "CEILING"}
    /\ Attr \in [Mtx -> SUBSET {"FIFO", "TPRI", "INHERIT", "CEILING"}]
    /\ CeilPri \in [Mtx -> 1..MaxPri]
    /\ TMAX_TPRI \in Nat /\ TMAX_TPRI > MaxPri
    /\ Rank \in [Mtx -> Nat]

VARIABLES bpri,     \* base priority of each task
          lockmtx,  \* the mutexes a task holds, the last one locked first
          mtxatr,   \* attribute of each mutex; NONE: it does not exist
          owner,    \* tskid: the task that holds it, or NONE
          mpri,     \* its priority
          mtxq      \* its wait queues: number 0 in FIFO order

mtxvars == <<bpri, lockmtx, mtxatr, owner, mpri, mtxq>>
mvars == <<vars, mtxvars>>

Empty == [p \in 0..MaxPri |-> <<>>]

MInit ==
    /\ Init
    /\ bpri = Ipri
    /\ lockmtx = [t \in Task |-> <<>>]
    /\ mtxatr = [m \in Mtx |-> NONE] /\ owner = [m \in Mtx |-> NONE]
    /\ mpri = [m \in Mtx |-> TMAX_TPRI] /\ mtxq = [m \in Mtx |-> Empty]

-----------------------------------------------------------------------------
Now == [msts |-> msts, wsts |-> wsts, cpri |-> cpri, rdq |-> rdq, timq |-> timq,
        ctcb |-> ctcb, pri |-> pri, rdsp |-> rdsp,
        lockmtx |-> lockmtx, owner |-> owner, mpri |-> mpri, mtxq |-> mtxq]

Become(k) ==
    /\ msts' = k.msts /\ wsts' = k.wsts /\ cpri' = k.cpri
    /\ rdq' = k.rdq /\ timq' = k.timq
    /\ ctcb' = k.ctcb /\ pri' = k.pri /\ rdsp' = k.rdsp
    /\ lockmtx' = k.lockmtx /\ owner' = k.owner /\ mpri' = k.mpri /\ mtxq' = k.mtxq

Asks(k) == IF dsp THEN [k EXCEPT !.rdsp = TRUE] ELSE [k EXCEPT !.ctcb = NONE]

(* _kernel_enqrdq *)
Readied(k, t) ==
    LET free == [k EXCEPT !.wsts[t] = NONE]
        ready == [free EXCEPT !.msts[t] = {"RDY"}, !.rdq[k.cpri[t]] = Append(@, t)]
    IN IF "SUS" \in k.msts[t] THEN [free EXCEPT !.msts[t] = {"SUS"}]
       ELSE IF k.pri > k.cpri[t] THEN Asks(ready) ELSE ready

WaitsForMtx(k, t) == "WAI" \in k.msts[t] /\ k.wsts[t] \in Mtx
Fifo(m) == mtxatr[m] = "FIFO"

(* A fault: the timeout of a task that got its mutex still runs. *)
UntimedNever(k, t) == k

(* The task leaves the wait queue, and the timer queue, it may be on. *)
Dequeued(k, t) ==
    [k EXCEPT !.mtxq[k.wsts[t]] = [p \in 0..MaxPri |-> Unlink(@[p], t)]]
Untimed(k, t) ==
    IF "TMR" \in k.msts[t] THEN [k EXCEPT !.timq = Unlink(@, t)] ELSE k

(* _kernel_gettcb on the wait queues of a mutex *)
Waiters(k, m) == UNION {{k.mtxq[m][p][i] : i \in 1..Len(k.mtxq[m][p])} : p \in 0..MaxPri}
MostUrgent(k, m) ==
    LET used == {p \in 0..MaxPri : k.mtxq[m][p] # <<>>}
    IN IF used = {} THEN NONE
       ELSE Head(k.mtxq[m][CHOOSE p \in used : \A q \in used : p <= q])

Least(S) == CHOOSE x \in S : \A y \in S : x <= y
Held(k, t) == {k.lockmtx[t][i] : i \in 1..Len(k.lockmtx[t])}

(* _kernel_chkmtx: what a task's priority is to be by its base priority    *)
(* and the mutexes it holds                                                *)
Inherited(k, t) ==
    Least({bpri[t]} \cup
          {k.mpri[m] : m \in {h \in Held(k, t) : mtxatr[h] \in {"INHERIT", "CEILING"}}})

(* One turn of the loop of _kernel_chgpri: task w.tcb gets priority w.p    *)
(* and moves in the queue it is on; if it waits for an inheriting mutex,   *)
(* the owner may be next.  Disconnecting once more a task that has just    *)
(* left a queue changes nothing, its old neighbours being still the same.  *)
Moved(k, t, p) ==
    LET at == [k EXCEPT !.cpri[t] = p] IN
    CASE "RDY" \in k.msts[t] ->
           [at EXCEPT !.rdq = [q \in 1..MaxPri |->
               IF q = p THEN Append(Unlink(@[q], t), t) ELSE Unlink(@[q], t)]]
      [] WaitsForMtx(k, t) /\ "FIFO" \notin k.msts[t] ->
           [Dequeued(at, t) EXCEPT !.mtxq[k.wsts[t]][p] = Append(@, t)]
      [] OTHER -> at

Noticed(k, t, p) ==
    LET ready == "RDY" \in k.msts[t] IN
    CASE ready /\ k.ctcb = t /\ k.pri > p -> [k EXCEPT !.pri = p]
      [] ready /\ k.ctcb = t /\ k.pri <= p -> Asks(k)
      [] ready /\ k.ctcb # t /\ k.pri > p -> Asks(k)
      [] OTHER -> k

(* A fault: the priority is not inherited any further. *)
TurnOnce(w) ==
    LET k == Moved(w.k, w.tcb, w.p)
        m == k.wsts[w.tcb]
    IN IF WaitsForMtx(k, w.tcb) /\ mtxatr[m] = "INHERIT"
       THEN [k |-> [k EXCEPT !.mpri[m] = k.cpri[MostUrgent(k, m)]], p |-> w.p, tcb |-> NONE]
       ELSE [k |-> Noticed(k, w.tcb, w.p), p |-> w.p, tcb |-> NONE]

Turn(w) ==
    LET t == w.tcb
        k == Moved(w.k, t, w.p)
        m == k.wsts[t]
        inherits == WaitsForMtx(k, t) /\ mtxatr[m] = "INHERIT"
        up == [k EXCEPT !.mpri[m] = w.p]
        down == [k EXCEPT !.mpri[m] = k.cpri[MostUrgent(k, m)]]
        own == Inherited(down, k.owner[m])
    IN CASE inherits /\ k.mpri[m] > w.p ->
              [k |-> up, p |-> w.p,
               tcb |-> IF k.cpri[k.owner[m]] > w.p THEN k.owner[m] ELSE NONE]
         [] inherits /\ k.mpri[m] < w.p ->
              [k |-> down, p |-> own,
               tcb |-> IF k.cpri[k.owner[m]] # own THEN k.owner[m] ELSE NONE]
         [] OTHER -> [k |-> Noticed(k, t, w.p), p |-> w.p, tcb |-> NONE]

(* The walk passes a task at most once for each priority it can still take *)
MaxTurns == 2 * Cardinality(Task) * MaxPri

(* _kernel_chgpri *)
Changed(k, t, p) ==
    LET walk[n \in 0..MaxTurns] ==
            IF n = 0 THEN [k |-> k, tcb |-> t, p |-> p]
            ELSE LET w == walk[n - 1] IN IF w.tcb = NONE THEN w ELSE Turn(w)
    IN walk[MaxTurns].k

(* mtxfunc(tcb, TRUE) *)
Checked(k, t) == Changed(k, t, Inherited(k, t))

(* A waiter has left the queue of m, not by getting it: the owner inherits *)
(* from those that remain.  (relwai, tertsk and sigtim have this in line.) *)
Abandoned(k, m) ==
    LET t == MostUrgent(k, m) IN
    IF mtxatr[m] # "INHERIT" THEN k
    ELSE Checked([k EXCEPT !.mpri[m] = IF t = NONE THEN TMAX_TPRI ELSE k.cpri[t]],
                 k.owner[m])

(* A fault: a mutex nobody waits for keeps the priority it passed on. *)
HandedOverKept(k, m) ==
    LET t == MostUrgent(k, m)
        off == Untimed(Dequeued(k, t), t)
    IN IF t = NONE
       THEN [k EXCEPT !.owner[m] = NONE]
       ELSE Readied([off EXCEPT !.owner[m] = t, !.lockmtx[t] = <<m>> \o @,
                                !.msts[t] = @ \ {"TMR"}], t)

(* _kernel_unlmtx_2: the mutex goes to the most urgent waiter. *)
HandedOver(k, m) ==
    LET t == MostUrgent(k, m)
        off == Untimed(Dequeued(k, t), t)
        got == [off EXCEPT !.owner[m] = t, !.lockmtx[t] = <<m>> \o @,
                           !.msts[t] = @ \ {"TMR"}]
        rest == MostUrgent(off, m)
    IN IF t = NONE
       THEN [k EXCEPT !.owner[m] = NONE,
                      !.mpri[m] = IF mtxatr[m] = "INHERIT" THEN TMAX_TPRI ELSE @]
       ELSE Readied(
              CASE mtxatr[m] = "INHERIT" ->
                     [got EXCEPT !.mpri[m] = IF rest = NONE THEN TMAX_TPRI ELSE k.cpri[t]]
                [] mtxatr[m] = "CEILING" ->
                     [got EXCEPT !.cpri[t] = IF @ > k.mpri[m] THEN k.mpri[m] ELSE @]
                [] OTHER -> got, t)

(* A fault: the link to the next mutex is read after the hand-over. *)
AllHandedOverFirst(k, t) ==
    IF k.lockmtx[t] = <<>> THEN k
    ELSE [HandedOver(k, Head(k.lockmtx[t])) EXCEPT !.lockmtx[t] = <<>>]

(* _kernel_unlmtx: a task that ends gives up all its mutexes. *)
AllHandedOver(k, t) ==
    LET chain == k.lockmtx[t]
        given[n \in 0..Len(chain)] ==
            IF n = 0 THEN k ELSE HandedOver(given[n - 1], chain[n])
    IN [given[Len(chain)] EXCEPT !.lockmtx[t] = <<>>]

-----------------------------------------------------------------------------
(* A fault: the priority stays as the cleared memory has it. *)
CreMtxUnset(m, a) ==
    /\ ctcb # NONE /\ mtxatr[m] = NONE
    /\ mtxatr' = [mtxatr EXCEPT ![m] = a]
    /\ owner' = [owner EXCEPT ![m] = NONE]
    /\ mpri' = [mpri EXCEPT ![m] = IF a = "CEILING" THEN CeilPri[m] ELSE 0]
    /\ mtxq' = [mtxq EXCEPT ![m] = Empty]
    /\ UNCHANGED <<vars, bpri, lockmtx>>

(* _kernel_cremtx_1 *)
CreMtx(m, a) ==
    /\ ctcb # NONE /\ mtxatr[m] = NONE
    /\ mtxatr' = [mtxatr EXCEPT ![m] = a]
    /\ owner' = [owner EXCEPT ![m] = NONE]
    /\ mpri' = [mpri EXCEPT ![m] = IF a = "CEILING" THEN CeilPri[m] ELSE TMAX_TPRI]
    /\ mtxq' = [mtxq EXCEPT ![m] = Empty]
    /\ UNCHANGED <<vars, bpri, lockmtx>>

others == <<act, wup, sus, semq, semcnt, stime, dsp, systim, due>>

(* The most urgent waiter is released, and so all of them. *)
Released(k, m) ==
    LET t == MostUrgent(k, m) IN
    IF t = NONE THEN k ELSE Readied(Untimed(Dequeued(k, t), t), t)

AllReleased(k, m) ==
    LET released[n \in 0..Cardinality(Task)] ==
            IF n = 0 THEN k ELSE Released(released[n - 1], m)
    IN released[Cardinality(Task)]

(* _kernel_delmtx: every waiter is released, the owner loses it. *)
DelMtx(m) ==
    /\ ctcb # NONE /\ mtxatr[m] # NONE
    /\ LET k == AllReleased(Now, m)
           o == k.owner[m]
       IN Become([IF o = NONE THEN k
                  ELSE Checked([k EXCEPT !.lockmtx[o] = Unlink(@, m)], o)
                  EXCEPT !.owner[m] = NONE])
    /\ mtxatr' = [mtxatr EXCEPT ![m] = NONE]
    /\ UNCHANGED <<others, bpri>>

(* _kernel_locmtx_1; d = 0 is TMO_POL. *)
LocMtx(t, m, d) ==
    /\ ctcb = t /\ mtxatr[m] # NONE /\ owner[m] # t
    /\ mtxatr[m] = "CEILING" => mpri[m] <= bpri[t]
    /\ \A h \in Held(Now, t) : Rank[h] <= Rank[m]
    /\ IF owner[m] = NONE
       THEN LET k == [Now EXCEPT !.owner[m] = t, !.lockmtx[t] = <<m>> \o @] IN
            /\ Become(IF mtxatr[m] = "CEILING" /\ cpri[t] > mpri[m]
                      THEN [Moved(k, t, mpri[m]) EXCEPT !.pri = mpri[m]] ELSE k)
            /\ UNCHANGED <<stime, due>>
       ELSE LET way == IF Fifo(m) THEN 0 ELSE cpri[t]
                off == [Now EXCEPT !.rdq[cpri[t]] = Unlink(@, t),
                                   !.mtxq[m][way] = Append(@, t),
                                   !.wsts[t] = m, !.ctcb = NONE,
                                   !.msts[t] = {"WAI"} \cup (IF Fifo(m) THEN {"FIFO"} ELSE {})]
                k == IF d = FEVR THEN off
                     ELSE [off EXCEPT !.msts[t] = @ \cup {"TMR"},
                                      !.timq = EnqTim(@, stime', t)]
            IN /\ d # 0 /\ ~dsp
               /\ IF d = FEVR THEN UNCHANGED <<stime, due>>
                  ELSE /\ stime' = [stime EXCEPT ![t] = Advance(systim, d)]
                       /\ due' = [due EXCEPT ![t] = Value(systim) + d]
               /\ Become(IF mtxatr[m] = "INHERIT" /\ mpri[m] > cpri[t]
                         THEN LET lift == [k EXCEPT !.mpri[m] = cpri[t]] IN
                              IF cpri[owner[m]] > cpri[t]
                              THEN Changed(lift, owner[m], cpri[t]) ELSE lift
                         ELSE k)
    /\ UNCHANGED <<act, wup, sus, semq, semcnt, dsp, systim, bpri, mtxatr>>

(* A fault: a task that becomes less urgent by unlocking goes on. *)
UnlMtxQuietly(t, m) ==
    /\ ctcb = t /\ mtxatr[m] # NONE /\ owner[m] = t
    /\ LET k == HandedOver([Now EXCEPT !.lockmtx[t] = Unlink(@, m)], m)
           p == Inherited(k, t)
       IN Become(IF k.cpri[t] # p THEN Moved(k, t, p) ELSE k)
    /\ UNCHANGED <<others, bpri, mtxatr>>

(* _kernel_unlmtx_1 *)
UnlMtx(t, m) ==
    /\ ctcb = t /\ mtxatr[m] # NONE /\ owner[m] = t
    /\ LET k == HandedOver([Now EXCEPT !.lockmtx[t] = Unlink(@, m)], m)
           p == Inherited(k, t)
           down == IF k.cpri[t] # p THEN Moved(k, t, p) ELSE k
       IN Become(IF pri < p THEN Asks(down) ELSE down)
    /\ UNCHANGED <<others, bpri, mtxatr>>

-----------------------------------------------------------------------------
(* The services of TaskSync that have to do with mutexes. *)

(* _kernel_chgpri_2 *)
MChgPri(t, p) ==
    /\ ~Dormant(t)
    /\ \A h \in Held(Now, t) : mtxatr[h] = "CEILING" => mpri[h] <= p
    /\ ~(WaitsForMtx(Now, t) /\ mtxatr[wsts[t]] = "CEILING" /\ mpri[wsts[t]] > p)
    /\ bpri' = [bpri EXCEPT ![t] = p]
    /\ Become(Changed(Now, t,
              Least({p} \cup {mpri[h] : h \in {x \in Held(Now, t) :
                                     mtxatr[x] \in {"INHERIT", "CEILING"}}})))
    /\ UNCHANGED <<others, mtxatr>>

(* _kernel_relwai, of a task that waits for a mutex *)
MRelWai(t) ==
    /\ WaitsForMtx(Now, t)
    /\ Become(Readied(Untimed(Abandoned(Dequeued(Now, t), wsts[t]), t), t))
    /\ UNCHANGED <<others, bpri, mtxatr>>

(* _kernel_statsk_2, after the end of a task with activations queued *)
StartedAnew(k, t) ==
    IF act[t] = 0 THEN [k EXCEPT !.msts[t] = {"DMT"}]
    ELSE Readied([k EXCEPT !.msts[t] = {"RDY"}, !.cpri[t] = Ipri[t]], t)

Restarts(t) ==
    /\ act' = [act EXCEPT ![t] = IF @ > 0 THEN @ - 1 ELSE 0]
    /\ bpri' = [bpri EXCEPT ![t] = IF act[t] > 0 THEN Ipri[t] ELSE @]

(* _kernel_tertsk_1 *)
MTerTsk(t) ==
    /\ ctcb # NONE /\ ctcb # t /\ ~Dormant(t)
    /\ LET left == CASE Ready(t) -> [Now EXCEPT !.rdq[cpri[t]] = Unlink(@, t)]
                     [] WaitsForMtx(Now, t) -> Abandoned(Dequeued(Now, t), wsts[t])
                     [] OTHER -> Now
           off == IF Waits(t) THEN Untimed(left, t) ELSE left
       IN Become(StartedAnew(AllHandedOver(off, t), t))
    /\ Restarts(t)
    /\ UNCHANGED <<wup, sus, semq, semcnt, stime, dsp, systim, due, mtxatr>>

(* _kernel_exttsk_1: the mutexes go while the task still counts as running *)
MExtTsk(t) ==
    /\ ctcb = t
    /\ LET k == AllHandedOver(Now, t)
           off == [k EXCEPT !.rdq[cpri[t]] = Unlink(@, t), !.ctcb = NONE, !.rdsp = FALSE]
       IN Become([StartedAnew(off, t) EXCEPT !.ctcb = NONE, !.rdsp = FALSE])
    /\ dsp' = FALSE
    /\ Restarts(t)
    /\ UNCHANGED <<wup, sus, semq, semcnt, stime, systim, due, mtxatr>>

(* _kernel_sigtim *)
TimedOut(k, t) ==
    LET m == k.wsts[t] IN
    IF WaitsForMtx(k, t) THEN Abandoned(Readied(Dequeued(k, t), t), m) ELSE Readied(k, t)

AllTimedOut(k, over) ==
    LET ended[n \in 0..Len(over)] ==
            IF n = 0 THEN k ELSE TimedOut(ended[n - 1], over[n])
    IN ended[Len(over)]

MSigTim ==
    /\ Value(systim) + Tick <= MaxTime
    /\ systim' = Advance(systim, Tick)
    /\ Become(AllTimedOut([Now EXCEPT !.timq = RestOf(@, stime, systim')],
                          DueOf(timq, stime, systim')))
    /\ UNCHANGED <<act, wup, sus, semq, semcnt, stime, dsp, due, bpri, mtxatr>>

MActTsk(t) ==
    /\ ActTsk(t)
    /\ bpri' = [bpri EXCEPT ![t] = IF Dormant(t) THEN Ipri[t] ELSE @]
    /\ UNCHANGED <<lockmtx, mtxatr, owner, mpri, mtxq>>

MNext ==
    \/ \E m \in Mtx : \E a \in Attr[m] : CreMtx(m, a)
    \/ \E m \in Mtx : DelMtx(m)
    \/ \E t \in Task, m \in Mtx :
         \/ UnlMtx(t, m)
         \/ \E d \in Timeout \cup {0} : LocMtx(t, m, d)
    \/ \E t \in Task :
         \/ MActTsk(t) \/ MTerTsk(t) \/ MExtTsk(t) \/ MRelWai(t)
         \/ \E p \in 1..MaxPri : MChgPri(t, p)
    \/ MSigTim
    \/ /\ \/ \E t \in Task : SlpTsk(t, FEVR) \/ WupTsk(t)
          \/ DisDsp \/ EnaDsp \/ Dispatch
       /\ UNCHANGED mtxvars

MSpec == MInit /\ [][MNext]_mvars

-----------------------------------------------------------------------------
(* PROPERTIES                                                              *)

MTypeOK ==
    /\ bpri \in [Task -> 1..MaxPri]
    /\ lockmtx \in [Task -> Seq(Mtx)]
    /\ mtxatr \in [Mtx -> {"FIFO", "TPRI", "INHERIT", "CEILING", NONE}]
    /\ owner \in [Mtx -> Task \cup {NONE}]
    /\ mpri \in [Mtx -> 1..TMAX_TPRI]
    /\ mtxq \in [Mtx -> [0..MaxPri -> Seq(Task)]]

(* A mutex has one owner, whose chain holds it once; nobody waits for a    *)
(* mutex without an owner; a dormant task owns none.  Through unlocking in *)
(* any order, hand-over, termination of owners and waiters, timeouts and   *)
(* deletion.                                                               *)
OwnersMatchChains ==
    /\ \A t \in Task, m \in Mtx : Times(lockmtx[t], m) = IF owner[m] = t THEN 1 ELSE 0
    /\ \A m \in Mtx : owner[m] = NONE => Waiters(Now, m) = {}
    /\ \A t \in Task : Dormant(t) => lockmtx[t] = <<>>

(* A task is linked where its state says, once, at its current priority,   *)
(* however often priorities are handed on.                                 *)
WaitersMatchState ==
    \A t \in Task :
        /\ \A p \in 1..MaxPri :
              Times(rdq[p], t) = IF Ready(t) /\ cpri[t] = p THEN 1 ELSE 0
        /\ \A m \in Mtx, p \in 0..MaxPri :
              Times(mtxq[m][p], t) =
                  IF WaitsForMtx(Now, t) /\ wsts[t] = m
                     /\ p = (IF Fifo(m) THEN 0 ELSE cpri[t])
                  THEN 1 ELSE 0
        /\ Times(timq, t) = IF "TMR" \in msts[t] THEN 1 ELSE 0

(* No priority inversion: the owner of an inheriting mutex is as urgent as *)
(* each of its waiters, along whole chains of owners; the owner of one     *)
(* with a ceiling is as urgent as the ceiling, and no task is less urgent  *)
(* than its base priority.                                                 *)
NoInversion ==
    /\ \A m \in Mtx : owner[m] # NONE =>
          /\ mtxatr[m] = "INHERIT" => \A t \in Waiters(Now, m) : cpri[owner[m]] <= cpri[t]
          /\ mtxatr[m] = "CEILING" => cpri[owner[m]] <= mpri[m]
    /\ \A t \in Task : Dormant(t) \/ cpri[t] <= bpri[t]

(* A task that holds no mutex others want has its base priority again.     *)
PriorityRestored ==
    \A t \in Task :
        Dormant(t) \/ cpri[t] = bpri[t]
        \/ \E m \in Held(Now, t) :
             mtxatr[m] = "CEILING" \/ (mtxatr[m] = "INHERIT" /\ Waiters(Now, m) # {})

(* The same to the letter: a task is no more urgent than the most urgent   *)
(* of its base priority, its ceilings and the waiters it inherits from.    *)
InheritsFromWaiters ==
    \A t \in Task :
        Dormant(t) \/ cpri[t] = bpri[t]
        \/ \E m \in Held(Now, t) :
             \/ mtxatr[m] = "CEILING" /\ cpri[t] = mpri[m]
             \/ mtxatr[m] = "INHERIT" /\ \E w \in Waiters(Now, m) : cpri[w] = cpri[t]

(* A task released from waiting is on no mutex's wait queue. *)
ReleasedFromWaiting ==
    \A t \in Task, m \in Mtx : Ready(t) => t \notin Waiters(Now, m)
=============================================================================
