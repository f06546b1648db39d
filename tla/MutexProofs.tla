---------------------------- MODULE MutexProofs ----------------------------
(***************************************************************************)
(* Proofs about the mutexes of Mutex, for any tasks, mutexes, attributes,  *)
(* ceilings and priorities: queues and chains match the state of the tasks *)
(* and mutexes, no priority is inverted, and what was inherited is given   *)
(* back.  All of it supposes that callers lock mutexes in an order:        *)
(* without one a chain of owners may close, and _kernel_chgpri links a     *)
(* task that has left its wait into the queue again (ReleasedFromWaiting). *)
(*                                                                         *)
(* A service makes several changes to the kernel's state in turn, so what  *)
(* holds between two of them is stated of a record k, with the exceptions  *)
(* as parameters: tasks that have left their queue (X), or the timer queue *)
(* (Y), and not yet been made ready; a task whose chain of mutexes (M) is  *)
(* being given up; the tasks whose priority is still to be changed (E).    *)
(* The first half says what the parts of a service do to k; the second     *)
(* half puts them together.                                                *)
(***************************************************************************)
EXTENDS Mutex, TaskSyncProofs

Why == {"SLP", "DLY", NONE} \cup Sem \cup Mtx

Kernel == [msts : [Task -> SUBSET Flags], wsts : [Task -> Why],
           cpri : [Task -> 1..MaxPri],
           rdq : [1..MaxPri -> Seq(Task)], timq : Seq(Task),
           ctcb : Task \cup {NONE}, pri : 1..(MaxPri + 1), rdsp : BOOLEAN,
           lockmtx : [Task -> Seq(Mtx)], owner : [Mtx -> Task \cup {NONE}],
           mpri : [Mtx -> 1..TMAX_TPRI], mtxq : [Mtx -> [0..MaxPri -> Seq(Task)]]]

(* Task t waits for mutex m. *)
Wants(ms, ws, t, m) == "WAI" \in ms[t] /\ ws[t] = m

(* The flags of a task, in a wait for a mutex too. *)
MFlagged(ms, ws, at) ==
    /\ Flagged(ms, ws)
    /\ \A t \in Task, m \in Mtx : Wants(ms, ws, t, m) =>
          at[m] # NONE /\ ("FIFO" \in ms[t] <=> at[m] = "FIFO")

(* The wait queues of the mutexes, with the tasks other than those of X.   *)
Side(m, t, at, cp) == IF at[m] = "FIFO" THEN 0 ELSE cp[t]

OffMtxq(mq, ms, ws, cp, at, X) == \A m \in Mtx, p \in 0..MaxPri :
    /\ Once(mq[m][p])
    /\ \A t \in Task : t \in ToSet(mq[m][p]) <=>
          t \notin X /\ Wants(ms, ws, t, m) /\ p = Side(m, t, at, cp)

(* All queues, with the tasks of X on no wait queue and no ready queue and *)
(* those of Y not on the timer queue.                                      *)
Linked(k, X, Y, at, st) ==
    /\ MFlagged(k.msts, k.wsts, at)
    /\ OffRdq(k.rdq, k.msts, k.cpri, X)
    /\ OffMtxq(k.mtxq, k.msts, k.wsts, k.cpri, at, X)
    /\ OffTimq(k.timq, k.msts, st, Y)

(* The chains of the tasks, x's without regard to the mutexes of M.        *)
Chained(lm, ow, x, M) ==
    /\ \A t \in Task : Once(lm[t])
    /\ \A t \in Task, m \in Mtx : ~(t = x /\ m \in M) =>
          (m \in ToSet(lm[t]) <=> ow[m] = t)

(* An owner is not dormant; a mutex that is waited for has one; and no     *)
(* task waits for a mutex before one it holds.                             *)
Backed(k, X, at) ==
    /\ \A m \in Mtx : k.owner[m] # NONE => at[m] # NONE /\ "DMT" \notin k.msts[k.owner[m]]
    /\ \A t \in Task \ X, m \in Mtx : Wants(k.msts, k.wsts, t, m) => k.owner[m] # NONE
    /\ \A t \in Task, m \in Mtx, h \in Mtx :
          Wants(k.msts, k.wsts, t, m) /\ k.owner[h] = t => Rank[h] < Rank[m]

(* What the mutexes that t holds raise it to. *)
Lifts(k, at, t) == {k.mpri[m] : m \in {h \in Held(k, t) : at[h] \in {"INHERIT", "CEILING"}}}
InheritedBy(k, at, b, t) == Least({b[t]} \cup Lifts(k, at, t))

(* Every task but those of E has the priority it is to have. *)
Inheriting(k, E, at, b) == \A t \in Task \ E :
    "DMT" \notin k.msts[t] => k.cpri[t] = InheritedBy(k, at, b, t)

(* A mutex passes on a priority as high as its waiters', and none without  *)
(* waiters, unless it is one of M.                                         *)
OfferedAt(k, X, M, m) ==
    /\ \A t \in Task \ X : Wants(k.msts, k.wsts, t, m) => k.mpri[m] <= k.cpri[t]
    /\ m \notin M /\ (\A t \in Task \ X : ~Wants(k.msts, k.wsts, t, m)) =>
          k.mpri[m] = TMAX_TPRI
Offered(k, X, at, M) == \A m \in Mtx : at[m] = "INHERIT" => OfferedAt(k, X, M, m)

Running(k, d) ==
    /\ k.ctcb # NONE => "RDY" \in k.msts[k.ctcb]
    /\ d => k.ctcb # NONE
    /\ k.rdsp => d
    /\ k.ctcb # NONE /\ ~k.rdsp => k.pri = k.cpri[k.ctcb] /\ First(k.rdq, k.pri, k.ctcb)

(* Between two of the changes: a task x may be giving up its mutexes M.    *)
Part(k, X, Y, x, M, at, st, b, d) ==
    /\ k \in Kernel /\ X \subseteq Task
    /\ Linked(k, X, Y, at, st) /\ Running(k, d)
    /\ Chained(k.lockmtx, k.owner, x, M) /\ Backed(k, X, at)
    /\ Offered(k, X, at, {}) /\ Inheriting(k, {x}, at, b)

(* And when no task is. *)
Whole(k, X, Y, at, st, b, d) == Part(k, X, Y, NONE, {}, at, st, b, d)

-----------------------------------------------------------------------------
(* What the assumptions on the constants say. *)
LEMMA MConstants ==
    /\ NONE \notin Mtx /\ "SLP" \notin Mtx /\ "DLY" \notin Mtx /\ Mtx \cap Sem = {}
    /\ NONE \notin {"FIFO", "TPRI", "INHERIT", "CEILING"}
    /\ \A m \in Mtx : Attr[m] \subseteq {"FIFO", "TPRI", "INHERIT", "CEILING"}
    /\ \A m \in Mtx : CeilPri[m] \in 1..MaxPri /\ Rank[m] \in Nat
    /\ TMAX_TPRI \in Nat /\ TMAX_TPRI > MaxPri
    /\ MaxPri \in Nat /\ MaxPri > 0 /\ 1..MaxPri \subseteq 1..TMAX_TPRI
    /\ Cardinality(Task) \in Nat /\ MaxTurns \in Nat
<1>1. Cardinality(Task) \in Nat BY TaskSyncAssumption, FS_CardinalityType
<1>2. MaxPri \in Nat /\ MaxPri > 0 BY Constants
<1>3. MaxTurns \in Nat BY <1>1, <1>2 DEF MaxTurns
<1>4. ASSUME NEW m \in Mtx
      PROVE  /\ Attr[m] \subseteq {"FIFO", "TPRI", "INHERIT", "CEILING"}
             /\ CeilPri[m] \in 1..MaxPri /\ Rank[m] \in Nat
      BY MutexAssumption
<1>5. /\ NONE \notin Mtx /\ "SLP" \notin Mtx /\ "DLY" \notin Mtx /\ Mtx \cap Sem = {}
      /\ NONE \notin {"FIFO", "TPRI", "INHERIT", "CEILING"}
      /\ TMAX_TPRI \in Nat /\ TMAX_TPRI > MaxPri
      BY MutexAssumption
<1>6. 1..MaxPri \subseteq 1..TMAX_TPRI BY <1>2, <1>5
<1> QED BY <1>1, <1>2, <1>3, <1>4, <1>5, <1>6

(* The parts of the kernel's state. *)
LEMMA KernelFields ==
    ASSUME NEW k \in Kernel
    PROVE  /\ k.msts \in [Task -> SUBSET Flags] /\ k.wsts \in [Task -> Why]
           /\ k.cpri \in [Task -> 1..MaxPri]
           /\ k.rdq \in [1..MaxPri -> Seq(Task)] /\ k.timq \in Seq(Task)
           /\ k.ctcb \in Task \cup {NONE} /\ k.pri \in 1..(MaxPri + 1) /\ k.rdsp \in BOOLEAN
           /\ k.lockmtx \in [Task -> Seq(Mtx)] /\ k.owner \in [Mtx -> Task \cup {NONE}]
           /\ k.mpri \in [Mtx -> 1..TMAX_TPRI] /\ k.mtxq \in [Mtx -> [0..MaxPri -> Seq(Task)]]
BY DEF Kernel

(* The least of a set of priorities is one of them. *)
LEMMA LeastFacts ==
    ASSUME NEW S \in SUBSET Nat, S # {}
    PROVE  /\ Least(S) \in S /\ \A x \in S : Least(S) <= x
           /\ \A y \in S : (\A x \in S : y <= x) => y = Least(S)
<1>1. PICK x \in S : \A y \in S : x <= y BY LeastOf
<1>2. Least(S) \in S /\ \A y \in S : Least(S) <= y BY <1>1 DEF Least
<1>3. ASSUME NEW y \in S, \A z \in S : y <= z PROVE y = Least(S)
  <2>1. PICK l \in S : l = Least(S) BY <1>2
  <2>2. l <= y /\ y <= l /\ l \in Nat /\ y \in Nat BY <1>2, <1>3, <2>1
  <2> QED BY <2>1, <2>2
<1> QED BY <1>2, <1>3

(* What a task holds is what is in its chain. *)
LEMMA HeldFacts ==
    ASSUME NEW k \in Kernel, NEW t \in Task
    PROVE  Held(k, t) = ToSet(k.lockmtx[t]) /\ Held(k, t) \subseteq Mtx
<1>1. k.lockmtx[t] \in Seq(Mtx) BY KernelFields
<1> QED BY <1>1, ToSetFacts DEF Held

(* The priority a task is to have is its base priority or that of a mutex  *)
(* it holds, and it is as urgent as each of them.                          *)
Raises(k, at, t, m) == m \in Held(k, t) /\ at[m] \in {"INHERIT", "CEILING"}

(* A task has its own priority, or one that a mutex it holds passes on. *)
LEMMA InheritedFacts ==
    ASSUME NEW k \in Kernel, NEW at, NEW b \in [Task -> 1..MaxPri], NEW t \in Task
    PROVE  /\ InheritedBy(k, at, b, t) \in 1..MaxPri
           /\ InheritedBy(k, at, b, t) <= b[t]
           /\ \A m \in Mtx : Raises(k, at, t, m) => InheritedBy(k, at, b, t) <= k.mpri[m]
           /\ \/ InheritedBy(k, at, b, t) = b[t]
              \/ \E m \in Mtx : Raises(k, at, t, m) /\ InheritedBy(k, at, b, t) = k.mpri[m]
<1>1. PICK S : S = {b[t]} \cup Lifts(k, at, t) OBVIOUS
<1>2. Held(k, t) \subseteq Mtx BY HeldFacts
<1>3. \A m \in Mtx : k.mpri[m] \in 1..TMAX_TPRI BY KernelFields
<1>4. b[t] \in 1..MaxPri OBVIOUS
<1>5. \A x \in S : x = b[t] \/ \E m \in Mtx : Raises(k, at, t, m) /\ x = k.mpri[m]
      BY <1>1, <1>2 DEF Lifts, Raises
<1>6. S \in SUBSET Nat BY <1>3, <1>4, <1>5, MConstants
<1>7. b[t] \in S /\ \A m \in Mtx : Raises(k, at, t, m) => k.mpri[m] \in S
      BY <1>1 DEF Lifts, Raises
<1>8. PICK v : v = InheritedBy(k, at, b, t) OBVIOUS
<1>9. v = Least(S) BY <1>1, <1>8 DEF InheritedBy
<1>10. v \in S /\ \A x \in S : v <= x BY <1>6, <1>7, <1>9, LeastFacts
<1>11. v \in 1..MaxPri
  <2>1. v <= b[t] BY <1>7, <1>10
  <2>2. v \in Nat /\ v >= 1 BY <1>3, <1>4, <1>5, <1>10
  <2> QED BY <1>4, <2>1, <2>2, MConstants
<1> QED BY <1>5, <1>7, <1>8, <1>10, <1>11

(* It is the one that is. *)
LEMMA InheritedIs ==
    ASSUME NEW k \in Kernel, NEW at, NEW b \in [Task -> 1..MaxPri], NEW t \in Task,
           NEW v \in Nat, v <= b[t],
           \A m \in Mtx : Raises(k, at, t, m) => v <= k.mpri[m],
           \/ v = b[t]
           \/ \E m \in Mtx : Raises(k, at, t, m) /\ v = k.mpri[m]
    PROVE  v = InheritedBy(k, at, b, t)
<1>1. PICK u \in 1..MaxPri : u = InheritedBy(k, at, b, t) BY InheritedFacts
<1>2. /\ u <= b[t] /\ \A m \in Mtx : Raises(k, at, t, m) => u <= k.mpri[m]
      /\ \/ u = b[t]
         \/ \E m \in Mtx : Raises(k, at, t, m) /\ u = k.mpri[m]
      BY <1>1, InheritedFacts
<1>3. u \in Nat BY MConstants
<1>4. v <= u BY <1>2
<1>5. u <= v BY <1>2
<1> QED BY <1>1, <1>3, <1>4, <1>5

(* It only depends on what the task holds and these mutexes' priorities. *)
SameLifts(r, k, at, t) ==
    r.lockmtx[t] = k.lockmtx[t] /\ \A m \in Mtx : Raises(k, at, t, m) => r.mpri[m] = k.mpri[m]

(* A task inherits the same as long as it holds the same. *)
LEMMA InheritedSame ==
    ASSUME NEW k \in Kernel, NEW r \in Kernel, NEW at, NEW t \in Task, SameLifts(r, k, at, t),
           NEW b, NEW c, c[t] = b[t]
    PROVE  InheritedBy(r, at, c, t) = InheritedBy(k, at, b, t)
<1>1. Held(r, t) = Held(k, t) /\ Held(k, t) \subseteq Mtx BY HeldFacts DEF SameLifts
<1>2. Lifts(r, at, t) = Lifts(k, at, t) BY <1>1 DEF Lifts, Raises, SameLifts
<1> QED BY <1>2 DEF InheritedBy

(* Inherited of Mutex is InheritedBy of the state of the moment. *)
LEMMA InheritedNow ==
    \A k, t : Inherited(k, t) = InheritedBy(k, mtxatr, bpri, t)
BY DEF Inherited, InheritedBy, Lifts

-----------------------------------------------------------------------------
(* THE WAIT QUEUES OF THE MUTEXES                                          *)

(* A task is unlinked, from whichever queue of m it is on. *)
Cut(r, mq, m, t) == r = [mq EXCEPT ![m] = [p \in 0..MaxPri |-> Unlink(@[p], t)]]

(* A waiter is taken off its queue. *)
LEMMA MtxqDrop ==
    ASSUME NEW mq \in [Mtx -> [0..MaxPri -> Seq(Task)]], NEW ms, NEW ws, NEW cp, NEW at,
           NEW X, OffMtxq(mq, ms, ws, cp, at, X), NEW t \in Task, NEW m \in Mtx,
           Wants(ms, ws, t, m), NEW r, Cut(r, mq, m, t)
    PROVE  r \in [Mtx -> [0..MaxPri -> Seq(Task)]] /\ OffMtxq(r, ms, ws, cp, at, X \cup {t})
<1>1. ASSUME NEW p \in 0..MaxPri
      PROVE  /\ Unlink(mq[m][p], t) \in Seq(Task)
             /\ ToSet(Unlink(mq[m][p], t)) = ToSet(mq[m][p]) \ {t}
             /\ Once(Unlink(mq[m][p], t))
  <2>1. PICK q \in Seq(Task) : q = mq[m][p] OBVIOUS
  <2>2. Once(q) BY <2>1 DEF OffMtxq
  <2> QED BY <2>1, <2>2, RemoveFirstOnce DEF Unlink
<1>2. r = [mq EXCEPT ![m] = [p \in 0..MaxPri |-> Unlink(mq[m][p], t)]] BY DEF Cut
<1>3. /\ r \in [Mtx -> [0..MaxPri -> Seq(Task)]]
      /\ \A p \in 0..MaxPri : r[m][p] = Unlink(mq[m][p], t)
      /\ \A n \in Mtx : n # m => r[n] = mq[n]
      BY <1>1, <1>2
<1>4. ASSUME NEW n \in Mtx, NEW p \in 0..MaxPri
      PROVE  /\ Once(r[n][p])
             /\ \A u \in Task : u \in ToSet(r[n][p]) <=>
                   u \notin X \cup {t} /\ Wants(ms, ws, u, n) /\ p = Side(n, u, at, cp)
  <2>1. /\ Once(mq[n][p])
        /\ \A u \in Task : u \in ToSet(mq[n][p]) <=>
              u \notin X /\ Wants(ms, ws, u, n) /\ p = Side(n, u, at, cp)
        BY DEF OffMtxq
  <2>2. CASE n = m BY <1>1, <1>3, <2>1, <2>2
  <2>3. CASE n # m
    <3>1. r[n] = mq[n] /\ ~Wants(ms, ws, t, n) BY <1>3, <2>3 DEF Wants
    <3> QED BY <2>1, <3>1
  <2> QED BY <2>2, <2>3
<1> QED BY <1>3, <1>4 DEF OffMtxq

(* A task is linked, and the others wait as before. *)
Enqueued(r, mq, m, p, t) == r = [mq EXCEPT ![m][p] = Append(@, t)]
Wait(ms, ws, cp, ms2, ws2, cp2, t) == \A u \in Task \ {t} :
    cp2[u] = cp[u] /\ \A n \in Mtx : Wants(ms2, ws2, u, n) <=> Wants(ms, ws, u, n)

(* A task enters the queue of the mutex it is to wait for. *)
LEMMA MtxqEnter ==
    ASSUME NEW mq \in [Mtx -> [0..MaxPri -> Seq(Task)]], NEW ms, NEW ws, NEW cp, NEW at,
           NEW X, NEW t \in Task, OffMtxq(mq, ms, ws, cp, at, X \cup {t}),
           NEW ms2, NEW ws2, NEW cp2 \in [Task -> 1..MaxPri],
           Wait(ms, ws, cp, ms2, ws2, cp2, t),
           NEW m \in Mtx, Wants(ms2, ws2, t, m), NEW p, p = Side(m, t, at, cp2),
           NEW r, Enqueued(r, mq, m, p, t), t \notin X
    PROVE  r \in [Mtx -> [0..MaxPri -> Seq(Task)]] /\ OffMtxq(r, ms2, ws2, cp2, at, X)
<1>1. p \in 0..MaxPri BY MConstants DEF Side
<1>2. PICK q \in Seq(Task) : q = mq[m][p] BY <1>1
<1>3. t \notin ToSet(q) /\ Once(q) BY <1>1, <1>2 DEF OffMtxq
<1>4. PICK a : a = Append(q, t) OBVIOUS
<1>5. a \in Seq(Task) /\ ToSet(a) = ToSet(q) \cup {t} /\ Once(a) BY <1>3, <1>4, AppendOnce
<1>9. r = [mq EXCEPT ![m][p] = Append(@, t)] BY DEF Enqueued
<1>10. /\ \A u \in Task \ {t} : \A n \in Mtx : Wants(ms2, ws2, u, n) <=> Wants(ms, ws, u, n)
       /\ \A u \in Task \ {t} : cp2[u] = cp[u]
       BY DEF Wait
<1>6. r \in [Mtx -> [0..MaxPri -> Seq(Task)]] BY <1>1, <1>2, <1>4, <1>5, <1>9
<1>7. r[m][p] = a /\ \A v \in Mtx, k \in 0..MaxPri : ~(v = m /\ k = p) => r[v][k] = mq[v][k]
      BY <1>1, <1>2, <1>4, <1>9
<1>8. ASSUME NEW v \in Mtx, NEW k \in 0..MaxPri
      PROVE  /\ Once(r[v][k])
             /\ \A u \in Task : u \in ToSet(r[v][k]) <=>
                   u \notin X /\ Wants(ms2, ws2, u, v) /\ k = Side(v, u, at, cp2)
  <2>1. /\ Once(mq[v][k])
        /\ \A u \in Task : u \in ToSet(mq[v][k]) <=>
              u \notin X \cup {t} /\ Wants(ms, ws, u, v) /\ k = Side(v, u, at, cp)
        BY DEF OffMtxq
  <2>2. \A u \in Task \ {t} : Side(v, u, at, cp2) = Side(v, u, at, cp) BY <1>10 DEF Side
  <2>3. Wants(ms2, ws2, t, v) => v = m BY DEF Wants
  <2>4. CASE v = m /\ k = p
    <3>1. Once(r[v][k]) /\ ToSet(r[v][k]) = ToSet(mq[v][k]) \cup {t}
          BY <1>2, <1>5, <1>7, <2>4
    <3>2. ASSUME NEW u \in Task
          PROVE  u \in ToSet(r[v][k]) <=>
                   u \notin X /\ Wants(ms2, ws2, u, v) /\ k = Side(v, u, at, cp2)
      <4>1. CASE u = t BY <2>4, <3>1, <4>1
      <4>2. CASE u # t BY <1>10, <2>1, <2>2, <3>1, <4>2
      <4> QED BY <4>1, <4>2
    <3> QED BY <3>1, <3>2
  <2>5. CASE ~(v = m /\ k = p)
    <3>1. r[v][k] = mq[v][k] BY <1>7, <2>5
    <3>2. ASSUME NEW u \in Task
          PROVE  u \in ToSet(r[v][k]) <=>
                   u \notin X /\ Wants(ms2, ws2, u, v) /\ k = Side(v, u, at, cp2)
      <4>1. CASE u = t BY <2>1, <2>3, <2>5, <3>1, <4>1
      <4>2. CASE u # t BY <1>10, <2>1, <2>2, <3>1, <4>2
      <4> QED BY <4>1, <4>2
    <3> QED BY <2>1, <3>1, <3>2
  <2> QED BY <2>4, <2>5
<1> QED BY <1>6, <1>8 DEF OffMtxq

(* What else changes does not change who waits where. *)
LEMMA MtxqStay ==
    ASSUME NEW mq, NEW ms, NEW ws, NEW cp, NEW at, NEW X, OffMtxq(mq, ms, ws, cp, at, X),
           NEW ms2, NEW ws2, NEW cp2, NEW at2, NEW X2,
           \A u \in Task, n \in Mtx :
              /\ u \notin X2 /\ Wants(ms2, ws2, u, n) <=> u \notin X /\ Wants(ms, ws, u, n)
              /\ u \notin X /\ Wants(ms, ws, u, n) =>
                    (at2[n] = at[n] /\ (at[n] # "FIFO" => cp2[u] = cp[u]))
    PROVE  OffMtxq(mq, ms2, ws2, cp2, at2, X2)
<1>1. ASSUME NEW m \in Mtx, NEW p \in 0..MaxPri
      PROVE  /\ Once(mq[m][p])
             /\ \A u \in Task : u \in ToSet(mq[m][p]) <=>
                   u \notin X2 /\ Wants(ms2, ws2, u, m) /\ p = Side(m, u, at2, cp2)
  <2>1. /\ Once(mq[m][p])
        /\ \A u \in Task : u \in ToSet(mq[m][p]) <=>
              u \notin X /\ Wants(ms, ws, u, m) /\ p = Side(m, u, at, cp)
        BY DEF OffMtxq
  <2> QED BY <2>1 DEF Side
<1> QED BY <1>1 DEF OffMtxq

(* The most urgent waiter. *)
LEMMA MostUrgentFacts ==
    ASSUME NEW k \in Kernel, NEW at, NEW X,
           OffMtxq(k.mtxq, k.msts, k.wsts, k.cpri, at, X), NEW m \in Mtx
    PROVE  LET t == MostUrgent(k, m) IN
           \/ t = NONE /\ \A u \in Task \ X : ~Wants(k.msts, k.wsts, u, m)
           \/ /\ t \in Task \ X /\ Wants(k.msts, k.wsts, t, m) /\ t # NONE
              /\ at[m] # "FIFO" => \A u \in Task \ X :
                    Wants(k.msts, k.wsts, u, m) => k.cpri[t] <= k.cpri[u]
<1>1. PICK mq : mq = k.mtxq[m] OBVIOUS
<1>2. PICK used : used = {p \in 0..MaxPri : mq[p] # <<>>} OBVIOUS
<1>3. mq \in [0..MaxPri -> Seq(Task)] /\ k.cpri \in [Task -> 1..MaxPri]
      BY <1>1, KernelFields
<1>4. \A p \in 0..MaxPri, u \in Task : u \in ToSet(mq[p]) <=>
          u \notin X /\ Wants(k.msts, k.wsts, u, m) /\ p = Side(m, u, at, k.cpri)
      BY <1>1 DEF OffMtxq
<1>5. ASSUME NEW u \in Task \ X, Wants(k.msts, k.wsts, u, m)
      PROVE  Side(m, u, at, k.cpri) \in used
  <2>1. Side(m, u, at, k.cpri) \in 0..MaxPri BY <1>3, MConstants DEF Side
  <2>2. PICK q \in Seq(Task) : q = mq[Side(m, u, at, k.cpri)] BY <1>3, <2>1
  <2>3. u \in ToSet(q) BY <1>4, <1>5, <2>1, <2>2
  <2>4. q # <<>> BY <2>3, ToSetFacts
  <2> QED BY <1>2, <2>1, <2>2, <2>4
<1>6. CASE used = {}
  <2>1. MostUrgent(k, m) = NONE BY <1>1, <1>2, <1>6 DEF MostUrgent
  <2> QED BY <1>5, <1>6, <2>1
<1>7. CASE used # {}
  <2>1. used \in SUBSET Nat BY <1>2, MConstants
  <2>2. PICK p \in used : \A q \in used : p <= q BY <1>7, <2>1, LeastOf
  <2>3. PICK l : l = CHOOSE p1 \in used : \A q \in used : p1 <= q OBVIOUS
  <2>4. l \in used /\ \A q \in used : l <= q BY <2>2, <2>3
  <2>5. l \in 0..MaxPri /\ mq[l] # <<>> BY <1>2, <2>4
  <2>6. PICK q \in Seq(Task) : q = mq[l] /\ q # <<>> BY <1>3, <2>5
  <2>7. PICK t : t = Head(q) OBVIOUS
  <2>8. t \in ToSet(q) /\ t \in Task
    <3>1. Len(q) \in Nat /\ Len(q) > 0 /\ t = q[1] BY <2>6, <2>7, ToSetFacts, LenProperties
    <3>2. 1 \in 1..Len(q) BY <3>1
    <3>3. ToSet(q) = {q[i] : i \in 1..Len(q)} /\ ToSet(q) \subseteq Task BY ToSetFacts
    <3> QED BY <3>1, <3>2, <3>3
  <2>9. MostUrgent(k, m) = t
    <3>1. MostUrgent(k, m) = Head(mq[CHOOSE p1 \in used : \A q1 \in used : p1 <= q1])
          BY <1>1, <1>2, <1>7 DEF MostUrgent
    <3> QED BY <2>3, <2>6, <2>7, <3>1
  <2>10. t \notin X /\ Wants(k.msts, k.wsts, t, m) /\ l = Side(m, t, at, k.cpri)
         BY <1>4, <2>5, <2>6, <2>8
  <2>11. ASSUME at[m] # "FIFO", NEW u \in Task \ X, Wants(k.msts, k.wsts, u, m)
         PROVE  k.cpri[t] <= k.cpri[u]
    <3>1. l <= Side(m, u, at, k.cpri) BY <1>5, <2>4, <2>11
    <3> QED BY <2>10, <2>11, <3>1 DEF Side
  <2>12. t # NONE BY <2>8, Constants
  <2> QED BY <2>8, <2>9, <2>10, <2>11, <2>12
<1> QED BY <1>6, <1>7

-----------------------------------------------------------------------------
(* THE READY QUEUES                                                        *)

(* A ready task is taken off its ready queue. *)
LEMMA MRdqDrop ==
    ASSUME NEW rq \in [1..MaxPri -> Seq(Task)], NEW ms, NEW cp \in [Task -> 1..MaxPri],
           NEW X, OffRdq(rq, ms, cp, X), NEW t \in Task, NEW r, Unlinked(r, rq, cp[t], t)
    PROVE  r \in [1..MaxPri -> Seq(Task)] /\ OffRdq(r, ms, cp, X \cup {t})
<1>1. PICK p \in 1..MaxPri : p = cp[t] OBVIOUS
<1>2. PICK q \in Seq(Task) : q = rq[p] OBVIOUS
<1>3. Once(q) BY <1>2 DEF OffRdq
<1>4. PICK u : u = Unlink(q, t) OBVIOUS
<1>5. u \in Seq(Task) /\ ToSet(u) = ToSet(q) \ {t} /\ Once(u)
      BY <1>3, <1>4, RemoveFirstOnce DEF Unlink
<1>6. r = [rq EXCEPT ![p] = u] BY <1>1, <1>2, <1>4 DEF Unlinked
<1>7. ASSUME NEW n \in 1..MaxPri
      PROVE  /\ Once(r[n])
             /\ \A v \in Task : v \in ToSet(r[n]) <=>
                   v \notin X \cup {t} /\ "RDY" \in ms[v] /\ cp[v] = n
  <2>1. /\ Once(rq[n])
        /\ \A v \in Task : v \in ToSet(rq[n]) <=> v \notin X /\ "RDY" \in ms[v] /\ cp[v] = n
        BY DEF OffRdq
  <2>2. CASE n = p BY <1>2, <1>5, <1>6, <2>1, <2>2
  <2>3. CASE n # p BY <1>1, <1>6, <2>1, <2>3
  <2> QED BY <2>2, <2>3
<1> QED BY <1>5, <1>6, <1>7 DEF OffRdq

Stay(ms, cp, ms2, cp2, t) == \A u \in Task \ {t} :
    ("RDY" \in ms2[u] <=> "RDY" \in ms[u]) /\ cp2[u] = cp[u]

(* A task that was on none enters a ready queue. *)
LEMMA MRdqBack ==
    ASSUME NEW rq \in [1..MaxPri -> Seq(Task)], NEW ms, NEW cp, NEW X, NEW t \in Task,
           OffRdq(rq, ms, cp, X \cup {t}), t \notin X,
           NEW ms2, NEW cp2 \in [Task -> 1..MaxPri], Stay(ms, cp, ms2, cp2, t),
           "RDY" \in ms2[t], NEW p \in 1..MaxPri, p = cp2[t], NEW r, Appended(r, rq, p, t)
    PROVE  r \in [1..MaxPri -> Seq(Task)] /\ OffRdq(r, ms2, cp2, X)
<1>1. PICK q \in Seq(Task) : q = rq[p] OBVIOUS
<1>2. Once(q) /\ t \notin ToSet(q) BY <1>1 DEF OffRdq
<1>3. PICK a : a = Append(q, t) OBVIOUS
<1>4. a \in Seq(Task) /\ ToSet(a) = ToSet(q) \cup {t} /\ Once(a) BY <1>2, <1>3, AppendOnce
<1>5. r = [rq EXCEPT ![p] = a] BY <1>1, <1>3 DEF Appended
<1>6. ASSUME NEW n \in 1..MaxPri
      PROVE  /\ Once(r[n])
             /\ \A v \in Task : v \in ToSet(r[n]) <=> v \notin X /\ "RDY" \in ms2[v] /\ cp2[v] = n
  <2>1. /\ Once(rq[n])
        /\ \A v \in Task : v \in ToSet(rq[n]) <=>
              v \notin X \cup {t} /\ "RDY" \in ms[v] /\ cp[v] = n
        BY DEF OffRdq
  <2>2. CASE n = p
    <3>1. r[n] = a /\ rq[n] = q BY <1>1, <1>5, <2>2
    <3>2. Once(r[n]) /\ ToSet(r[n]) = ToSet(rq[n]) \cup {t} BY <1>4, <3>1
    <3>3. ASSUME NEW v \in Task
          PROVE  v \in ToSet(r[n]) <=> v \notin X /\ "RDY" \in ms2[v] /\ cp2[v] = n
      <4>1. CASE v = t BY <2>2, <3>2, <4>1
      <4>2. CASE v # t BY <2>1, <3>2, <4>2 DEF Stay
      <4> QED BY <4>1, <4>2
    <3> QED BY <3>2, <3>3
  <2>3. CASE n # p
    <3>1. r[n] = rq[n] BY <1>5, <2>3
    <3>2. ASSUME NEW v \in Task
          PROVE  v \in ToSet(r[n]) <=> v \notin X /\ "RDY" \in ms2[v] /\ cp2[v] = n
      <4>1. CASE v = t BY <2>1, <2>3, <3>1, <4>1
      <4>2. CASE v # t BY <2>1, <3>1, <4>2 DEF Stay
      <4> QED BY <4>1, <4>2
    <3> QED BY <2>1, <3>1, <3>2
  <2> QED BY <2>2, <2>3
<1> QED BY <1>4, <1>5, <1>6 DEF OffRdq

(* The ready queues match as long as the ready tasks are the same. *)
LEMMA MRdqStay ==
    ASSUME NEW rq, NEW ms, NEW cp, NEW X, OffRdq(rq, ms, cp, X), NEW ms2, NEW cp2, NEW X2,
           \A u \in Task :
              /\ u \notin X2 /\ "RDY" \in ms2[u] <=> u \notin X /\ "RDY" \in ms[u]
              /\ u \notin X /\ "RDY" \in ms[u] => cp2[u] = cp[u]
    PROVE  OffRdq(rq, ms2, cp2, X2)
<1>1. ASSUME NEW n \in 1..MaxPri
      PROVE  /\ Once(rq[n])
             /\ \A v \in Task : v \in ToSet(rq[n]) <=> v \notin X2 /\ "RDY" \in ms2[v] /\ cp2[v] = n
  BY DEF OffRdq
<1> QED BY <1>1 DEF OffRdq

(* A task that is not on a queue cannot be taken off it. *)
LEMMA UnlinkNone ==
    ASSUME NEW q \in Seq(Task), NEW t, t \notin ToSet(q)
    PROVE  Unlink(q, t) = q
<1>1. ToSet(q) = {q[i] : i \in 1..Len(q)} BY ToSetFacts
<1> QED BY <1>1, RemoveFirstAt DEF Unlink

(* Moving a ready task to the queue of another priority. *)
ShiftedAs(r, rq, t, p) == r = [q \in 1..MaxPri |->
    IF q = p THEN Append(Unlink(rq[q], t), t) ELSE Unlink(rq[q], t)]

(* What _kernel_refque does to the ready queues. *)
LEMMA MoveIs ==
    ASSUME NEW rq \in [1..MaxPri -> Seq(Task)], NEW ms, NEW cp \in [Task -> 1..MaxPri],
           NEW X, OffRdq(rq, ms, cp, X), NEW t \in Task, NEW p \in 1..MaxPri
    PROVE  \E d \in [1..MaxPri -> Seq(Task)], r \in [1..MaxPri -> Seq(Task)] :
              Unlinked(d, rq, cp[t], t) /\ Appended(r, d, p, t) /\ ShiftedAs(r, rq, t, p)
<1>1. PICK d : d = [q \in 1..MaxPri |-> Unlink(rq[q], t)] OBVIOUS
<1>2. \A q \in 1..MaxPri : Unlink(rq[q], t) \in Seq(Task)
  <2>1. ASSUME NEW q \in 1..MaxPri PROVE Unlink(rq[q], t) \in Seq(Task)
    <3>1. PICK s \in Seq(Task) : s = rq[q] OBVIOUS
    <3>2. Once(s) BY <3>1 DEF OffRdq
    <3> QED BY <3>1, <3>2, RemoveFirstOnce DEF Unlink
  <2> QED BY <2>1
<1>3. \A q \in 1..MaxPri : q # cp[t] => Unlink(rq[q], t) = rq[q]
  <2>1. ASSUME NEW q \in 1..MaxPri, q # cp[t] PROVE Unlink(rq[q], t) = rq[q]
    <3>1. PICK s \in Seq(Task) : s = rq[q] OBVIOUS
    <3>2. t \notin ToSet(s) BY <2>1, <3>1 DEF OffRdq
    <3> QED BY <3>1, <3>2, UnlinkNone
  <2> QED BY <2>1
<1>4. d = [rq EXCEPT ![cp[t]] = Unlink(@, t)] BY <1>1, <1>3
<1>5. d \in [1..MaxPri -> Seq(Task)] BY <1>1, <1>2
<1>6. PICK r : r = [d EXCEPT ![p] = Append(@, t)] OBVIOUS
<1>7. r \in [1..MaxPri -> Seq(Task)]
  <2>1. PICK q \in Seq(Task) : q = d[p] BY <1>5
  <2>2. Append(q, t) \in Seq(Task) BY AppendOnce
  <2> QED BY <1>5, <1>6, <2>1, <2>2
<1>8. r = [q \in 1..MaxPri |-> IF q = p THEN Append(Unlink(rq[q], t), t) ELSE Unlink(rq[q], t)]
      BY <1>1, <1>6
<1>9. Unlinked(d, rq, cp[t], t) /\ Appended(r, d, p, t) /\ ShiftedAs(r, rq, t, p)
      BY <1>4, <1>6, <1>8 DEF Unlinked, Appended, ShiftedAs
<1> QED BY <1>5, <1>7, <1>9

(* Who runs after such a move. *)
LEMMA FirstMove ==
    ASSUME NEW rq \in [1..MaxPri -> Seq(Task)], NEW c \in 1..MaxPri, NEW t \in Task,
           \A q \in 1..MaxPri : Once(rq[q]),
           NEW d \in [1..MaxPri -> Seq(Task)], Unlinked(d, rq, c, t),
           NEW p \in 1..MaxPri, NEW r, Appended(r, d, p, t),
           NEW n \in 1..MaxPri, NEW u, First(rq, n, u)
    PROVE  /\ u # t /\ ~(n > p) => First(r, n, u)
           /\ u = t /\ n = c /\ n > p => First(r, p, t)
<1>1. ASSUME u # t, ~(n > p) PROVE First(r, n, u)
  <2>1. First(d, n, u) BY <1>1, FirstUnlink
  <2> QED BY <1>1, <2>1, FirstAppend
<1>2. ASSUME u = t, n = c, n > p PROVE First(r, p, t)
  <2>1. d = [rq EXCEPT ![c] = Unlink(@, t)] /\ r = [d EXCEPT ![p] = Append(@, t)]
        BY DEF Unlinked, Appended
  <2>2. \A q \in 1..p : q \in 1..(n - 1) /\ q \in 1..MaxPri /\ q # c BY <1>2, MConstants
  <2>3. \A q \in 1..p : d[q] = <<>> BY <2>1, <2>2 DEF First
  <2>4. p \in 1..p /\ \A q \in 1..(p - 1) : q \in 1..p /\ q # p BY MConstants
  <2>5. \A q \in 1..(p - 1) : r[q] = <<>> BY <2>1, <2>2, <2>3, <2>4
  <2>6. r[p] = Append(<<>>, t) BY <2>1, <2>3, <2>4
  <2>7. Append(<<>>, t) # <<>> /\ Head(Append(<<>>, t)) = t BY AppendOnce
  <2> QED BY <2>5, <2>6, <2>7 DEF First
<1> QED BY <1>1, <1>2

-----------------------------------------------------------------------------
(* THE STEPS OF A SERVICE                                                  *)

SameTasks(r, k) == r.msts = k.msts /\ r.wsts = k.wsts
SameRun(r, k) == r.ctcb = k.ctcb /\ r.pri = k.pri /\ r.rdsp = k.rdsp
SameChains(r, k) == r.lockmtx = k.lockmtx /\ r.owner = k.owner
SameMtx(r, k) == SameChains(r, k) /\ r.mpri = k.mpri

(* A task whose timer runs is taken off the timer queue. *)
LEMMA MTimqDrop ==
    ASSUME NEW tq \in Seq(Task), NEW ms, NEW st \in [Task -> Stamp], NEW t \in Task, NEW Y,
           OffTimq(tq, ms, st, Y), NEW r, r = IF "TMR" \in ms[t] THEN Unlink(tq, t) ELSE tq
    PROVE  r \in Seq(Task) /\ OffTimq(r, ms, st, Y \cup {t})
<1>1. Once(tq) /\ InTime(tq, st) BY DEF OffTimq
<1>2. /\ Unlink(tq, t) \in Seq(Task) /\ ToSet(Unlink(tq, t)) = ToSet(tq) \ {t}
      /\ Once(Unlink(tq, t)) /\ InTime(Unlink(tq, t), st)
      BY <1>1, UnlinkFacts
<1>3. CASE "TMR" \in ms[t] BY <1>2, <1>3 DEF OffTimq
<1>4. CASE "TMR" \notin ms[t] BY <1>4 DEF OffTimq
<1> QED BY <1>3, <1>4

(* The timer queue matches as long as the same timers run. *)
LEMMA MTimqStay ==
    ASSUME NEW tq, NEW ms, NEW st, NEW Y, OffTimq(tq, ms, st, Y), NEW ms2, NEW Y2,
           \A u \in Task : u \notin Y2 /\ "TMR" \in ms2[u] <=> u \notin Y /\ "TMR" \in ms[u]
    PROVE  OffTimq(tq, ms2, st, Y2)
BY DEF OffTimq

(* Nothing but the wait queues, or the timer queue, has changed. *)
OnlyMtxq(r, k) ==
    /\ r \in Kernel /\ SameTasks(r, k) /\ SameRun(r, k) /\ SameMtx(r, k)
    /\ r.cpri = k.cpri /\ r.rdq = k.rdq /\ r.timq = k.timq
OnlyTimq(r, k) ==
    /\ r \in Kernel /\ SameTasks(r, k) /\ SameRun(r, k) /\ SameMtx(r, k)
    /\ r.cpri = k.cpri /\ r.rdq = k.rdq /\ r.mtxq = k.mtxq

(* A waiting task is taken from the wait queue of its mutex, *)
LEMMA DequeuedFacts ==
    ASSUME NEW k \in Kernel, NEW X, NEW Y, NEW at, NEW st, Linked(k, X, Y, at, st),
           NEW t \in Task, NEW m \in Mtx, Wants(k.msts, k.wsts, t, m),
           NEW r, r = Dequeued(k, t)
    PROVE  OnlyMtxq(r, k) /\ Linked(r, X \cup {t}, Y, at, st)
<1>1. PICK q : q = r.mtxq OBVIOUS
<1>2. r = [k EXCEPT !.mtxq = q] /\ Cut(q, k.mtxq, m, t)
      BY <1>1 DEF Dequeued, Wants, Cut, Kernel
<1>3. /\ SameTasks(r, k) /\ SameRun(r, k) /\ SameMtx(r, k)
      /\ r.cpri = k.cpri /\ r.rdq = k.rdq /\ r.timq = k.timq
      BY <1>2 DEF SameTasks, SameRun, SameMtx, SameChains, Kernel
<1>4. /\ MFlagged(k.msts, k.wsts, at) /\ OffRdq(k.rdq, k.msts, k.cpri, X)
      /\ OffMtxq(k.mtxq, k.msts, k.wsts, k.cpri, at, X) /\ OffTimq(k.timq, k.msts, st, Y)
      BY DEF Linked
<1>5. k.mtxq \in [Mtx -> [0..MaxPri -> Seq(Task)]] BY KernelFields
<1>6. /\ q \in [Mtx -> [0..MaxPri -> Seq(Task)]]
      /\ OffMtxq(q, k.msts, k.wsts, k.cpri, at, X \cup {t})
      BY <1>2, <1>4, <1>5, MtxqDrop
<1>7. r \in Kernel BY <1>2, <1>6 DEF Kernel
<1>8. "RDY" \notin k.msts[t] BY <1>4, FlagFacts DEF MFlagged, Wants
<1>9. OffRdq(k.rdq, k.msts, k.cpri, X \cup {t}) BY <1>4, <1>8, MRdqStay
<1>10. Linked(r, X \cup {t}, Y, at, st)
       BY <1>1, <1>3, <1>4, <1>6, <1>9 DEF Linked, SameTasks
<1> QED BY <1>3, <1>7, <1>10 DEF OnlyMtxq

(* and from the timer queue. *)
LEMMA UntimedFacts ==
    ASSUME NEW k \in Kernel, NEW X, NEW Y, NEW at, NEW st \in [Task -> Stamp],
           Linked(k, X, Y, at, st), NEW t \in Task, NEW r, r = Untimed(k, t)
    PROVE  OnlyTimq(r, k) /\ Linked(r, X, Y \cup {t}, at, st)
<1>1. PICK q : q = IF "TMR" \in k.msts[t] THEN Unlink(k.timq, t) ELSE k.timq OBVIOUS
<1>2. r = [k EXCEPT !.timq = q] BY <1>1 DEF Untimed, Kernel
<1>3. /\ SameTasks(r, k) /\ SameRun(r, k) /\ SameMtx(r, k)
      /\ r.cpri = k.cpri /\ r.rdq = k.rdq /\ r.mtxq = k.mtxq /\ r.timq = q
      BY <1>2 DEF SameTasks, SameRun, SameMtx, SameChains, Kernel
<1>4. k.timq \in Seq(Task) /\ OffTimq(k.timq, k.msts, st, Y) BY KernelFields DEF Linked
<1>5. q \in Seq(Task) /\ OffTimq(q, k.msts, st, Y \cup {t}) BY <1>1, <1>4, MTimqDrop
<1>6. r \in Kernel BY <1>2, <1>5 DEF Kernel
<1>7. Linked(r, X, Y \cup {t}, at, st) BY <1>3, <1>5 DEF Linked, SameTasks
<1> QED BY <1>3, <1>6, <1>7 DEF OnlyTimq

(* A dispatch is asked for. *)
AskedAs(r, k) ==
    /\ r \in Kernel /\ SameTasks(r, k) /\ SameMtx(r, k)
    /\ r.cpri = k.cpri /\ r.rdq = k.rdq /\ r.mtxq = k.mtxq /\ r.timq = k.timq /\ r.pri = k.pri
    /\ dsp => r.rdsp = TRUE /\ r.ctcb = k.ctcb
    /\ ~dsp => r.ctcb = NONE /\ r.rdsp = k.rdsp

(* A request to dispatch changes nothing else. *)
LEMMA AsksFacts ==
    ASSUME NEW k \in Kernel, NEW r, r = Asks(k)
    PROVE  AskedAs(r, k)
BY DEF AskedAs, Asks, Kernel, SameTasks, SameMtx, SameChains

(* A task off its queues is readied, *)
Unwaiting(r, k, t) == r.wsts = [k.wsts EXCEPT ![t] = NONE]
Marked(r, k, t, f) == r.msts = [k.msts EXCEPT ![t] = f]

ReadiedAs(r, k, t) ==
    /\ r \in Kernel /\ SameMtx(r, k)
    /\ r.cpri = k.cpri /\ r.mtxq = k.mtxq /\ r.timq = k.timq /\ r.pri = k.pri
    /\ Unwaiting(r, k, t)
    /\ "SUS" \in k.msts[t] => Marked(r, k, t, {"SUS"}) /\ r.rdq = k.rdq /\ SameRun(r, k)
    /\ "SUS" \notin k.msts[t] =>
          /\ Marked(r, k, t, {"RDY"}) /\ Appended(r.rdq, k.rdq, k.cpri[t], t)
          /\ ~(k.pri > k.cpri[t]) => SameRun(r, k)
          /\ k.pri > k.cpri[t] /\ dsp => r.rdsp = TRUE /\ r.ctcb = k.ctcb
          /\ k.pri > k.cpri[t] /\ ~dsp => r.ctcb = NONE /\ r.rdsp = k.rdsp

(* What Readied changes. *)
LEMMA ReadiedIs ==
    ASSUME NEW k \in Kernel, NEW t \in Task, NEW r, r = Readied(k, t)
    PROVE  ReadiedAs(r, k, t)
<1>1. /\ k.msts \in [Task -> SUBSET Flags] /\ k.wsts \in [Task -> Why]
      /\ k.cpri \in [Task -> 1..MaxPri] /\ k.rdq \in [1..MaxPri -> Seq(Task)]
      BY KernelFields
<1>2. PICK p \in 1..MaxPri : p = k.cpri[t] BY <1>1
<1>3. PICK w : w = [k.wsts EXCEPT ![t] = NONE] OBVIOUS
<1>4. w \in [Task -> Why] BY <1>1, <1>3 DEF Why
<1>5. PICK s : s = [k.msts EXCEPT ![t] = {"SUS"}] OBVIOUS
<1>6. s \in [Task -> SUBSET Flags] BY <1>1, <1>5 DEF Flags
<1>7. PICK u : u = [k.msts EXCEPT ![t] = {"RDY"}] OBVIOUS
<1>8. u \in [Task -> SUBSET Flags] BY <1>1, <1>7 DEF Flags
<1>9. PICK a : a = [k.rdq EXCEPT ![p] = Append(@, t)] OBVIOUS
<1>10. a \in [1..MaxPri -> Seq(Task)]
  <2>1. PICK q \in Seq(Task) : q = k.rdq[p] BY <1>1
  <2>2. Append(q, t) \in Seq(Task) BY AppendOnce
  <2> QED BY <1>1, <1>9, <2>1, <2>2
<1>11. CASE "SUS" \in k.msts[t]
  <2>1. r = [k EXCEPT !.wsts = w, !.msts = s] BY <1>3, <1>5, <1>11 DEF Readied, Kernel
  <2>2. r \in Kernel BY <1>4, <1>6, <2>1 DEF Kernel
  <2>3. /\ SameMtx(r, k) /\ SameRun(r, k) /\ r.cpri = k.cpri /\ r.mtxq = k.mtxq
        /\ r.timq = k.timq /\ r.pri = k.pri /\ r.wsts = w /\ r.msts = s /\ r.rdq = k.rdq
        BY <2>1 DEF Kernel, SameMtx, SameChains, SameRun
  <2>4. Unwaiting(r, k, t) /\ Marked(r, k, t, {"SUS"}) BY <1>3, <1>5, <2>3 DEF Unwaiting, Marked
  <2> QED BY <1>11, <2>2, <2>3, <2>4 DEF ReadiedAs
<1>12. CASE "SUS" \notin k.msts[t]
  <2>1. PICK y : y = [k EXCEPT !.wsts = w, !.msts = u, !.rdq = a] OBVIOUS
  <2>2. y \in Kernel BY <1>4, <1>8, <1>10, <2>1 DEF Kernel
  <2>3. /\ SameMtx(y, k) /\ SameRun(y, k) /\ y.cpri = k.cpri /\ y.mtxq = k.mtxq
        /\ y.timq = k.timq /\ y.pri = k.pri /\ y.wsts = w /\ y.msts = u /\ y.rdq = a
        BY <2>1 DEF Kernel, SameMtx, SameChains, SameRun
  <2>4. r = IF k.pri > p THEN Asks(y) ELSE y
        BY <1>2, <1>3, <1>7, <1>9, <1>12, <2>1 DEF Readied, Kernel
  <2>5. Appended(a, k.rdq, k.cpri[t], t) BY <1>2, <1>9 DEF Appended
  <2>8. Unwaiting(y, k, t) /\ Marked(y, k, t, {"RDY"}) BY <1>3, <1>7, <2>3 DEF Unwaiting, Marked
  <2>6. CASE ~(k.pri > p) BY <1>2, <1>12, <2>2, <2>3, <2>4, <2>5, <2>6, <2>8 DEF ReadiedAs
  <2>7. CASE k.pri > p
    <3>1. r = Asks(y) BY <2>4, <2>7
    <3>2. AskedAs(r, y) BY <2>2, <3>1, AsksFacts
    <3>3. Unwaiting(r, k, t) /\ Marked(r, k, t, {"RDY"})
          BY <2>8, <3>2 DEF AskedAs, Unwaiting, Marked, SameTasks
    <3> QED BY <1>2, <1>12, <2>3, <2>5, <2>7, <3>2, <3>3
               DEF ReadiedAs, AskedAs, SameMtx, SameChains, SameTasks, SameRun
  <2> QED BY <2>6, <2>7
<1> QED BY <1>11, <1>12

(* no longer waits for anything, and is on the ready queue, if any. *)
Unqueued(k, X, Y, t) ==
    /\ t \notin X => "RDY" \notin k.msts[t] /\ \A m \in Mtx : ~Wants(k.msts, k.wsts, t, m)
    /\ t \notin Y => "TMR" \notin k.msts[t]

ReadiedTo(r, k, X, Y, at, st, t) ==
    /\ Linked(r, X \ {t}, Y \ {t}, at, st)
    /\ r.msts[t] \in {{"RDY"}, {"SUS"}} /\ r.wsts[t] = NONE
    /\ \A u \in Task \ {t} : r.msts[u] = k.msts[u] /\ r.wsts[u] = k.wsts[u]

(* A task that has left its queues becomes ready, and the rest stays. *)
LEMMA ReadiedFacts ==
    ASSUME NEW k \in Kernel, NEW X, NEW Y, NEW at, NEW st \in [Task -> Stamp],
           Linked(k, X, Y, at, st), NEW t \in Task, Unqueued(k, X, Y, t),
           NEW r, r = Readied(k, t)
    PROVE  ReadiedTo(r, k, X, Y, at, st, t)
<1>u. /\ t \notin X => "RDY" \notin k.msts[t] /\ \A m \in Mtx : ~Wants(k.msts, k.wsts, t, m)
      /\ t \notin Y => "TMR" \notin k.msts[t]
      BY DEF Unqueued
<1>r. ReadiedAs(r, k, t) BY ReadiedIs
<1>1. /\ k.msts \in [Task -> SUBSET Flags] /\ k.wsts \in [Task -> Why]
      /\ k.cpri \in [Task -> 1..MaxPri] /\ k.rdq \in [1..MaxPri -> Seq(Task)]
      /\ k.timq \in Seq(Task)
      BY KernelFields
<1>0. /\ SameMtx(r, k) /\ r.cpri = k.cpri /\ r.mtxq = k.mtxq /\ r.timq = k.timq
      /\ Unwaiting(r, k, t)
      /\ "SUS" \in k.msts[t] => Marked(r, k, t, {"SUS"})
      /\ "SUS" \notin k.msts[t] => Marked(r, k, t, {"RDY"})
      BY <1>r DEF ReadiedAs
<1>2. /\ r.cpri = k.cpri /\ r.mtxq = k.mtxq /\ r.timq = k.timq
      /\ r.wsts = [k.wsts EXCEPT ![t] = NONE]
      BY <1>0 DEF Unwaiting
<1>3. r.msts = [k.msts EXCEPT ![t] = IF "SUS" \in k.msts[t] THEN {"SUS"} ELSE {"RDY"}]
      BY <1>0 DEF Marked
<1>4. /\ r.msts[t] \in {{"RDY"}, {"SUS"}} /\ r.wsts[t] = NONE
      /\ \A u \in Task \ {t} : r.msts[u] = k.msts[u] /\ r.wsts[u] = k.wsts[u]
      BY <1>1, <1>2, <1>3
<1>5. /\ MFlagged(k.msts, k.wsts, at) /\ OffRdq(k.rdq, k.msts, k.cpri, X)
      /\ OffMtxq(k.mtxq, k.msts, k.wsts, k.cpri, at, X) /\ OffTimq(k.timq, k.msts, st, Y)
      BY DEF Linked
<1>6. "WAI" \notin r.msts[t] /\ "TMR" \notin r.msts[t] BY <1>4
<1>7. MFlagged(r.msts, r.wsts, at)
  <2>1. ASSUME NEW u \in Task
        PROVE  /\ Kind(r.msts[u]) /\ ("WAI" \in r.msts[u] => r.wsts[u] # NONE)
               /\ \A s \in Sem : "WAI" \in r.msts[u] /\ r.wsts[u] = s =>
                        ("FIFO" \in r.msts[u] <=> SemAttr[s] = "FIFO")
               /\ \A m \in Mtx : Wants(r.msts, r.wsts, u, m) =>
                     at[m] # NONE /\ ("FIFO" \in r.msts[u] <=> at[m] = "FIFO")
    <3>1. CASE u = t BY <1>4, <1>6, <3>1 DEF Kind, Wants
    <3>2. CASE u # t
      <4>1. r.msts[u] = k.msts[u] /\ r.wsts[u] = k.wsts[u] BY <1>4, <3>2
      <4> QED BY <1>5, <4>1 DEF MFlagged, Flagged, Wants
    <3> QED BY <3>1, <3>2
  <2> QED BY <2>1 DEF MFlagged, Flagged
<1>8. OffMtxq(k.mtxq, r.msts, r.wsts, k.cpri, at, X \ {t})
  <2>1. ASSUME NEW u \in Task, NEW n \in Mtx
        PROVE  u \notin X \ {t} /\ Wants(r.msts, r.wsts, u, n) <=>
               u \notin X /\ Wants(k.msts, k.wsts, u, n)
    <3>1. CASE u = t BY <1>u, <1>6, <3>1 DEF Wants
    <3>2. CASE u # t BY <1>4, <3>2 DEF Wants
    <3> QED BY <3>1, <3>2
  <2> QED BY <2>1, <1>5, MtxqStay
<1>9. OffTimq(k.timq, r.msts, st, Y \ {t})
  <2>1. ASSUME NEW u \in Task
        PROVE  u \notin Y \ {t} /\ "TMR" \in r.msts[u] <=> u \notin Y /\ "TMR" \in k.msts[u]
    <3>1. CASE u = t BY <1>u, <1>6, <3>1
    <3>2. CASE u # t BY <1>4, <3>2
    <3> QED BY <3>1, <3>2
  <2> QED BY <2>1, <1>5, MTimqStay
<1>10. OffRdq(r.rdq, r.msts, k.cpri, X \ {t})
  <2>1. OffRdq(k.rdq, k.msts, k.cpri, (X \ {t}) \cup {t})
    <3>1. \A u \in Task : u \notin (X \ {t}) \cup {t} /\ "RDY" \in k.msts[u]
                          <=> u \notin X /\ "RDY" \in k.msts[u]
          BY <1>u
    <3> QED BY <1>5, <3>1, MRdqStay
  <2>2. CASE "SUS" \in k.msts[t]
    <3>0. r.rdq = k.rdq /\ SameMtx(r, k) BY <2>2, <1>r DEF ReadiedAs
    <3>1. r.rdq = k.rdq /\ "RDY" \notin r.msts[t] BY <2>2, <1>1, <1>3, <3>0
    <3>2. ASSUME NEW u \in Task
          PROVE  /\ u \notin X \ {t} /\ "RDY" \in r.msts[u]
                    <=> u \notin (X \ {t}) \cup {t} /\ "RDY" \in k.msts[u]
      <4>1. CASE u = t BY <3>1, <4>1
      <4>2. CASE u # t BY <1>4, <4>2
      <4> QED BY <4>1, <4>2
    <3>3. OffRdq(k.rdq, r.msts, k.cpri, X \ {t}) BY <2>1, <3>2, MRdqStay
    <3> QED BY <3>1, <3>3
  <2>3. CASE "SUS" \notin k.msts[t]
    <3>1. "RDY" \in r.msts[t] BY <2>3, <1>1, <1>3
    <3>2. Appended(r.rdq, k.rdq, k.cpri[t], t) BY <2>3, <1>r DEF ReadiedAs
    <3>3. \A u \in Task \ {t} : "RDY" \in r.msts[u] <=> "RDY" \in k.msts[u] BY <1>4
    <3>4. PICK p \in 1..MaxPri : p = k.cpri[t] BY <1>1
    <3>5. t \notin X \ {t} OBVIOUS
    <3>6. Stay(k.msts, k.cpri, r.msts, k.cpri, t) BY <3>3 DEF Stay
    <3> QED BY <1>1, <2>1, <3>1, <3>2, <3>3, <3>4, <3>5, <3>6, MRdqBack
  <2> QED BY <2>2, <2>3
<1> QED BY <1>2, <1>4, <1>7, <1>8, <1>9, <1>10 DEF Linked, ReadiedTo

(* The running task goes on, or a dispatch is asked for. *)
LEMMA ReadiedRuns ==
    ASSUME NEW k \in Kernel, NEW t \in Task, k.ctcb # t, Running(k, dsp),
           NEW r, r = Readied(k, t)
    PROVE  Running(r, dsp)
<1>r. ReadiedAs(r, k, t) BY ReadiedIs
<1>1. /\ k.cpri \in [Task -> 1..MaxPri] /\ k.rdq \in [1..MaxPri -> Seq(Task)]
      /\ k.ctcb \in Task \cup {NONE} /\ k.msts \in [Task -> SUBSET Flags]
      BY KernelFields
<1>0. /\ SameMtx(r, k) /\ r.cpri = k.cpri /\ r.pri = k.pri
      /\ "SUS" \in k.msts[t] => SameRun(r, k) /\ Marked(r, k, t, {"SUS"})
      /\ "SUS" \notin k.msts[t] =>
            /\ Marked(r, k, t, {"RDY"})
            /\ ~(k.pri > k.cpri[t]) => SameRun(r, k)
            /\ k.pri > k.cpri[t] /\ dsp => r.rdsp = TRUE /\ r.ctcb = k.ctcb
            /\ k.pri > k.cpri[t] /\ ~dsp => r.ctcb = NONE /\ r.rdsp = k.rdsp
      BY <1>r DEF ReadiedAs
<1>2. r.cpri = k.cpri /\ r.pri = k.pri /\ (r.ctcb = k.ctcb \/ r.ctcb = NONE)
      BY <1>0 DEF SameRun
<1>3. k.ctcb # NONE => r.msts[k.ctcb] = k.msts[k.ctcb]
  <2>1. \E x : r.msts = [k.msts EXCEPT ![t] = x] BY <1>0 DEF Marked
  <2> QED BY <1>1, <2>1
<1>4. r.ctcb # NONE => "RDY" \in r.msts[r.ctcb] BY <1>2, <1>3 DEF Running
<1>5. (dsp => r.ctcb # NONE) /\ (r.rdsp => dsp) BY <1>0 DEF Running, SameRun
<1>6. ASSUME r.ctcb # NONE, ~r.rdsp
      PROVE  r.pri = r.cpri[r.ctcb] /\ First(r.rdq, r.pri, r.ctcb)
  <2>1. CASE "SUS" \in k.msts[t]
    <3>1. r.rdq = k.rdq /\ SameMtx(r, k) BY <2>1, <1>r DEF ReadiedAs
    <3> QED BY <1>0, <1>2, <1>6, <2>1, <3>1 DEF Running, SameRun
  <2>2. CASE "SUS" \notin k.msts[t]
    <3>1. SameRun(r, k) /\ ~(k.pri > k.cpri[t]) BY <1>0, <1>5, <1>6, <2>2
    <3>2. k.ctcb # NONE /\ k.pri = k.cpri[k.ctcb] /\ First(k.rdq, k.pri, k.ctcb)
          BY <1>6, <3>1 DEF Running, SameRun
    <3>3. PICK p \in 1..MaxPri : p = k.pri BY <1>1, <3>2
    <3>4. PICK c \in 1..MaxPri : c = k.cpri[t] BY <1>1
    <3>5. Appended(r.rdq, k.rdq, c, t) BY <2>2, <3>4, <1>r DEF ReadiedAs
    <3>6. First(r.rdq, p, k.ctcb) BY <1>1, <3>1, <3>2, <3>3, <3>4, <3>5, FirstAppend
    <3> QED BY <1>2, <3>1, <3>2, <3>3, <3>6 DEF SameRun
  <2> QED BY <2>1, <2>2
<1> QED BY <1>4, <1>5, <1>6 DEF Running

(* A task moves to the queue of another priority, if it is on one by its   *)
(* priority.                                                               *)
MovedAs(r, k, t, p) ==
    /\ r \in Kernel /\ SameTasks(r, k) /\ SameRun(r, k) /\ SameMtx(r, k) /\ r.timq = k.timq
    /\ r.cpri = [k.cpri EXCEPT ![t] = p]

(* Who runs: a task that becomes more urgent stays the first. *)
FirstsMoved(r, k, t, p) == \A n \in 1..MaxPri : \A u : First(k.rdq, n, u) =>
    /\ "RDY" \notin k.msts[t] => First(r.rdq, n, u)
    /\ u # t /\ ~(n > p) => First(r.rdq, n, u)
    /\ "RDY" \in k.msts[t] /\ u = t /\ n = k.cpri[t] /\ n > p => First(r.rdq, p, t)

(* A task moves, and the queues still match. *)
LEMMA MovedFacts ==
    ASSUME NEW k \in Kernel, NEW X, NEW Y, NEW at, NEW st, Linked(k, X, Y, at, st),
           NEW t \in Task, t \notin X, NEW p \in 1..MaxPri, NEW r, r = Moved(k, t, p)
    PROVE  MovedAs(r, k, t, p) /\ FirstsMoved(r, k, t, p) /\ Linked(r, X, Y, at, st)
<1>1. /\ k.msts \in [Task -> SUBSET Flags] /\ k.wsts \in [Task -> Why]
      /\ k.cpri \in [Task -> 1..MaxPri] /\ k.rdq \in [1..MaxPri -> Seq(Task)]
      /\ k.timq \in Seq(Task) /\ k.mtxq \in [Mtx -> [0..MaxPri -> Seq(Task)]]
      BY KernelFields
<1>2. PICK cp : cp = [k.cpri EXCEPT ![t] = p] OBVIOUS
<1>3. cp \in [Task -> 1..MaxPri] /\ cp[t] = p /\ \A u \in Task \ {t} : cp[u] = k.cpri[u]
      BY <1>1, <1>2
<1>4. /\ MFlagged(k.msts, k.wsts, at) /\ OffRdq(k.rdq, k.msts, k.cpri, X)
      /\ OffMtxq(k.mtxq, k.msts, k.wsts, k.cpri, at, X) /\ OffTimq(k.timq, k.msts, st, Y)
      BY DEF Linked
<1>5. PICK a : a = [k EXCEPT !.cpri = cp] OBVIOUS
<1>6. a \in Kernel /\ a.mtxq = k.mtxq /\ a.wsts = k.wsts BY <1>3, <1>5 DEF Kernel
<1>7. ASSUME NEW q, NEW y, y \in Kernel, y = [k EXCEPT !.cpri = cp, !.rdq = q]
      PROVE  MovedAs(y, k, t, p) /\ y.rdq = q /\ y.mtxq = k.mtxq /\ y.cpri = cp
      BY <1>2, <1>7 DEF MovedAs, SameTasks, SameRun, SameMtx, SameChains, Kernel
<1>8. ASSUME NEW q, NEW y, y \in Kernel, y = [k EXCEPT !.cpri = cp, !.mtxq = q]
      PROVE  MovedAs(y, k, t, p) /\ y.rdq = k.rdq /\ y.mtxq = q /\ y.cpri = cp
      BY <1>2, <1>8 DEF MovedAs, SameTasks, SameRun, SameMtx, SameChains, Kernel
<1>9. CASE "RDY" \in k.msts[t]
  <2>0. PICK rq \in [1..MaxPri -> Seq(Task)] : rq = k.rdq BY <1>1
  <2>1. PICK d \in [1..MaxPri -> Seq(Task)], q \in [1..MaxPri -> Seq(Task)] :
           Unlinked(d, rq, k.cpri[t], t) /\ Appended(q, d, p, t) /\ ShiftedAs(q, rq, t, p)
        BY <1>1, <1>4, <2>0, MoveIs
  <2>a. ~WaitsForMtx(k, t) BY <1>4, <1>9, FlagFacts DEF MFlagged, WaitsForMtx
  <2>b. r = [a EXCEPT !.rdq = [n \in 1..MaxPri |->
               IF n = p THEN Append(Unlink(@[n], t), t) ELSE Unlink(@[n], t)]]
        BY <1>2, <1>5, <1>9, <2>a DEF Moved
  <2>c. a.rdq = rq BY <1>5, <2>0 DEF Kernel
  <2>d. r = [a EXCEPT !.rdq = q] BY <2>1, <2>b, <2>c DEF ShiftedAs
  <2>2. r = [k EXCEPT !.cpri = cp, !.rdq = q] BY <1>5, <2>d DEF Kernel
  <2>3. r \in Kernel BY <1>3, <2>1, <2>2 DEF Kernel
  <2>4. MovedAs(r, k, t, p) /\ r.rdq = q /\ r.mtxq = k.mtxq /\ r.cpri = cp BY <1>7, <2>2, <2>3
  <2>5. OffRdq(d, k.msts, k.cpri, X \cup {t}) BY <1>1, <1>4, <2>0, <2>1, MRdqDrop
  <2>e. Stay(k.msts, k.cpri, k.msts, cp, t) BY <1>3 DEF Stay
  <2>6. OffRdq(q, k.msts, cp, X) BY <1>3, <1>9, <2>1, <2>5, <2>e, MRdqBack
  <2>7. OffMtxq(k.mtxq, k.msts, k.wsts, cp, at, X)
    <3>1. \A n \in Mtx : ~Wants(k.msts, k.wsts, t, n)
          BY <1>4, <1>9, FlagFacts DEF MFlagged, Wants
    <3>2. ASSUME NEW u \in Task, NEW n \in Mtx, Wants(k.msts, k.wsts, u, n)
          PROVE  cp[u] = k.cpri[u]
          BY <1>3, <3>1, <3>2
    <3> QED BY <1>4, <3>2, MtxqStay
  <2>8. Linked(r, X, Y, at, st)
        BY <1>4, <2>4, <2>6, <2>7 DEF Linked, MovedAs, SameTasks
  <2>9. FirstsMoved(r, k, t, p)
    <3>1. \A n \in 1..MaxPri : Once(rq[n]) BY <1>4, <2>0 DEF OffRdq
    <3>2. PICK c \in 1..MaxPri : c = k.cpri[t] BY <1>1
    <3>3. Unlinked(d, rq, c, t) /\ Appended(q, d, p, t) BY <2>1, <3>2
    <3>4. ASSUME NEW n \in 1..MaxPri, NEW u, First(rq, n, u)
          PROVE  /\ u # t /\ ~(n > p) => First(q, n, u)
                 /\ u = t /\ n = c /\ n > p => First(q, p, t)
          BY <3>1, <3>3, <3>4, FirstMove
    <3> QED BY <1>9, <2>0, <2>4, <3>2, <3>4 DEF FirstsMoved
  <2> QED BY <2>4, <2>8, <2>9
<1>10. ASSUME "RDY" \notin k.msts[t], NEW y, y.rdq = k.rdq PROVE FirstsMoved(y, k, t, p)
       BY <1>10 DEF FirstsMoved
<1>11. ASSUME "RDY" \notin k.msts[t] PROVE OffRdq(k.rdq, k.msts, cp, X)
  <2>1. \A u \in Task : "RDY" \in k.msts[u] => cp[u] = k.cpri[u] BY <1>3, <1>11
  <2> QED BY <1>4, <2>1, MRdqStay
<1>12. CASE "RDY" \notin k.msts[t] /\ WaitsForMtx(k, t) /\ "FIFO" \notin k.msts[t]
  <2>1. PICK m \in Mtx : m = k.wsts[t] BY <1>12 DEF WaitsForMtx
  <2>2. Wants(k.msts, k.wsts, t, m) /\ at[m] # "FIFO"
        BY <1>4, <1>12, <2>1 DEF WaitsForMtx, Wants, MFlagged
  <2>3. PICK d : d = [k.mtxq EXCEPT ![m] = [n \in 0..MaxPri |-> Unlink(@[n], t)]] OBVIOUS
  <2>4. Cut(d, k.mtxq, m, t) BY <2>3 DEF Cut
  <2>5. /\ d \in [Mtx -> [0..MaxPri -> Seq(Task)]]
        /\ OffMtxq(d, k.msts, k.wsts, k.cpri, at, X \cup {t})
        BY <1>1, <1>4, <2>2, <2>4, MtxqDrop
  <2>6. PICK q : q = [d EXCEPT ![m][p] = Append(@, t)] OBVIOUS
  <2>7. p = Side(m, t, at, cp) BY <1>3, <2>2 DEF Side
  <2>e. Enqueued(q, d, m, p, t) BY <2>6 DEF Enqueued
  <2>f. Wait(k.msts, k.wsts, k.cpri, k.msts, k.wsts, cp, t) BY <1>3 DEF Wait
  <2>8. /\ q \in [Mtx -> [0..MaxPri -> Seq(Task)]]
        /\ OffMtxq(q, k.msts, k.wsts, cp, at, X)
        BY <1>3, <2>2, <2>5, <2>7, <2>e, <2>f, MtxqEnter
  <2>9. Dequeued(a, t) = [a EXCEPT !.mtxq = d]
        BY <1>6, <2>1, <2>3 DEF Dequeued, Kernel
  <2>10. r = [Dequeued(a, t) EXCEPT !.mtxq[k.wsts[t]][p] = Append(@, t)]
         BY <1>2, <1>5, <1>12 DEF Moved
  <2>11. r = [a EXCEPT !.mtxq = q] BY <1>6, <2>1, <2>6, <2>9, <2>10 DEF Kernel
  <2>12. r = [k EXCEPT !.cpri = cp, !.mtxq = q] BY <1>5, <2>11 DEF Kernel
  <2>13. r \in Kernel BY <1>3, <2>8, <2>12 DEF Kernel
  <2>14. MovedAs(r, k, t, p) /\ r.rdq = k.rdq /\ r.mtxq = q /\ r.cpri = cp
         BY <1>8, <2>12, <2>13
  <2>15. Linked(r, X, Y, at, st)
         BY <1>4, <1>11, <1>12, <2>8, <2>14 DEF Linked, MovedAs, SameTasks
  <2> QED BY <1>10, <1>12, <2>14, <2>15
<1>13. CASE "RDY" \notin k.msts[t] /\ ~(WaitsForMtx(k, t) /\ "FIFO" \notin k.msts[t])
  <2>1. r = a BY <1>2, <1>5, <1>13 DEF Moved
  <2>2. r = [k EXCEPT !.cpri = cp, !.rdq = k.rdq] BY <1>5, <2>1 DEF Kernel
  <2>3. MovedAs(r, k, t, p) /\ r.rdq = k.rdq /\ r.mtxq = k.mtxq /\ r.cpri = cp
        BY <1>6, <1>7, <2>1, <2>2
  <2>4. OffMtxq(k.mtxq, k.msts, k.wsts, cp, at, X)
    <3>1. ASSUME NEW u \in Task, NEW n \in Mtx, Wants(k.msts, k.wsts, u, n), at[n] # "FIFO"
          PROVE  cp[u] = k.cpri[u]
          BY <1>3, <1>4, <1>13, <3>1 DEF WaitsForMtx, Wants, MFlagged
    <3> QED BY <1>4, <3>1, MtxqStay
  <2>5. Linked(r, X, Y, at, st)
        BY <1>4, <1>11, <1>13, <2>3, <2>4 DEF Linked, MovedAs, SameTasks
  <2> QED BY <1>10, <1>13, <2>3, <2>5
<1> QED BY <1>9, <1>12, <1>13

(* The running task and the dispatcher take notice of it. *)
NoticedAs(r, k, t, p) ==
    /\ r \in Kernel /\ SameTasks(r, k) /\ SameMtx(r, k)
    /\ r.cpri = k.cpri /\ r.rdq = k.rdq /\ r.mtxq = k.mtxq /\ r.timq = k.timq

(* A task that moves ahead of the one that runs is noticed. *)
LEMMA NoticedFacts ==
    ASSUME NEW k0 \in Kernel, NEW t \in Task, NEW p \in 1..MaxPri, Running(k0, dsp),
           NEW k, MovedAs(k, k0, t, p), FirstsMoved(k, k0, t, p),
           NEW r, r = Noticed(k, t, p)
    PROVE  NoticedAs(r, k, t, p) /\ Running(r, dsp)
<1>1. /\ k0.cpri \in [Task -> 1..MaxPri] /\ k0.rdq \in [1..MaxPri -> Seq(Task)]
      /\ k0.ctcb \in Task \cup {NONE} /\ k0.msts \in [Task -> SUBSET Flags]
      /\ k0.pri \in 1..(MaxPri + 1) /\ k0.rdsp \in BOOLEAN
      BY KernelFields
<1>2. /\ k \in Kernel /\ k.msts = k0.msts /\ k.ctcb = k0.ctcb /\ k.pri = k0.pri
      /\ k.rdsp = k0.rdsp /\ k.cpri = [k0.cpri EXCEPT ![t] = p]
      BY DEF MovedAs, SameTasks, SameRun
<1>3. k.cpri[t] = p /\ \A u \in Task \ {t} : k.cpri[u] = k0.cpri[u] BY <1>1, <1>2
<1>4. /\ k0.ctcb # NONE => "RDY" \in k0.msts[k0.ctcb]
      /\ dsp => k0.ctcb # NONE
      /\ k0.rdsp => dsp
      /\ k0.ctcb # NONE /\ ~k0.rdsp =>
            k0.pri = k0.cpri[k0.ctcb] /\ First(k0.rdq, k0.pri, k0.ctcb)
      BY DEF Running
<1>5. \A n \in 1..MaxPri : \A u : First(k0.rdq, n, u) =>
        /\ "RDY" \notin k0.msts[t] => First(k.rdq, n, u)
        /\ u # t /\ ~(n > p) => First(k.rdq, n, u)
        /\ "RDY" \in k0.msts[t] /\ u = t /\ n = k0.cpri[t] /\ n > p => First(k.rdq, p, t)
      BY DEF FirstsMoved
<1>6. MaxPri \in Nat BY MConstants
<1>7. ASSUME r = k PROVE NoticedAs(r, k, t, p)
      BY <1>2, <1>7 DEF NoticedAs, SameTasks, SameMtx, SameChains
<1>8. ASSUME r = k, k.ctcb # NONE, ~k.rdsp, k.ctcb # t, ~(k.pri > p) \/ "RDY" \notin k.msts[t]
      PROVE  r.pri = r.cpri[r.ctcb] /\ First(r.rdq, r.pri, r.ctcb)
  <2>1. PICK n \in 1..MaxPri : n = k0.pri BY <1>1, <1>2, <1>4, <1>8
  <2>2. First(k0.rdq, n, k0.ctcb) BY <1>2, <1>4, <1>8, <2>1
  <2>3. First(k.rdq, n, k0.ctcb) BY <1>2, <1>5, <1>8, <2>1, <2>2
  <2>4. k0.ctcb \in Task BY <1>1, <1>2, <1>8
  <2>5. k.cpri[k0.ctcb] = k0.cpri[k0.ctcb] BY <1>2, <1>3, <1>8, <2>4
  <2> QED BY <1>2, <1>4, <1>8, <2>1, <2>3, <2>5
<1>9. CASE "RDY" \notin k.msts[t]
  <2>1. r = k BY <1>9 DEF Noticed
  <2>2. k.ctcb # NONE => k.ctcb # t BY <1>2, <1>4, <1>9
  <2>3. r.ctcb # NONE /\ ~r.rdsp => r.pri = r.cpri[r.ctcb] /\ First(r.rdq, r.pri, r.ctcb)
        BY <1>8, <1>9, <2>1, <2>2
  <2> QED BY <1>2, <1>4, <1>7, <2>1, <2>3 DEF Running
<1>10. CASE "RDY" \in k.msts[t] /\ k.ctcb = t /\ k.pri > p
  <2>1. r = [k EXCEPT !.pri = p] BY <1>1, <1>2, <1>6, <1>10 DEF Noticed
  <2>2. p \in 1..(MaxPri + 1) BY <1>6
  <2>3. r \in Kernel BY <1>2, <2>1, <2>2 DEF Kernel
  <2>4. /\ NoticedAs(r, k, t, p) /\ r.ctcb = k.ctcb /\ r.rdsp = k.rdsp /\ r.pri = p
        /\ r.msts = k.msts /\ r.cpri = k.cpri /\ r.rdq = k.rdq
        BY <1>2, <2>1, <2>3 DEF NoticedAs, SameTasks, SameMtx, SameChains, Kernel
  <2>5. ASSUME r.ctcb # NONE, ~r.rdsp PROVE First(r.rdq, p, t)
    <3>1. PICK n \in 1..MaxPri : n = k0.pri BY <1>1, <1>2, <1>4, <2>4, <2>5
    <3>2. First(k0.rdq, n, t) /\ n = k0.cpri[t] BY <1>2, <1>4, <1>10, <2>4, <2>5, <3>1
    <3> QED BY <1>2, <1>5, <1>10, <2>4, <3>1, <3>2
  <2> QED BY <1>2, <1>3, <1>4, <1>10, <2>4, <2>5 DEF Running
<1>11. ASSUME r = Asks(k) PROVE NoticedAs(r, k, t, p) /\ Running(r, dsp)
  <2>1. AskedAs(r, k) BY <1>2, <1>11, AsksFacts
  <2> QED BY <1>2, <1>4, <2>1 DEF AskedAs, NoticedAs, Running, SameTasks
<1>12. CASE "RDY" \in k.msts[t] /\ k.ctcb = t /\ ~(k.pri > p)
  <2>1. k.pri <= p BY <1>1, <1>2, <1>6, <1>12
  <2>2. r = Asks(k) BY <1>12, <2>1 DEF Noticed
  <2> QED BY <1>11, <2>2
<1>13. CASE "RDY" \in k.msts[t] /\ k.ctcb # t /\ k.pri > p
  <2>1. r = Asks(k) BY <1>13 DEF Noticed
  <2> QED BY <1>11, <2>1
<1>14. CASE "RDY" \in k.msts[t] /\ k.ctcb # t /\ ~(k.pri > p)
  <2>1. r = k BY <1>14 DEF Noticed
  <2>2. r.ctcb # NONE /\ ~r.rdsp => r.pri = r.cpri[r.ctcb] /\ First(r.rdq, r.pri, r.ctcb)
        BY <1>8, <1>14, <2>1
  <2> QED BY <1>2, <1>4, <1>7, <2>1, <2>2 DEF Running
<1> QED BY <1>9, <1>10, <1>12, <1>13, <1>14

-----------------------------------------------------------------------------
(* PRIORITIES THAT ARE HANDED ON                                           *)

(* Only the priority of mutex m has changed. *)
OnlyMpri(r, k, m, v) ==
    /\ r \in Kernel /\ SameTasks(r, k) /\ SameRun(r, k) /\ SameChains(r, k)
    /\ r.cpri = k.cpri /\ r.rdq = k.rdq /\ r.mtxq = k.mtxq /\ r.timq = k.timq
    /\ r.mpri = [k.mpri EXCEPT ![m] = v]

(* What a change of a mutex's priority changes. *)
LEMMA MpriFacts ==
    ASSUME NEW k \in Kernel, NEW m \in Mtx, NEW v \in 1..TMAX_TPRI,
           NEW r, r = [k EXCEPT !.mpri[m] = v]
    PROVE  OnlyMpri(r, k, m, v)
<1>1. k.mpri \in [Mtx -> 1..TMAX_TPRI] BY KernelFields
<1>2. PICK q : q = [k.mpri EXCEPT ![m] = v] OBVIOUS
<1>3. q \in [Mtx -> 1..TMAX_TPRI] BY <1>1, <1>2
<1>4. r = [k EXCEPT !.mpri = q] BY <1>2 DEF Kernel
<1> QED BY <1>2, <1>3, <1>4 DEF OnlyMpri, Kernel, SameTasks, SameRun, SameChains

(* The queues and the running task do not depend on it. *)
LEMMA MpriKeeps ==
    ASSUME NEW k \in Kernel, NEW m \in Mtx, NEW v, NEW r, OnlyMpri(r, k, m, v)
    PROVE  /\ \A X, Y, at, st : Linked(k, X, Y, at, st) => Linked(r, X, Y, at, st)
           /\ \A d : Running(k, d) => Running(r, d)
<1>1. /\ r.msts = k.msts /\ r.wsts = k.wsts /\ r.cpri = k.cpri /\ r.rdq = k.rdq
      /\ r.mtxq = k.mtxq /\ r.timq = k.timq
      /\ r.ctcb = k.ctcb /\ r.pri = k.pri /\ r.rdsp = k.rdsp
      BY DEF OnlyMpri, SameTasks, SameRun
<1>2. ASSUME NEW X, NEW Y, NEW at, NEW st, Linked(k, X, Y, at, st)
      PROVE  Linked(r, X, Y, at, st)
      BY <1>1, <1>2 DEF Linked
<1>3. ASSUME NEW d, Running(k, d) PROVE Running(r, d) BY <1>1, <1>3 DEF Running
<1> QED BY <1>2, <1>3

(* What a task inherits when a mutex passes on a higher priority. *)
LEMMA InheritedUp ==
    ASSUME NEW k \in Kernel, NEW at, NEW b \in [Task -> 1..MaxPri], NEW m \in Mtx,
           at[m] = "INHERIT", NEW v \in 1..MaxPri, v < k.mpri[m],
           NEW r, OnlyMpri(r, k, m, v), NEW t \in Task
    PROVE  /\ m \notin Held(k, t) => InheritedBy(r, at, b, t) = InheritedBy(k, at, b, t)
           /\ m \in Held(k, t) /\ InheritedBy(k, at, b, t) > v => InheritedBy(r, at, b, t) = v
           /\ m \in Held(k, t) /\ InheritedBy(k, at, b, t) <= v =>
                 InheritedBy(r, at, b, t) = InheritedBy(k, at, b, t)
<1>1. /\ r \in Kernel /\ r.lockmtx = k.lockmtx /\ k.mpri \in [Mtx -> 1..TMAX_TPRI]
      /\ r.mpri = [k.mpri EXCEPT ![m] = v]
      BY KernelFields DEF OnlyMpri, SameChains
<1>2. r.mpri[m] = v /\ \A n \in Mtx : n # m => r.mpri[n] = k.mpri[n] BY <1>1
<1>3. Held(r, t) = Held(k, t) BY <1>1 DEF Held
<1>4. \A n : Raises(r, at, t, n) <=> Raises(k, at, t, n) BY <1>3 DEF Raises
<1>5. PICK i : i = InheritedBy(k, at, b, t) OBVIOUS
<1>6. /\ i \in 1..MaxPri /\ i <= b[t]
      /\ \A n \in Mtx : Raises(k, at, t, n) => i <= k.mpri[n]
      /\ \/ i = b[t]
         \/ \E n \in Mtx : Raises(k, at, t, n) /\ i = k.mpri[n]
      BY <1>5, InheritedFacts
<1>7. \A n \in Mtx : k.mpri[n] \in Nat BY <1>1, MConstants
<1>8. i \in Nat /\ v \in Nat BY <1>6, MConstants
<1>9. CASE m \notin Held(k, t)
  <2>1. SameLifts(r, k, at, t) BY <1>1, <1>2, <1>9 DEF Raises, SameLifts
  <2>2. InheritedBy(r, at, b, t) = i BY <1>1, <1>5, <2>1, InheritedSame
  <2> QED BY <1>5, <1>9, <2>2
<1>10. CASE m \in Held(k, t) /\ i > v
  <2>1. Raises(r, at, t, m) BY <1>4, <1>10 DEF Raises
  <2>2. v <= b[t]
    <3>1. b[t] \in 1..MaxPri OBVIOUS
    <3> QED BY <1>6, <1>8, <1>10, <3>1
  <2>3. ASSUME NEW n \in Mtx, Raises(r, at, t, n) PROVE v <= r.mpri[n]
        BY <1>2, <1>4, <1>6, <1>7, <1>8, <1>10, <2>3
  <2>4. v = InheritedBy(r, at, b, t) BY <1>1, <1>2, <1>8, <2>1, <2>2, <2>3, InheritedIs
  <2> QED BY <1>5, <1>8, <1>10, <2>4
<1>11. CASE m \in Held(k, t) /\ i <= v
  <2>1. ASSUME NEW n \in Mtx, Raises(r, at, t, n) PROVE i <= r.mpri[n]
        BY <1>2, <1>4, <1>6, <1>11, <2>1
  <2>2. i = b[t] \/ \E n \in Mtx : Raises(r, at, t, n) /\ i = r.mpri[n]
    <3>1. ASSUME NEW n \in Mtx, Raises(k, at, t, n), i = k.mpri[n]
          PROVE  Raises(r, at, t, n) /\ i = r.mpri[n]
      <4>1. CASE n = m BY <1>6, <1>7, <1>8, <1>11, <3>1, <4>1
      <4>2. CASE n # m BY <1>2, <1>4, <3>1, <4>2
      <4> QED BY <4>1, <4>2
    <3> QED BY <1>6, <3>1
  <2>3. i = InheritedBy(r, at, b, t) BY <1>1, <1>6, <1>8, <2>1, <2>2, InheritedIs
  <2> QED BY <1>5, <1>8, <1>11, <2>3
<1>12. i > v \/ i <= v BY <1>8
<1> QED BY <1>9, <1>10, <1>11, <1>12

(* Task y waits for a mutex below one that u owns. *)
After(k, y, u) == \E m, h \in Mtx :
    Wants(k.msts, k.wsts, y, m) /\ k.owner[h] = u /\ Rank[m] <= Rank[h]

(* A task is not after itself. *)
LEMMA AfterOthers ==
    ASSUME NEW k, NEW X, NEW at, Backed(k, X, at), NEW y, NEW u \in Task, After(k, y, u)
    PROVE  y # u
<1>1. PICK m \in Mtx, h \in Mtx :
         Wants(k.msts, k.wsts, y, m) /\ k.owner[h] = u /\ Rank[m] <= Rank[h]
      BY DEF After
<1>2. Rank[m] \in Nat /\ Rank[h] \in Nat BY MConstants
<1>3. y = u => Rank[h] < Rank[m] BY <1>1 DEF Backed
<1> QED BY <1>1, <1>2, <1>3

(* A waiter, and who is after it, is after the owner it waits for. *)
LEMMA AfterNext ==
    ASSUME NEW k, NEW X, NEW at, Backed(k, X, at), NEW u \in Task, NEW n \in Mtx,
           Wants(k.msts, k.wsts, u, n)
    PROVE  After(k, u, k.owner[n]) /\ \A y : After(k, y, u) => After(k, y, k.owner[n])
<1>1. \A m \in Mtx : Rank[m] \in Nat BY MConstants
<1>2. After(k, u, k.owner[n]) BY <1>1 DEF After
<1>3. ASSUME NEW y, After(k, y, u) PROVE After(k, y, k.owner[n])
  <2>1. PICK m \in Mtx, h \in Mtx :
           Wants(k.msts, k.wsts, y, m) /\ k.owner[h] = u /\ Rank[m] <= Rank[h]
        BY <1>3 DEF After
  <2>2. Rank[h] < Rank[n] BY <2>1 DEF Backed
  <2>3. Rank[m] <= Rank[n] BY <1>1, <2>1, <2>2
  <2> QED BY <2>1, <2>3 DEF After
<1> QED BY <1>2, <1>3

(* What stays the same while priorities are handed on. *)
Grounds(k0, X, M, b, D, x) ==
    /\ k0 \in Kernel /\ X \subseteq Task /\ D \subseteq Task
    /\ b \in [Task -> 1..MaxPri] /\ \A u \in Task \ D : b[u] = bpri[u]
    /\ Backed(k0, X, mtxatr) /\ Chained(k0.lockmtx, k0.owner, x, M)
    /\ \A m \in M \cap Mtx, u \in Task \ X : ~Wants(k0.msts, k0.wsts, u, m)

Walks == [k : Kernel, tcb : Task \cup {NONE}, p : 1..MaxPri]

(* Between two turns all is as it is to be but the priority of the task    *)
(* that is next; p is the one it is to have.                               *)
OnWay(w, k0, X, Y, st, M, b, D) ==
    /\ SameTasks(w.k, k0) /\ SameChains(w.k, k0)
    /\ Linked(w.k, X, Y, mtxatr, st) /\ Running(w.k, dsp) /\ Offered(w.k, X, mtxatr, M)
    /\ Inheriting(w.k, {w.tcb}, mtxatr, b)
    /\ w.tcb # NONE =>
          /\ "DMT" \notin k0.msts[w.tcb] /\ w.p = InheritedBy(w.k, mtxatr, b, w.tcb)
          /\ \A y \in X : After(k0, y, w.tcb)
          /\ \A z \in D : z = w.tcb \/ After(k0, z, w.tcb)

(* A task has got its priority: what it waits for is still to be seen to. *)
Landed(k, k0, X, Y, st, M, b, t) ==
    /\ k \in Kernel /\ SameTasks(k, k0) /\ SameChains(k, k0)
    /\ Linked(k, X, Y, mtxatr, st) /\ Inheriting(k, {}, mtxatr, b)
    /\ \A n \in Mtx : mtxatr[n] = "INHERIT" /\ ~Wants(k0.msts, k0.wsts, t, n) =>
          OfferedAt(k, X, M, n)
    /\ \A n \in Mtx : Wants(k0.msts, k0.wsts, t, n) =>
          \A u \in Task \ X : u # t /\ Wants(k0.msts, k0.wsts, u, n) /\ mtxatr[n] = "INHERIT"
             => k.mpri[n] <= k.cpri[u]

(* A turn gives the task its priority, and its mutex is to follow. *)
LEMMA TurnLands ==
    ASSUME NEW k0, NEW X, NEW Y, NEW st, NEW M, NEW b, NEW D, NEW x,
           Grounds(k0, X, M, b, D, x), NEW w \in Walks, OnWay(w, k0, X, Y, st, M, b, D),
           NEW t \in Task, t = w.tcb, NEW k, k = Moved(w.k, t, w.p)
    PROVE  /\ MovedAs(k, w.k, t, w.p) /\ FirstsMoved(k, w.k, t, w.p) /\ t \notin X
           /\ Landed(k, k0, X, Y, st, M, b, t) /\ k.cpri[t] = w.p
<1>1. PICK v \in Kernel : v = w.k BY DEF Walks
<1>2. PICK p \in 1..MaxPri : p = w.p BY DEF Walks
<1>3. /\ SameTasks(v, k0) /\ SameChains(v, k0) /\ Linked(v, X, Y, mtxatr, st)
      /\ Offered(v, X, mtxatr, M) /\ Inheriting(v, {t}, mtxatr, b)
      BY <1>1 DEF OnWay
<1>4. t # NONE BY Constants
<1>5. p = InheritedBy(v, mtxatr, b, t) /\ \A y \in X : After(k0, y, t)
      BY <1>1, <1>2, <1>4 DEF OnWay
<1>6. Backed(k0, X, mtxatr) /\ X \subseteq Task /\ b \in [Task -> 1..MaxPri] BY DEF Grounds
<1>7. t \notin X BY <1>5, <1>6, AfterOthers
<1>8. MovedAs(k, v, t, p) /\ FirstsMoved(k, v, t, p) /\ Linked(k, X, Y, mtxatr, st)
      BY <1>1, <1>2, <1>3, <1>7, MovedFacts
<1>9. /\ k \in Kernel /\ k.msts = v.msts /\ k.wsts = v.wsts /\ k.lockmtx = v.lockmtx
      /\ k.owner = v.owner /\ k.mpri = v.mpri /\ k.cpri = [v.cpri EXCEPT ![t] = p]
      BY <1>8 DEF MovedAs, SameTasks, SameMtx, SameChains
<1>10. k.msts = k0.msts /\ k.wsts = k0.wsts /\ k.lockmtx = k0.lockmtx /\ k.owner = k0.owner
       BY <1>3, <1>9 DEF SameTasks, SameChains
<1>11. v.cpri \in [Task -> 1..MaxPri] BY KernelFields
<1>12. k.cpri[t] = p /\ \A u \in Task \ {t} : k.cpri[u] = v.cpri[u] BY <1>9, <1>11
<1>13. \A u \in Task : InheritedBy(k, mtxatr, b, u) = InheritedBy(v, mtxatr, b, u)
  <2>1. ASSUME NEW u \in Task
        PROVE  InheritedBy(k, mtxatr, b, u) = InheritedBy(v, mtxatr, b, u)
    <3>1. SameLifts(k, v, mtxatr, u) BY <1>9 DEF SameLifts
    <3> QED BY <1>9, <3>1, InheritedSame
  <2> QED BY <2>1
<1>14. Inheriting(k, {}, mtxatr, b)
  <2>1. ASSUME NEW u \in Task, "DMT" \notin k.msts[u]
        PROVE  k.cpri[u] = InheritedBy(k, mtxatr, b, u)
    <3>1. CASE u = t BY <1>5, <1>12, <1>13, <3>1
    <3>2. CASE u # t BY <1>3, <1>9, <1>12, <1>13, <2>1, <3>2 DEF Inheriting
    <3> QED BY <3>1, <3>2
  <2> QED BY <2>1 DEF Inheriting
<1>15. ASSUME NEW n \in Mtx, mtxatr[n] = "INHERIT", ~Wants(k0.msts, k0.wsts, t, n)
       PROVE  OfferedAt(k, X, M, n)
  <2>1. OfferedAt(v, X, M, n) BY <1>3, <1>15 DEF Offered
  <2>2. ASSUME NEW u \in Task \ X, Wants(k.msts, k.wsts, u, n) PROVE k.mpri[n] <= k.cpri[u]
    <3>1. u # t /\ Wants(v.msts, v.wsts, u, n) BY <1>9, <1>10, <1>15, <2>2
    <3> QED BY <1>9, <1>12, <2>1, <3>1 DEF OfferedAt
  <2>3. ASSUME n \notin M, \A u \in Task \ X : ~Wants(k.msts, k.wsts, u, n)
        PROVE  k.mpri[n] = TMAX_TPRI
        BY <1>9, <2>1, <2>3 DEF OfferedAt
  <2> QED BY <2>2, <2>3 DEF OfferedAt
<1>16. ASSUME NEW n \in Mtx, NEW u \in Task \ X, u # t, Wants(k0.msts, k0.wsts, u, n),
              mtxatr[n] = "INHERIT"
       PROVE  k.mpri[n] <= k.cpri[u]
  <2>1. OfferedAt(v, X, M, n) BY <1>3, <1>16 DEF Offered
  <2>2. Wants(v.msts, v.wsts, u, n) BY <1>9, <1>10, <1>16
  <2> QED BY <1>9, <1>12, <1>16, <2>1, <2>2 DEF OfferedAt
<1>17. Landed(k, k0, X, Y, st, M, b, t)
       BY <1>8, <1>9, <1>10, <1>14, <1>15, <1>16 DEF Landed, SameTasks, SameChains
<1> QED BY <1>1, <1>2, <1>7, <1>8, <1>12, <1>17

(* A mutex's priority is then set to what its waiters have. *)
LEMMA OfferAnew ==
    ASSUME NEW k0, NEW X, NEW Y, NEW st, NEW M, NEW b, NEW t \in Task, t \notin X,
           NEW k, Landed(k, k0, X, Y, st, M, b, t), NEW m \in Mtx,
           Wants(k0.msts, k0.wsts, t, m), NEW v,
           \A u \in Task \ X : Wants(k0.msts, k0.wsts, u, m) => v <= k.cpri[u],
           NEW r, OnlyMpri(r, k, m, v)
    PROVE  Offered(r, X, mtxatr, M)
<1>1. /\ k \in Kernel /\ r.msts = k.msts /\ r.wsts = k.wsts /\ r.cpri = k.cpri
      /\ k.msts = k0.msts /\ k.wsts = k0.wsts /\ r.mpri = [k.mpri EXCEPT ![m] = v]
      BY DEF OnlyMpri, Landed, SameTasks
<1>2. k.mpri \in [Mtx -> 1..TMAX_TPRI] BY <1>1, KernelFields
<1>3. r.mpri[m] = v /\ \A n \in Mtx : n # m => r.mpri[n] = k.mpri[n] BY <1>1, <1>2
<1>4. ASSUME NEW n \in Mtx, mtxatr[n] = "INHERIT" PROVE OfferedAt(r, X, M, n)
  <2>1. CASE n = m BY <1>1, <1>3, <2>1 DEF OfferedAt
  <2>2. CASE n # m
    <3>1. ~Wants(k0.msts, k0.wsts, t, n) BY <2>2 DEF Wants
    <3>2. OfferedAt(k, X, M, n) BY <1>4, <3>1 DEF Landed
    <3> QED BY <1>1, <1>3, <2>2, <3>2 DEF OfferedAt
  <2> QED BY <2>1, <2>2
<1> QED BY <1>4 DEF Offered

(* Whom it concerns: the owner, and nobody else. *)
LEMMA OwnerOf ==
    ASSUME NEW k0, NEW X, NEW M, NEW b, NEW D, NEW x, Grounds(k0, X, M, b, D, x),
           NEW t \in Task, t \notin X, NEW m \in Mtx, Wants(k0.msts, k0.wsts, t, m)
    PROVE  /\ k0.owner[m] \in Task /\ k0.owner[m] # t /\ "DMT" \notin k0.msts[k0.owner[m]]
           /\ \A k \in Kernel, u \in Task : SameChains(k, k0) =>
                 (m \in Held(k, u) <=> u = k0.owner[m])
<1>1. k0 \in Kernel /\ Backed(k0, X, mtxatr) /\ Chained(k0.lockmtx, k0.owner, x, M) /\ m \notin M
      BY DEF Grounds
<1>2. k0.owner[m] \in Task \cup {NONE} BY <1>1, KernelFields
<1>3. k0.owner[m] # NONE /\ "DMT" \notin k0.msts[k0.owner[m]] BY <1>1 DEF Backed
<1>4. k0.owner[m] # t
  <2>1. Rank[m] \in Nat BY MConstants
  <2>2. k0.owner[m] = t => Rank[m] < Rank[m] BY <1>1 DEF Backed
  <2> QED BY <2>1, <2>2
<1>5. ASSUME NEW k \in Kernel, NEW u \in Task, SameChains(k, k0)
      PROVE  m \in Held(k, u) <=> u = k0.owner[m]
  <2>1. Held(k, u) = ToSet(k0.lockmtx[u]) BY <1>5, HeldFacts DEF SameChains
  <2>2. m \in ToSet(k0.lockmtx[u]) <=> k0.owner[m] = u BY <1>1 DEF Chained
  <2> QED BY <2>1, <2>2
<1> QED BY <1>2, <1>3, <1>4, <1>5

(* What the others inherit stays the same. *)
LEMMA OthersInherit ==
    ASSUME NEW k0, NEW X, NEW Y, NEW st, NEW M, NEW b, NEW D, NEW x,
           Grounds(k0, X, M, b, D, x), NEW t \in Task, t \notin X,
           NEW k, Landed(k, k0, X, Y, st, M, b, t), NEW m \in Mtx,
           Wants(k0.msts, k0.wsts, t, m), NEW v, NEW r, OnlyMpri(r, k, m, v)
    PROVE  Inheriting(r, {k0.owner[m]}, mtxatr, b)
<1>1. k \in Kernel /\ SameChains(k, k0) /\ Inheriting(k, {}, mtxatr, b) BY DEF Landed
<1>2. /\ r \in Kernel /\ r.msts = k.msts /\ r.cpri = k.cpri /\ r.lockmtx = k.lockmtx
      /\ r.mpri = [k.mpri EXCEPT ![m] = v]
      BY DEF OnlyMpri, SameTasks, SameChains
<1>3. k.mpri \in [Mtx -> 1..TMAX_TPRI] BY <1>1, KernelFields
<1>4. ASSUME NEW u \in Task, u # k0.owner[m], "DMT" \notin r.msts[u]
      PROVE  r.cpri[u] = InheritedBy(r, mtxatr, b, u)
  <2>1. m \notin Held(k, u) BY <1>1, <1>4, OwnerOf
  <2>2. SameLifts(r, k, mtxatr, u) BY <1>2, <1>3, <2>1 DEF Raises, SameLifts
  <2>4. InheritedBy(r, mtxatr, b, u) = InheritedBy(k, mtxatr, b, u)
        BY <1>1, <1>2, <2>2, InheritedSame
  <2> QED BY <1>1, <1>2, <1>4, <2>4 DEF Inheriting
<1> QED BY <1>4 DEF Inheriting

(* If the owner's priority is what it is to be, nothing is left to do; if  *)
(* not, the owner is next.                                                 *)
LEMMA OwnerNext ==
    ASSUME NEW k0, NEW X, NEW Y, NEW st, NEW M, NEW b, NEW D, NEW x,
           Grounds(k0, X, M, b, D, x), NEW t \in Task, t \notin X,
           \A y \in X : After(k0, y, t), \A z \in D : z = t \/ After(k0, z, t),
           NEW m \in Mtx, Wants(k0.msts, k0.wsts, t, m),
           NEW r \in Kernel, SameTasks(r, k0), SameChains(r, k0),
           Linked(r, X, Y, mtxatr, st), Running(r, dsp), Offered(r, X, mtxatr, M),
           Inheriting(r, {k0.owner[m]}, mtxatr, b),
           NEW p \in 1..MaxPri, NEW c \in {k0.owner[m], NONE}, NEW w,
           w = [k |-> r, p |-> p, tcb |-> c],
           c # NONE => p = InheritedBy(r, mtxatr, b, c),
           c = NONE => r.cpri[k0.owner[m]] = InheritedBy(r, mtxatr, b, k0.owner[m])
    PROVE  /\ w \in Walks /\ OnWay(w, k0, X, Y, st, M, b, D)
           /\ w.tcb # NONE => w.tcb = k0.owner[m]
<1>1. PICK o : o = k0.owner[m] OBVIOUS
<1>2. o \in Task /\ o # t /\ "DMT" \notin k0.msts[o] BY <1>1, OwnerOf
<1>3. w \in Walks /\ w.k = r /\ w.p = p /\ w.tcb = c BY <1>1, <1>2 DEF Walks
<1>4. Backed(k0, X, mtxatr) BY DEF Grounds
<1>5. After(k0, t, o) /\ \A y : After(k0, y, t) => After(k0, y, o) BY <1>1, <1>4, AfterNext
<1>6. (\A y \in X : After(k0, y, o)) /\ (\A z \in D : After(k0, z, o)) BY <1>5
<1>7. Inheriting(r, {c}, mtxatr, b)
  <2>1. CASE c = NONE
    <3>1. ASSUME NEW u \in Task, "DMT" \notin r.msts[u]
          PROVE  r.cpri[u] = InheritedBy(r, mtxatr, b, u)
      <4>1. CASE u = o BY <1>1, <2>1, <4>1
      <4>2. CASE u # o BY <1>1, <3>1, <4>2 DEF Inheriting
      <4> QED BY <4>1, <4>2
    <3> QED BY <3>1 DEF Inheriting
  <2>2. CASE c # NONE
    <3>1. c = k0.owner[m] BY <2>2
    <3> QED BY <3>1
  <2> QED BY <2>1, <2>2
<1>8. c # NONE => c = o BY <1>1
<1>9. OnWay(w, k0, X, Y, st, M, b, D)
      BY <1>2, <1>3, <1>6, <1>7, <1>8 DEF OnWay
<1> QED BY <1>1, <1>3, <1>8, <1>9

(* One turn. *)
LEMMA TurnFacts ==
    ASSUME NEW k0, NEW X, NEW Y, NEW st, NEW M, NEW b, NEW D, NEW x,
           Grounds(k0, X, M, b, D, x), NEW w \in Walks, OnWay(w, k0, X, Y, st, M, b, D),
           w.tcb # NONE, NEW w2, w2 = Turn(w)
    PROVE  /\ w2 \in Walks /\ OnWay(w2, k0, X, Y, st, M, b, D)
           /\ w2.tcb # NONE => \E m \in Mtx :
                 Wants(k0.msts, k0.wsts, w.tcb, m) /\ w2.tcb = k0.owner[m]
<1>1. PICK t \in Task : t = w.tcb BY DEF Walks
<1>2. PICK p \in 1..MaxPri : p = w.p BY DEF Walks
<1>3. PICK v \in Kernel : v = w.k BY DEF Walks
<1>4. PICK k : k = Moved(v, t, p) OBVIOUS
<1>5. /\ MovedAs(k, v, t, p) /\ FirstsMoved(k, v, t, p) /\ t \notin X
      /\ Landed(k, k0, X, Y, st, M, b, t) /\ k.cpri[t] = p
      BY <1>1, <1>2, <1>3, <1>4, TurnLands
<1>6. /\ k \in Kernel /\ k.msts = k0.msts /\ k.wsts = k0.wsts
      /\ k.lockmtx = k0.lockmtx /\ k.owner = k0.owner
      /\ Linked(k, X, Y, mtxatr, st) /\ Inheriting(k, {}, mtxatr, b)
      BY <1>5 DEF Landed, SameTasks, SameChains
<1>7. /\ k.mpri \in [Mtx -> 1..TMAX_TPRI] /\ k.cpri \in [Task -> 1..MaxPri]
      BY <1>6, KernelFields
<1>8. /\ \A y \in X : After(k0, y, t)
      /\ \A z \in D : z = t \/ After(k0, z, t)
      BY <1>1 DEF OnWay
<1>9. Running(v, dsp) BY <1>3 DEF OnWay
<1>10. PICK m : m = k.wsts[t] OBVIOUS
<1>11. PICK n : n = Noticed(k, t, p) OBVIOUS
<1>13. NoticedAs(n, k, t, p) /\ Running(n, dsp) BY <1>3, <1>5, <1>9, <1>11, NoticedFacts
<1>14. b \in [Task -> 1..MaxPri] /\ bpri = bpri /\ \A u \in Task \ D : b[u] = bpri[u]
       BY DEF Grounds
<1> DEFINE inherits == WaitsForMtx(k, t) /\ mtxatr[m] = "INHERIT"
           up == [k EXCEPT !.mpri[m] = p]
           down == [k EXCEPT !.mpri[m] = k.cpri[MostUrgent(k, m)]]
           own == Inherited(down, k.owner[m])
<1>15. w2 = CASE inherits /\ k.mpri[m] > p ->
                   [k |-> up, p |-> p,
                    tcb |-> IF k.cpri[k.owner[m]] > p THEN k.owner[m] ELSE NONE]
              [] inherits /\ k.mpri[m] < p ->
                   [k |-> down, p |-> own,
                    tcb |-> IF k.cpri[k.owner[m]] # own THEN k.owner[m] ELSE NONE]
              [] OTHER -> [k |-> n, p |-> p, tcb |-> NONE]
       BY <1>1, <1>2, <1>3, <1>4, <1>10, <1>11 DEF Turn
<1>16. MaxPri \in Nat /\ 1..MaxPri \subseteq 1..TMAX_TPRI /\ TMAX_TPRI \in Nat BY MConstants
<1>17. inherits => m \in Mtx /\ Wants(k0.msts, k0.wsts, t, m)
       BY <1>6, <1>10 DEF WaitsForMtx, Wants
<1>18. inherits => k.mpri[m] \in Nat BY <1>7, <1>16, <1>17
<1>19. CASE inherits /\ k.mpri[m] > p
  <2>1. m \in Mtx /\ Wants(k0.msts, k0.wsts, t, m) BY <1>17, <1>19
  <2>2. PICK o \in Task : /\ o = k0.owner[m] /\ "DMT" \notin k0.msts[o] /\ m \in Held(k, o)
        BY <1>5, <1>6, <2>1, OwnerOf DEF SameChains
  <2>3. PICK r : r = up OBVIOUS
  <2>4. OnlyMpri(r, k, m, p) BY <1>6, <1>16, <2>1, <2>3, MpriFacts
  <2>5. PICK c : c = IF k.cpri[o] > p THEN o ELSE NONE OBVIOUS
  <2>6. w2 = [k |-> r, p |-> p, tcb |-> c] BY <1>6, <1>15, <1>16, <1>18, <1>19, <2>2, <2>3, <2>5
  <2>7. Linked(r, X, Y, mtxatr, st)
        BY <1>6, <2>1, <2>4, MpriKeeps
  <2>8. Running(r, dsp)
    <3>1. "RDY" \notin k.msts[t]
          BY <1>6, <1>19, FlagFacts DEF Linked, MFlagged, WaitsForMtx
    <3>2. n = k BY <1>11, <3>1 DEF Noticed
    <3> QED BY <1>6, <1>13, <2>1, <2>4, <3>2, MpriKeeps
  <2>9. \A u \in Task \ X : Wants(k0.msts, k0.wsts, u, m) => p <= k.cpri[u]
    <3>1. ASSUME NEW u \in Task \ X, Wants(k0.msts, k0.wsts, u, m) PROVE p <= k.cpri[u]
      <4>1. CASE u = t BY <1>5, <1>16, <4>1
      <4>2. CASE u # t
        <5>1. k.mpri[m] <= k.cpri[u] BY <1>5, <1>19, <2>1, <3>1, <4>2 DEF Landed
        <5>2. k.cpri[u] \in Nat /\ k.mpri[m] \in Nat BY <1>7, <1>16, <1>18, <1>19
        <5> QED BY <1>16, <1>19, <5>1, <5>2
      <4> QED BY <4>1, <4>2
    <3> QED BY <3>1
  <2>10. Offered(r, X, mtxatr, M) BY <1>5, <2>1, <2>4, <2>9, OfferAnew
  <2>11. Inheriting(r, {o}, mtxatr, b) BY <1>5, <2>1, <2>2, <2>4, OthersInherit
  <2>12. /\ InheritedBy(k, mtxatr, b, o) > p => InheritedBy(r, mtxatr, b, o) = p
         /\ InheritedBy(k, mtxatr, b, o) <= p =>
               InheritedBy(r, mtxatr, b, o) = InheritedBy(k, mtxatr, b, o)
    <3>1. p < k.mpri[m] BY <1>16, <1>18, <1>19
    <3> QED BY <1>6, <1>14, <1>19, <2>1, <2>2, <2>4, <3>1, InheritedUp
  <2>13. k.cpri[o] = InheritedBy(k, mtxatr, b, o) BY <1>6, <2>2 DEF Inheriting
  <2>14. k.cpri[o] \in Nat /\ r.cpri = k.cpri BY <1>7, <1>16, <2>4 DEF OnlyMpri
  <2>15. c # NONE => p = InheritedBy(r, mtxatr, b, c) BY <2>5, <2>12, <2>13
  <2>16. c = NONE => r.cpri[o] = InheritedBy(r, mtxatr, b, o)
    <3>1. c = NONE => ~(k.cpri[o] > p) BY <2>2, <2>5, Constants
    <3> QED BY <1>16, <2>12, <2>13, <2>14, <3>1
  <2>17. /\ r \in Kernel /\ SameTasks(r, k0) /\ SameChains(r, k0)
         BY <1>6, <2>4 DEF OnlyMpri, SameTasks, SameChains
  <2>18. c \in {k0.owner[m], NONE} BY <2>2, <2>5
  <2>19. w2 \in Walks /\ OnWay(w2, k0, X, Y, st, M, b, D) /\ (w2.tcb # NONE => w2.tcb = k0.owner[m])
         BY <1>5, <1>8, <2>1, <2>2, <2>6, <2>7, <2>8, <2>10, <2>11, <2>15, <2>16, <2>17, <2>18,
            OwnerNext
  <2> QED BY <1>1, <2>1, <2>19
<1>20. CASE inherits /\ k.mpri[m] < p
  <2>1. m \in Mtx /\ Wants(k0.msts, k0.wsts, t, m) BY <1>17, <1>20
  <2>2. PICK o \in Task : /\ o = k0.owner[m] /\ "DMT" \notin k0.msts[o] /\ m \in Held(k, o)
                          /\ o # t
        BY <1>5, <1>6, <2>1, OwnerOf DEF SameChains
  <2>3. PICK r : r = down OBVIOUS
  <2>4. PICK u \in Task \ X : /\ u = MostUrgent(k, m)
                              /\ \A y \in Task \ X : Wants(k0.msts, k0.wsts, y, m) =>
                                    k.cpri[u] <= k.cpri[y]
    <3>1. OffMtxq(k.mtxq, k.msts, k.wsts, k.cpri, mtxatr, X) BY <1>6 DEF Linked
    <3>2. PICK y : y = MostUrgent(k, m) OBVIOUS
    <3>3. \/ \A z \in Task \ X : ~Wants(k.msts, k.wsts, z, m)
          \/ /\ y \in Task \ X
             /\ mtxatr[m] # "FIFO" => \A z \in Task \ X :
                    Wants(k.msts, k.wsts, z, m) => k.cpri[y] <= k.cpri[z]
          BY <1>6, <2>1, <3>1, <3>2, MostUrgentFacts
    <3> QED BY <1>5, <1>6, <1>20, <2>1, <3>2, <3>3
  <2>5. PICK q \in 1..MaxPri : q = k.cpri[u] BY <1>7
  <2>6. OnlyMpri(r, k, m, q) BY <1>6, <1>16, <2>1, <2>3, <2>4, <2>5, MpriFacts
  <2>7. PICK i : i = InheritedBy(r, mtxatr, b, o) OBVIOUS
  <2>8. i \in 1..MaxPri BY <1>14, <2>6, <2>7, InheritedFacts DEF OnlyMpri
  <2>9. own = i
    <3>1. Inherited(r, o) = InheritedBy(r, mtxatr, bpri, o) BY InheritedNow
    <3>2. b[o] = bpri[o]
      <4>1. Backed(k0, X, mtxatr) BY DEF Grounds
      <4>2. \A y : After(k0, y, t) => After(k0, y, o) BY <2>1, <2>2, <4>1, AfterNext
      <4>3. After(k0, t, o) BY <2>1, <2>2, <4>1, AfterNext
      <4>4. o \notin D BY <1>8, <4>1, <4>2, <4>3, AfterOthers
      <4> QED BY <1>14, <4>4
    <3>3. InheritedBy(r, mtxatr, bpri, o) = InheritedBy(r, mtxatr, b, o)
          BY <3>2 DEF InheritedBy
    <3> QED BY <1>6, <2>2, <2>3, <2>7, <3>1, <3>3
  <2>10. PICK c : c = IF k.cpri[o] # i THEN o ELSE NONE OBVIOUS
  <2>11. w2 = [k |-> r, p |-> i, tcb |-> c]
    <3>1. ~(k.mpri[m] > p) BY <1>16, <1>18, <1>20
    <3> QED BY <1>6, <1>15, <1>20, <2>2, <2>3, <2>9, <2>10, <3>1
  <2>12. Linked(r, X, Y, mtxatr, st) BY <1>6, <2>1, <2>6, MpriKeeps
  <2>13. Running(r, dsp)
    <3>1. "RDY" \notin k.msts[t]
          BY <1>6, <1>20, FlagFacts DEF Linked, MFlagged, WaitsForMtx
    <3>2. n = k BY <1>11, <3>1 DEF Noticed
    <3> QED BY <1>6, <1>13, <2>1, <2>6, <3>2, MpriKeeps
  <2>14. Offered(r, X, mtxatr, M) BY <1>5, <2>1, <2>4, <2>5, <2>6, OfferAnew
  <2>15. Inheriting(r, {o}, mtxatr, b) BY <1>5, <2>1, <2>2, <2>6, OthersInherit
  <2>16. c # NONE => i = InheritedBy(r, mtxatr, b, c) BY <2>7, <2>10
  <2>17. r.cpri = k.cpri BY <2>6 DEF OnlyMpri
  <2>18. c = NONE => r.cpri[o] = InheritedBy(r, mtxatr, b, o)
    <3>1. c = NONE => k.cpri[o] = i BY <2>2, <2>10, Constants
    <3> QED BY <2>7, <2>17, <3>1
  <2>19. /\ r \in Kernel /\ SameTasks(r, k0) /\ SameChains(r, k0)
         BY <1>6, <2>6 DEF OnlyMpri, SameTasks, SameChains
  <2>20. c \in {k0.owner[m], NONE} BY <2>2, <2>10
  <2>21. w2 \in Walks /\ OnWay(w2, k0, X, Y, st, M, b, D) /\ (w2.tcb # NONE => w2.tcb = k0.owner[m])
         BY <1>5, <1>8, <2>1, <2>2, <2>8, <2>11, <2>12, <2>13, <2>14, <2>15, <2>16, <2>18,
            <2>19, <2>20, OwnerNext
  <2> QED BY <1>1, <2>1, <2>21
<1>21. CASE ~(inherits /\ k.mpri[m] > p) /\ ~(inherits /\ k.mpri[m] < p)
  <2>1. w2 = [k |-> n, p |-> p, tcb |-> NONE] BY <1>15, <1>21
  <2>2. /\ n \in Kernel /\ n.msts = k.msts /\ n.wsts = k.wsts /\ n.lockmtx = k.lockmtx
        /\ n.owner = k.owner /\ n.mpri = k.mpri /\ n.cpri = k.cpri
        /\ n.rdq = k.rdq /\ n.mtxq = k.mtxq /\ n.timq = k.timq
        BY <1>13 DEF NoticedAs, SameTasks, SameMtx, SameChains
  <2>3. w2 \in Walks /\ w2.k = n /\ w2.tcb = NONE BY <2>1, <2>2 DEF Walks
  <2>4. Linked(n, X, Y, mtxatr, st) BY <1>6, <2>2 DEF Linked
  <2>5. Inheriting(n, {NONE}, mtxatr, b)
    <3>1. ASSUME NEW u \in Task, "DMT" \notin n.msts[u]
          PROVE  n.cpri[u] = InheritedBy(n, mtxatr, b, u)
      <4>1. InheritedBy(n, mtxatr, b, u) = InheritedBy(k, mtxatr, b, u)
            BY <2>2 DEF InheritedBy, Lifts, Held
      <4> QED BY <1>6, <2>2, <3>1, <4>1 DEF Inheriting
    <3> QED BY <3>1 DEF Inheriting
  <2>6. Offered(n, X, mtxatr, M)
    <3>1. ASSUME NEW j \in Mtx, mtxatr[j] = "INHERIT" PROVE OfferedAt(k, X, M, j)
      <4>1. CASE ~Wants(k0.msts, k0.wsts, t, j) BY <1>5, <3>1, <4>1 DEF Landed
      <4>2. CASE Wants(k0.msts, k0.wsts, t, j)
        <5>1. j = m /\ inherits
              BY <1>6, <1>10, <3>1, <4>2 DEF Wants, WaitsForMtx
        <5>2. k.mpri[m] = p BY <1>16, <1>18, <1>21, <5>1
        <5>3. ASSUME NEW u \in Task \ X, Wants(k.msts, k.wsts, u, j)
              PROVE  k.mpri[j] <= k.cpri[u]
          <6>1. CASE u = t BY <1>5, <1>16, <5>1, <5>2, <6>1
          <6>2. CASE u # t BY <1>5, <1>6, <3>1, <4>2, <5>3, <6>2 DEF Landed
          <6> QED BY <6>1, <6>2
        <5> QED BY <1>5, <1>6, <4>2, <5>3 DEF OfferedAt
      <4> QED BY <4>1, <4>2
    <3> QED BY <2>2, <3>1 DEF Offered, OfferedAt
  <2>7. SameTasks(n, k0) /\ SameChains(n, k0) BY <1>6, <2>2 DEF SameTasks, SameChains
  <2> QED BY <1>13, <2>3, <2>4, <2>5, <2>6, <2>7 DEF OnWay
<1> QED BY <1>19, <1>20, <1>21

(* All priorities are handed on. *)
HandedOn(r, k0, X, Y, st, M, b) ==
    /\ r \in Kernel /\ SameTasks(r, k0) /\ SameChains(r, k0)
    /\ Linked(r, X, Y, mtxatr, st) /\ Running(r, dsp) /\ Offered(r, X, mtxatr, M)
    /\ Inheriting(r, {}, mtxatr, b)

(* Turn i comes to a task above i others. *)
NthTurn(i, k0, X, Y, st, M, b, D) == {w \in Walks :
    /\ OnWay(w, k0, X, Y, st, M, b, D)
    /\ w.tcb # NONE =>
          \E S \in SUBSET Task : Cardinality(S) = i /\ \A y \in S : After(k0, y, w.tcb)}

Next1(w) == IF w.tcb = NONE THEN w ELSE Turn(w)

(* A turn leads to the next. *)
LEMMA NextTurn ==
    ASSUME NEW k0, NEW X, NEW Y, NEW st, NEW M, NEW b, NEW D, NEW x,
           Grounds(k0, X, M, b, D, x), NEW i \in Nat,
           NEW w \in NthTurn(i, k0, X, Y, st, M, b, D)
    PROVE  Next1(w) \in NthTurn(i + 1, k0, X, Y, st, M, b, D)
<1>1. w \in Walks /\ OnWay(w, k0, X, Y, st, M, b, D) BY DEF NthTurn
<1>2. CASE w.tcb = NONE
  <2>1. Next1(w) = w BY <1>2 DEF Next1
  <2> QED BY <1>1, <1>2, <2>1 DEF NthTurn
<1>3. CASE w.tcb # NONE
  <2>1. PICK v : v = Turn(w) OBVIOUS
  <2>2. Next1(w) = v BY <1>3, <2>1 DEF Next1
  <2>3. /\ v \in Walks /\ OnWay(v, k0, X, Y, st, M, b, D)
        /\ v.tcb # NONE => \E m \in Mtx :
              Wants(k0.msts, k0.wsts, w.tcb, m) /\ v.tcb = k0.owner[m]
        BY <1>1, <1>3, <2>1, TurnFacts
  <2>4. ASSUME v.tcb # NONE
        PROVE  \E S \in SUBSET Task : Cardinality(S) = i + 1 /\ \A y \in S : After(k0, y, v.tcb)
    <3>1. PICK m \in Mtx : Wants(k0.msts, k0.wsts, w.tcb, m) /\ v.tcb = k0.owner[m]
          BY <2>3, <2>4
    <3>2. PICK S \in SUBSET Task : Cardinality(S) = i /\ \A y \in S : After(k0, y, w.tcb)
          BY <1>3 DEF NthTurn
    <3>3. PICK t \in Task : t = w.tcb BY <1>1, <1>3 DEF Walks
    <3>4. Backed(k0, X, mtxatr) BY DEF Grounds
    <3>5. t \notin S BY <3>2, <3>3, <3>4, AfterOthers
    <3>6. After(k0, t, v.tcb) /\ \A y \in S : After(k0, y, v.tcb)
          BY <3>1, <3>2, <3>3, <3>4, AfterNext
    <3>7. IsFiniteSet(S) BY TaskSyncAssumption, FS_Subset
    <3>8. Cardinality(S \cup {t}) = i + 1 BY <3>2, <3>5, <3>7, FS_AddElement
    <3>9. S \cup {t} \in SUBSET Task OBVIOUS
    <3>10. \A y \in S \cup {t} : After(k0, y, v.tcb) BY <3>6
    <3> QED BY <3>8, <3>9, <3>10
  <2> QED BY <2>2, <2>3, <2>4 DEF NthTurn
<1> QED BY <1>2, <1>3

(* The turns of _kernel_chgpri end: each comes to a task above one more. *)
LEMMA ChangedFacts ==
    ASSUME NEW k0, NEW X, NEW Y, NEW st, NEW M, NEW b, NEW D, NEW x,
           Grounds(k0, X, M, b, D, x), Linked(k0, X, Y, mtxatr, st), Running(k0, dsp),
           Offered(k0, X, mtxatr, M), NEW t \in Task, Inheriting(k0, {t}, mtxatr, b),
           "DMT" \notin k0.msts[t], NEW p, p = InheritedBy(k0, mtxatr, b, t),
           \A y \in X : After(k0, y, t), \A z \in D : z = t \/ After(k0, z, t),
           NEW r, r = Changed(k0, t, p)
    PROVE  HandedOn(r, k0, X, Y, st, M, b)
<1>1. k0 \in Kernel /\ b \in [Task -> 1..MaxPri] /\ Backed(k0, X, mtxatr) BY DEF Grounds
<1>2. p \in 1..MaxPri BY <1>1, InheritedFacts
<1>3. PICK w0 : w0 = [k |-> k0, tcb |-> t, p |-> p] OBVIOUS
<1>4. MaxTurns \in Nat BY MConstants
<1>5. PICK W : W = [i \in 0..MaxTurns |-> NthTurn(i, k0, X, Y, st, M, b, D)] OBVIOUS
<1>6. w0 \in W[0]
  <2>1. w0 \in Walks /\ w0.k = k0 /\ w0.tcb = t /\ w0.p = p BY <1>1, <1>2, <1>3 DEF Walks
  <2>2. OnWay(w0, k0, X, Y, st, M, b, D)
        BY <2>1 DEF OnWay, SameTasks, SameChains
  <2>3. {} \in SUBSET Task /\ Cardinality({}) = 0 BY FS_EmptySet
  <2>4. w0 \in NthTurn(0, k0, X, Y, st, M, b, D) BY <2>1, <2>2, <2>3 DEF NthTurn
  <2>5. 0 \in 0..MaxTurns BY <1>4
  <2> QED BY <1>5, <2>4, <2>5
<1>7. ASSUME NEW i \in 1..MaxTurns, NEW w \in W[i - 1] PROVE Next1(w) \in W[i]
  <2>1. i - 1 \in 0..MaxTurns /\ i - 1 \in Nat /\ i \in 0..MaxTurns /\ (i - 1) + 1 = i BY <1>4
  <2>2. w \in NthTurn(i - 1, k0, X, Y, st, M, b, D) BY <1>5, <1>7, <2>1
  <2>3. Next1(w) \in NthTurn((i - 1) + 1, k0, X, Y, st, M, b, D) BY <2>1, <2>2, NextTurn
  <2> QED BY <1>5, <2>1, <2>3
<1>8. PICK f : f = [i \in 1..MaxTurns |-> [w \in W[i - 1] |-> Next1(w)]] OBVIOUS
<1>9. \A i \in 1..MaxTurns : \A w \in W[i - 1] : f[i][w] = Next1(w) /\ f[i][w] \in W[i]
      BY <1>7, <1>8
<1>10. PICK g : Iterated(g, MaxTurns, w0, f) /\ \A i \in 0..MaxTurns : g[i] \in W[i]
       BY <1>4, <1>6, <1>9, Iterates
<1>11. g = [i \in 0..MaxTurns |-> IF i = 0 THEN w0 ELSE Next1(g[i - 1])]
  <2>1. ASSUME NEW i \in 0..MaxTurns, i # 0 PROVE f[i][g[i - 1]] = Next1(g[i - 1])
    <3>1. i \in 1..MaxTurns /\ i - 1 \in 0..MaxTurns BY <1>4, <2>1
    <3> QED BY <1>9, <1>10, <3>1
  <2> QED BY <1>10, <2>1 DEF Iterated
<1>12. PICK walk : walk = CHOOSE h :
          h = [i \in 0..MaxTurns |-> IF i = 0 THEN w0 ELSE Next1(h[i - 1])]
       OBVIOUS
<1>13. walk = [i \in 0..MaxTurns |-> IF i = 0 THEN w0 ELSE Next1(walk[i - 1])]
       BY <1>11, <1>12
<1>14. r = walk[MaxTurns].k
       BY <1>3, <1>12 DEF Changed, Next1
<1>15. \A i \in 0..MaxTurns : walk[i] \in W[i]
  <2>1. walk[0] \in W[0]
    <3>1. 0 \in 0..MaxTurns BY <1>4
    <3> QED BY <1>6, <1>13, <3>1
  <2>2. ASSUME NEW i \in 1..MaxTurns, walk[i - 1] \in W[i - 1] PROVE walk[i] \in W[i]
    <3>1. i \in 0..MaxTurns /\ i # 0 BY <1>4
    <3>2. walk[i] = Next1(walk[i - 1]) BY <1>13, <3>1
    <3> QED BY <1>7, <2>2, <3>2
  <2> QED BY <1>4, <2>1, <2>2, StaysIn
<1>16. PICK w : w = walk[MaxTurns] OBVIOUS
<1>17. w \in NthTurn(MaxTurns, k0, X, Y, st, M, b, D)
  <2>1. MaxTurns \in 0..MaxTurns BY <1>4
  <2> QED BY <1>5, <1>15, <1>16, <2>1
<1>18. w \in Walks /\ OnWay(w, k0, X, Y, st, M, b, D) BY <1>17 DEF NthTurn
<1>19. w.tcb = NONE
  <2> SUFFICES ASSUME w.tcb # NONE PROVE FALSE OBVIOUS
  <2>1. PICK S \in SUBSET Task : Cardinality(S) = MaxTurns /\ \A y \in S : After(k0, y, w.tcb)
        BY <1>17 DEF NthTurn
  <2>2. w.tcb \in Task BY <1>18 DEF Walks
  <2>3. w.tcb \notin S BY <1>1, <2>1, <2>2, AfterOthers
  <2>4. IsFiniteSet(Task) BY TaskSyncAssumption
  <2>5. Cardinality(S) < Cardinality(Task)
    <3>1. Cardinality(S) <= Cardinality(Task) /\ (Cardinality(S) = Cardinality(Task) => S = Task)
          BY <2>4, FS_Subset
    <3>2. Cardinality(S) \in Nat /\ Cardinality(Task) \in Nat BY <1>4, <2>1, MConstants
    <3> QED BY <2>2, <2>3, <3>1, <3>2
  <2>6. MaxTurns >= Cardinality(Task)
    <3>1. PICK c \in Nat : c = Cardinality(Task) BY MConstants
    <3>2. MaxPri \in Nat /\ MaxPri >= 1 BY MConstants
    <3>3. 2 * c * MaxPri >= c BY <3>1, <3>2
    <3> QED BY <3>1, <3>3 DEF MaxTurns
  <2> QED BY <1>4, <2>1, <2>5, <2>6, MConstants
<1>20. w.k = r /\ w.k \in Kernel BY <1>14, <1>16, <1>18 DEF Walks
<1>21. Inheriting(r, {}, mtxatr, b)
  <2>1. Inheriting(r, {NONE}, mtxatr, b) BY <1>18, <1>19, <1>20 DEF OnWay
  <2>2. NONE \notin Task BY Constants
  <2> QED BY <2>1, <2>2 DEF Inheriting
<1> QED BY <1>18, <1>20, <1>21 DEF HandedOn, OnWay

(***************************************************************************)
(* A WAIT IS GIVEN UP                                                      *)
(***************************************************************************)
LEMMA BackedSame ==
    ASSUME NEW k, NEW X, NEW at, Backed(k, X, at), NEW r, SameTasks(r, k), SameChains(r, k)
    PROVE  Backed(r, X, at)
BY DEF Backed, SameTasks, SameChains

(* A task that does not hold m inherits nothing by it. *)
LEMMA NotHeld ==
    ASSUME NEW k \in Kernel, NEW x, NEW M, Chained(k.lockmtx, k.owner, x, M),
           NEW m \in Mtx, NEW t \in Task, t # x, k.owner[m] # t
    PROVE  m \notin Held(k, t)
<1>1. Held(k, t) = ToSet(k.lockmtx[t]) BY HeldFacts
<1>2. m \in ToSet(k.lockmtx[t]) <=> k.owner[m] = t BY DEF Chained
<1> QED BY <1>1, <1>2

(* The owner inherits from the waiters that remain. *)
LEMMA AbandonedFacts ==
    ASSUME NEW k \in Kernel, NEW X \in SUBSET Task, NEW Y, NEW st, NEW m \in Mtx,
           bpri \in [Task -> 1..MaxPri], Linked(k, X, Y, mtxatr, st), Running(k, dsp),
           Chained(k.lockmtx, k.owner, NONE, {}), Backed(k, X, mtxatr),
           Offered(k, X, mtxatr, {m}), Inheriting(k, {NONE}, mtxatr, bpri),
           k.owner[m] # NONE, \A y \in X : Wants(k.msts, k.wsts, y, m),
           NEW r, r = Abandoned(k, m)
    PROVE  SameTasks(r, k) /\ SameChains(r, k) /\ Whole(r, X, Y, mtxatr, st, bpri, dsp)
<1>1. CASE mtxatr[m] # "INHERIT"
  <2>1. r = k BY <1>1 DEF Abandoned
  <2>2. Offered(k, X, mtxatr, {})
    <3>1. ASSUME NEW n \in Mtx, mtxatr[n] = "INHERIT" PROVE OfferedAt(k, X, {}, n)
      <4>1. OfferedAt(k, X, {m}, n) /\ n # m BY <1>1, <3>1 DEF Offered
      <4> QED BY <4>1 DEF OfferedAt
    <3> QED BY <3>1 DEF Offered
  <2>3. SameTasks(k, k) /\ SameChains(k, k) BY DEF SameTasks, SameChains
  <2> QED BY <2>1, <2>2, <2>3 DEF Whole, Part
<1>2. CASE mtxatr[m] = "INHERIT"
  <2>1. PICK u : u = MostUrgent(k, m) OBVIOUS
  <2>2. PICK v : v = IF u = NONE THEN TMAX_TPRI ELSE k.cpri[u] OBVIOUS
  <2>3. OffMtxq(k.mtxq, k.msts, k.wsts, k.cpri, mtxatr, X) BY DEF Linked
  <2>4. \/ u = NONE /\ \A w \in Task \ X : ~Wants(k.msts, k.wsts, w, m)
        \/ /\ u \in Task \ X /\ u # NONE /\ Wants(k.msts, k.wsts, u, m)
           /\ \A w \in Task \ X : Wants(k.msts, k.wsts, w, m) => k.cpri[u] <= k.cpri[w]
        BY <1>2, <2>1, <2>3, MostUrgentFacts
  <2>5. k.cpri \in [Task -> 1..MaxPri] /\ k.owner \in [Mtx -> Task \cup {NONE}]
        /\ k.mpri \in [Mtx -> 1..TMAX_TPRI]
        BY KernelFields
  <2>6. v \in 1..TMAX_TPRI BY <2>2, <2>4, <2>5, MConstants
  <2>7. PICK k1 : k1 = [k EXCEPT !.mpri[m] = v] OBVIOUS
  <2>8. OnlyMpri(k1, k, m, v) BY <2>6, <2>7, MpriFacts
  <2>9. /\ k1 \in Kernel /\ SameTasks(k1, k) /\ SameChains(k1, k) /\ k1.cpri = k.cpri
        /\ k1.mpri = [k.mpri EXCEPT ![m] = v]
        BY <2>8 DEF OnlyMpri
  <2>10. /\ k1.msts = k.msts /\ k1.wsts = k.wsts /\ k1.lockmtx = k.lockmtx
         /\ k1.owner = k.owner
         BY <2>9 DEF SameTasks, SameChains
  <2>11. k1.mpri[m] = v /\ \A n \in Mtx : n # m => k1.mpri[n] = k.mpri[n] BY <2>5, <2>9
  <2>12. PICK o \in Task : o = k.owner[m] BY <2>5
  <2>13. r = Changed(k1, o, Inherited(k1, o))
         BY <1>2, <2>1, <2>2, <2>7, <2>12 DEF Abandoned, Checked
  <2>14. PICK p : p = Inherited(k1, o) OBVIOUS
  <2>15. p = InheritedBy(k1, mtxatr, bpri, o) BY <2>14, InheritedNow
  <2>16. Linked(k1, X, Y, mtxatr, st) /\ Running(k1, dsp) BY <2>8, MpriKeeps
  <2>17. Offered(k1, X, mtxatr, {})
    <3>1. ASSUME NEW n \in Mtx, mtxatr[n] = "INHERIT" PROVE OfferedAt(k1, X, {}, n)
      <4>1. CASE n = m BY <2>2, <2>4, <2>9, <2>10, <2>11, <4>1 DEF OfferedAt
      <4>2. CASE n # m
        <5>1. OfferedAt(k, X, {m}, n) BY <3>1 DEF Offered
        <5> QED BY <2>9, <2>10, <2>11, <4>2, <5>1 DEF OfferedAt
      <4> QED BY <4>1, <4>2
    <3> QED BY <3>1 DEF Offered
  <2>18. Inheriting(k1, {o}, mtxatr, bpri)
    <3>1. ASSUME NEW w \in Task, w # o, "DMT" \notin k1.msts[w]
          PROVE  k1.cpri[w] = InheritedBy(k1, mtxatr, bpri, w)
      <4>1. w # NONE BY Constants
      <4>2. m \notin Held(k, w) BY <2>12, <3>1, <4>1, NotHeld
      <4>3. SameLifts(k1, k, mtxatr, w) BY <2>10, <2>11, <4>2 DEF Raises, SameLifts
      <4>4. InheritedBy(k1, mtxatr, bpri, w) = InheritedBy(k, mtxatr, bpri, w)
            BY <2>9, <4>3, InheritedSame
      <4> QED BY <2>9, <2>10, <3>1, <4>1, <4>4 DEF Inheriting
    <3> QED BY <3>1 DEF Inheriting
  <2>19. Backed(k1, X, mtxatr) BY <2>9, BackedSame
  <2>20. Grounds(k1, X, {}, bpri, {}, NONE) BY <2>9, <2>10, <2>19 DEF Grounds
  <2>21. \A y \in X : After(k1, y, o)
    <3>1. Rank[m] <= Rank[m] BY MConstants
    <3> QED BY <2>10, <2>12, <3>1 DEF After
  <2>22. "DMT" \notin k1.msts[o] BY <2>10, <2>12 DEF Backed
  <2>23. HandedOn(r, k1, X, Y, st, {}, bpri)
         BY <2>13, <2>14, <2>15, <2>16, <2>17, <2>18, <2>20, <2>21, <2>22, ChangedFacts
  <2>24. /\ r \in Kernel /\ SameTasks(r, k1) /\ SameChains(r, k1)
         /\ Linked(r, X, Y, mtxatr, st) /\ Running(r, dsp) /\ Offered(r, X, mtxatr, {})
         /\ Inheriting(r, {}, mtxatr, bpri)
         BY <2>23 DEF HandedOn
  <2>25. SameTasks(r, k) /\ SameChains(r, k) BY <2>9, <2>24 DEF SameTasks, SameChains
  <2>26. Backed(r, X, mtxatr) BY <2>25, BackedSame
  <2>27. Chained(r.lockmtx, r.owner, NONE, {}) BY <2>25 DEF SameChains
  <2>28. Inheriting(r, {NONE}, mtxatr, bpri) BY <2>24 DEF Inheriting
  <2> QED BY <2>24, <2>25, <2>26, <2>27, <2>28 DEF Whole, Part
<1> QED BY <1>1, <1>2

(***************************************************************************)
(* A MUTEX CHANGES HANDS                                                   *)
(***************************************************************************)
(* What a task x that gives up mutex m keeps. *)
HandedAs(r, k, x, m) ==
    /\ r.lockmtx[x] = k.lockmtx[x] /\ r.msts[x] = k.msts[x] /\ r.wsts[x] = k.wsts[x]
    /\ r.cpri[x] = k.cpri[x] /\ r.pri = k.pri /\ r.ctcb \in {k.ctcb, NONE}
    /\ r.owner[m] # x
    /\ \A n \in Mtx : n # m => r.owner[n] = k.owner[n] /\ r.mpri[n] = k.mpri[n]

(* Nobody waits for it. *)
FreedAs(r, k, m, v) ==
    /\ r \in Kernel /\ SameTasks(r, k) /\ SameRun(r, k) /\ r.lockmtx = k.lockmtx
    /\ r.cpri = k.cpri /\ r.rdq = k.rdq /\ r.mtxq = k.mtxq /\ r.timq = k.timq
    /\ r.owner = [k.owner EXCEPT ![m] = NONE] /\ r.mpri = [k.mpri EXCEPT ![m] = v]

(* What HandedOver changes when nobody waits. *)
LEMMA FreedIs ==
    ASSUME NEW k \in Kernel, NEW m \in Mtx, MostUrgent(k, m) = NONE,
           NEW r, r = HandedOver(k, m)
    PROVE  \E v \in 1..TMAX_TPRI :
              FreedAs(r, k, m, v) /\ (mtxatr[m] = "INHERIT" => v = TMAX_TPRI)
<1>1. PICK v : v = IF mtxatr[m] = "INHERIT" THEN TMAX_TPRI ELSE k.mpri[m] OBVIOUS
<1>2. k.mpri \in [Mtx -> 1..TMAX_TPRI] /\ k.owner \in [Mtx -> Task \cup {NONE}] BY KernelFields
<1>3. TMAX_TPRI \in 1..TMAX_TPRI BY MConstants
<1>4. v \in 1..TMAX_TPRI BY <1>1, <1>2, <1>3
<1>5. PICK o : o = [k.owner EXCEPT ![m] = NONE] OBVIOUS
<1>6. PICK q : q = [k.mpri EXCEPT ![m] = v] OBVIOUS
<1>7. o \in [Mtx -> Task \cup {NONE}] /\ q \in [Mtx -> 1..TMAX_TPRI] BY <1>2, <1>4, <1>5, <1>6
<1>8. r = [k EXCEPT !.owner = o, !.mpri = q]
  <2>1. r = [k EXCEPT !.owner[m] = NONE,
                      !.mpri[m] = IF mtxatr[m] = "INHERIT" THEN TMAX_TPRI ELSE @]
        BY DEF HandedOver
  <2> QED BY <1>1, <1>5, <1>6, <2>1
<1>9. FreedAs(r, k, m, v) BY <1>5, <1>6, <1>7, <1>8 DEF FreedAs, Kernel, SameTasks, SameRun
<1> QED BY <1>1, <1>4, <1>9

(* A mutex that nobody waits for is free. *)
LEMMA FreedFacts ==
    ASSUME NEW k, NEW X, NEW Y, NEW x \in Task, NEW M, NEW st,
           Part(k, X, Y, x, M, mtxatr, st, bpri, dsp), NEW m \in Mtx, m \in M, k.owner[m] = x,
           MostUrgent(k, m) = NONE, NEW r, r = HandedOver(k, m)
    PROVE  HandedAs(r, k, x, m) /\ Part(r, X, Y, x, M, mtxatr, st, bpri, dsp)
<1>1. /\ k \in Kernel /\ X \subseteq Task /\ Linked(k, X, Y, mtxatr, st) /\ Running(k, dsp)
      /\ Chained(k.lockmtx, k.owner, x, M) /\ Backed(k, X, mtxatr)
      /\ Offered(k, X, mtxatr, {}) /\ Inheriting(k, {x}, mtxatr, bpri)
      BY DEF Part
<1>2. PICK v \in 1..TMAX_TPRI :
         FreedAs(r, k, m, v) /\ (mtxatr[m] = "INHERIT" => v = TMAX_TPRI)
      BY <1>1, FreedIs
<1>3. /\ r \in Kernel /\ r.msts = k.msts /\ r.wsts = k.wsts /\ r.lockmtx = k.lockmtx
      /\ r.cpri = k.cpri /\ r.rdq = k.rdq /\ r.mtxq = k.mtxq /\ r.timq = k.timq
      /\ r.ctcb = k.ctcb /\ r.pri = k.pri /\ r.rdsp = k.rdsp
      /\ r.owner = [k.owner EXCEPT ![m] = NONE] /\ r.mpri = [k.mpri EXCEPT ![m] = v]
      BY <1>2 DEF FreedAs, SameTasks, SameRun
<1>4. /\ k.mpri \in [Mtx -> 1..TMAX_TPRI] /\ k.owner \in [Mtx -> Task \cup {NONE}]
      /\ k.cpri \in [Task -> 1..MaxPri]
      BY <1>1, KernelFields
<1>5. /\ r.owner[m] = NONE /\ r.mpri[m] = v
      /\ \A n \in Mtx : n # m => r.owner[n] = k.owner[n] /\ r.mpri[n] = k.mpri[n]
      BY <1>3, <1>4
<1>6. x # NONE /\ \A u \in Task : u # NONE BY Constants
<1>7. HandedAs(r, k, x, m) BY <1>3, <1>5, <1>6 DEF HandedAs
<1>8. Linked(r, X, Y, mtxatr, st) BY <1>1, <1>3 DEF Linked
<1>9. Running(r, dsp) BY <1>1, <1>3 DEF Running
<1>10. Chained(r.lockmtx, r.owner, x, M)
  <2>1. ASSUME NEW u \in Task, NEW n \in Mtx, ~(u = x /\ n \in M)
        PROVE  n \in ToSet(r.lockmtx[u]) <=> r.owner[n] = u
    <3>1. n \in ToSet(k.lockmtx[u]) <=> k.owner[n] = u BY <1>1, <2>1 DEF Chained
    <3>2. CASE n = m BY <1>3, <1>5, <1>6, <2>1, <3>1, <3>2
    <3>3. CASE n # m BY <1>3, <1>5, <3>1, <3>3
    <3> QED BY <3>2, <3>3
  <2>2. \A u \in Task : Once(r.lockmtx[u]) BY <1>1, <1>3 DEF Chained
  <2> QED BY <2>1, <2>2 DEF Chained
<1>11. \A w \in Task \ X : ~Wants(k.msts, k.wsts, w, m)
  <2>1. OffMtxq(k.mtxq, k.msts, k.wsts, k.cpri, mtxatr, X) BY <1>1 DEF Linked
  <2>2. \A w \in Task \ X : w # NONE BY <1>6
  <2> QED BY <1>1, <2>1, <2>2, MostUrgentFacts
<1>12. Backed(r, X, mtxatr)
  <2>1. ASSUME NEW n \in Mtx, r.owner[n] # NONE
        PROVE  mtxatr[n] # NONE /\ "DMT" \notin r.msts[r.owner[n]]
    <3>1. n # m /\ r.owner[n] = k.owner[n] BY <1>5, <2>1
    <3> QED BY <1>1, <1>3, <2>1, <3>1 DEF Backed
  <2>2. ASSUME NEW u \in Task \ X, NEW n \in Mtx, Wants(r.msts, r.wsts, u, n)
        PROVE  r.owner[n] # NONE
    <3>1. n # m BY <1>3, <1>11, <2>2
    <3> QED BY <1>1, <1>3, <1>5, <2>2, <3>1 DEF Backed
  <2>3. ASSUME NEW u \in Task, NEW n \in Mtx, NEW h \in Mtx,
               Wants(r.msts, r.wsts, u, n), r.owner[h] = u
        PROVE  Rank[h] < Rank[n]
    <3>1. h # m BY <1>5, <1>6, <2>3
    <3>2. k.owner[h] = u BY <1>5, <2>3, <3>1
    <3> QED BY <1>1, <1>3, <2>3, <3>2 DEF Backed
  <2> QED BY <2>1, <2>2, <2>3 DEF Backed
<1>13. Offered(r, X, mtxatr, {})
  <2>1. ASSUME NEW n \in Mtx, mtxatr[n] = "INHERIT" PROVE OfferedAt(r, X, {}, n)
    <3>1. CASE n = m BY <1>2, <1>3, <1>5, <1>11, <2>1, <3>1 DEF OfferedAt
    <3>2. CASE n # m
      <4>1. OfferedAt(k, X, {}, n) BY <1>1, <2>1 DEF Offered
      <4> QED BY <1>3, <1>5, <3>2, <4>1 DEF OfferedAt
    <3> QED BY <3>1, <3>2
  <2> QED BY <2>1 DEF Offered
<1>14. Inheriting(r, {x}, mtxatr, bpri)
  <2>1. ASSUME NEW u \in Task, u # x, "DMT" \notin r.msts[u]
        PROVE  r.cpri[u] = InheritedBy(r, mtxatr, bpri, u)
    <3>1. m \notin Held(k, u) BY <1>1, <2>1, NotHeld
    <3>2. SameLifts(r, k, mtxatr, u) BY <1>3, <1>5, <3>1 DEF Raises, SameLifts
    <3>3. InheritedBy(r, mtxatr, bpri, u) = InheritedBy(k, mtxatr, bpri, u)
          BY <1>1, <1>3, <3>2, InheritedSame
    <3> QED BY <1>1, <1>3, <2>1, <3>3 DEF Inheriting
  <2> QED BY <2>1 DEF Inheriting
<1> QED BY <1>1, <1>3, <1>7, <1>8, <1>9, <1>10, <1>12, <1>13, <1>14 DEF Part

(* The most urgent waiter t gets it, *)
GotAs(g, k, t, m, v, c) ==
    /\ g \in Kernel /\ SameRun(g, k) /\ g.wsts = k.wsts
    /\ g.rdq = k.rdq /\ g.mtxq = k.mtxq /\ g.timq = k.timq
    /\ g.msts = [k.msts EXCEPT ![t] = k.msts[t] \ {"TMR"}]
    /\ g.owner = [k.owner EXCEPT ![m] = t]
    /\ g.lockmtx = [k.lockmtx EXCEPT ![t] = <<m>> \o k.lockmtx[t]]
    /\ g.mpri = [k.mpri EXCEPT ![m] = v] /\ g.cpri = [k.cpri EXCEPT ![t] = c]

(* with the priorities it brings. *)
Lifted(k, m, t, rest, v, c) ==
    /\ mtxatr[m] = "INHERIT" => v = (IF rest = NONE THEN TMAX_TPRI ELSE k.cpri[t])
    /\ mtxatr[m] # "INHERIT" => v = k.mpri[m]
    /\ mtxatr[m] = "CEILING" =>
          c = (IF k.cpri[t] > k.mpri[m] THEN k.mpri[m] ELSE k.cpri[t])
    /\ mtxatr[m] # "CEILING" => c = k.cpri[t]

(* What the new owner gets. *)
LEMMA GotIs ==
    ASSUME NEW k \in Kernel, NEW m \in Mtx, NEW t \in Task, NEW u, t = MostUrgent(k, m),
           NEW off \in Kernel, off = Untimed(Dequeued(k, t), t), u = MostUrgent(off, m),
           off.cpri = k.cpri, off.mpri = k.mpri, NEW r, r = HandedOver(k, m)
    PROVE  \E v \in 1..TMAX_TPRI, c \in 1..MaxPri, g \in Kernel :
              GotAs(g, off, t, m, v, c) /\ Lifted(k, m, t, u, v, c) /\ r = Readied(g, t)
<1>1. /\ off.mpri \in [Mtx -> 1..TMAX_TPRI] /\ off.cpri \in [Task -> 1..MaxPri]
      /\ off.owner \in [Mtx -> Task \cup {NONE}] /\ off.lockmtx \in [Task -> Seq(Mtx)]
      /\ off.msts \in [Task -> SUBSET Flags]
      BY KernelFields
<1>2. t # NONE BY Constants
<1>3. PICK v : v = IF mtxatr[m] = "INHERIT" THEN (IF u = NONE THEN TMAX_TPRI ELSE k.cpri[t])
                   ELSE k.mpri[m]
      OBVIOUS
<1>4. PICK c : c = IF mtxatr[m] = "CEILING"
                   THEN (IF k.cpri[t] > k.mpri[m] THEN k.mpri[m] ELSE k.cpri[t])
                   ELSE k.cpri[t]
      OBVIOUS
<1>5. v \in 1..TMAX_TPRI BY <1>1, <1>3, MConstants
<1>6. c \in 1..MaxPri
  <2>1. k.cpri[t] \in 1..MaxPri /\ k.mpri[m] \in 1..TMAX_TPRI BY <1>1
  <2> QED BY <1>4, <2>1, MConstants
<1>7. PICK got : got = [off EXCEPT !.owner[m] = t, !.lockmtx[t] = <<m>> \o @,
                                   !.msts[t] = @ \ {"TMR"}]
      OBVIOUS
<1>8. PICK ow, lm, ms, mp, cp :
         /\ ow = [off.owner EXCEPT ![m] = t]
         /\ lm = [off.lockmtx EXCEPT ![t] = <<m>> \o off.lockmtx[t]]
         /\ ms = [off.msts EXCEPT ![t] = off.msts[t] \ {"TMR"}]
         /\ mp = [off.mpri EXCEPT ![m] = v] /\ cp = [off.cpri EXCEPT ![t] = c]
      OBVIOUS
<1>9. ow \in [Mtx -> Task \cup {NONE}] BY <1>1, <1>8
<1>10. lm \in [Task -> Seq(Mtx)]
  <2>1. <<m>> \o off.lockmtx[t] \in Seq(Mtx) BY <1>1, ConcatOnce
  <2> QED BY <1>1, <1>8, <2>1
<1>11. ms \in [Task -> SUBSET Flags] BY <1>1, <1>8
<1>12. mp \in [Mtx -> 1..TMAX_TPRI] BY <1>1, <1>5, <1>8
<1>13. cp \in [Task -> 1..MaxPri] BY <1>1, <1>6, <1>8
<1>14. got = [off EXCEPT !.owner = ow, !.lockmtx = lm, !.msts = ms] BY <1>7, <1>8
<1>15. got \in Kernel BY <1>9, <1>10, <1>11, <1>14 DEF Kernel
<1>16. PICK g : g = [got EXCEPT !.mpri = mp, !.cpri = cp] OBVIOUS
<1>17. g \in Kernel BY <1>12, <1>13, <1>15, <1>16 DEF Kernel
<1>18. /\ got.wsts = off.wsts /\ got.rdq = off.rdq /\ got.mtxq = off.mtxq
       /\ got.timq = off.timq /\ got.msts = ms /\ got.owner = ow /\ got.lockmtx = lm
       /\ got.mpri = off.mpri /\ got.cpri = off.cpri
       /\ got.ctcb = off.ctcb /\ got.pri = off.pri /\ got.rdsp = off.rdsp
       BY <1>14 DEF Kernel
<1>19. GotAs(g, off, t, m, v, c)
  <2>1. /\ g.wsts = got.wsts /\ g.rdq = got.rdq /\ g.mtxq = got.mtxq /\ g.timq = got.timq
        /\ g.msts = got.msts /\ g.owner = got.owner /\ g.lockmtx = got.lockmtx
        /\ g.mpri = mp /\ g.cpri = cp
        /\ g.ctcb = got.ctcb /\ g.pri = got.pri /\ g.rdsp = got.rdsp
        BY <1>15, <1>16 DEF Kernel
  <2> QED BY <1>8, <1>17, <1>18, <2>1 DEF GotAs, SameRun
<1>20. Lifted(k, m, t, u, v, c) BY <1>3, <1>4 DEF Lifted
<1>21. r = Readied(
          CASE mtxatr[m] = "INHERIT" ->
                 [got EXCEPT !.mpri[m] = IF u = NONE THEN TMAX_TPRI ELSE k.cpri[t]]
            [] mtxatr[m] = "CEILING" ->
                 [got EXCEPT !.cpri[t] = IF @ > k.mpri[m] THEN k.mpri[m] ELSE @]
            [] OTHER -> got, t)
       BY <1>2, <1>7 DEF HandedOver
<1>22. r = Readied(g, t)
  <2>1. CASE mtxatr[m] = "INHERIT"
    <3>1. [got EXCEPT !.mpri[m] = IF u = NONE THEN TMAX_TPRI ELSE k.cpri[t]]
             = [got EXCEPT !.mpri = mp]
          BY <1>3, <1>8, <1>18, <2>1
    <3>2. cp = got.cpri BY <1>1, <1>4, <1>8, <1>18, <2>1
    <3>3. g = [got EXCEPT !.mpri = mp] BY <1>15, <1>16, <3>2 DEF Kernel
    <3> QED BY <1>21, <2>1, <3>1, <3>3
  <2>2. CASE mtxatr[m] = "CEILING"
    <3>1. [got EXCEPT !.cpri[t] = IF @ > k.mpri[m] THEN k.mpri[m] ELSE @]
             = [got EXCEPT !.cpri = cp]
          BY <1>4, <1>8, <1>18, <2>2
    <3>2. mp = got.mpri BY <1>1, <1>3, <1>8, <1>18, <2>2
    <3>3. g = [got EXCEPT !.cpri = cp] BY <1>15, <1>16, <3>2 DEF Kernel
    <3> QED BY <1>21, <2>2, <3>1, <3>3
  <2>3. CASE mtxatr[m] \notin {"INHERIT", "CEILING"}
    <3>1. mp = got.mpri /\ cp = got.cpri BY <1>1, <1>3, <1>4, <1>8, <1>18, <2>3
    <3>2. g = got BY <1>15, <1>16, <3>1 DEF Kernel
    <3> QED BY <1>21, <2>3, <3>2
  <2> QED BY <2>1, <2>2, <2>3
<1> QED BY <1>5, <1>6, <1>17, <1>19, <1>20, <1>22

(* The queues of the others match. *)
LEMMA GotLinked ==
    ASSUME NEW k \in Kernel, NEW X, NEW Y, NEW st, Linked(k, X, Y, mtxatr, st),
           NEW t \in Task, t \in X, t \in Y, NEW m \in Mtx, Wants(k.msts, k.wsts, t, m),
           NEW v, NEW c \in 1..MaxPri, NEW g, GotAs(g, k, t, m, v, c)
    PROVE  Linked(g, X, Y, mtxatr, st)
<1>1. /\ g.wsts = k.wsts /\ g.rdq = k.rdq /\ g.mtxq = k.mtxq /\ g.timq = k.timq
      /\ g.msts = [k.msts EXCEPT ![t] = k.msts[t] \ {"TMR"}]
      /\ g.cpri = [k.cpri EXCEPT ![t] = c]
      BY DEF GotAs
<1>2. k.msts \in [Task -> SUBSET Flags] /\ k.cpri \in [Task -> 1..MaxPri] BY KernelFields
<1>3. /\ g.msts[t] = k.msts[t] \ {"TMR"}
      /\ \A u \in Task \ {t} : g.msts[u] = k.msts[u] /\ g.cpri[u] = k.cpri[u]
      BY <1>1, <1>2
<1>4. \A u \in Task, f \in {"WAI", "RDY", "DMT", "SUS", "FIFO"} : f \in g.msts[u] <=> f \in k.msts[u]
      BY <1>3
<1>5. \A u \in Task, n \in Mtx : Wants(g.msts, g.wsts, u, n) <=> Wants(k.msts, k.wsts, u, n)
      BY <1>1, <1>4 DEF Wants
<1>6. /\ MFlagged(k.msts, k.wsts, mtxatr) /\ OffRdq(k.rdq, k.msts, k.cpri, X)
      /\ OffMtxq(k.mtxq, k.msts, k.wsts, k.cpri, mtxatr, X) /\ OffTimq(k.timq, k.msts, st, Y)
      BY DEF Linked
<1>7. MFlagged(g.msts, g.wsts, mtxatr)
  <2>0. Flagged(k.msts, k.wsts) BY <1>6 DEF MFlagged
  <2>1. ASSUME NEW u \in Task PROVE Kind(g.msts[u])
    <3>1. CASE u = t
      <4>1. "WAI" \in k.msts[t] BY DEF Wants
      <4>2. "DMT" \notin k.msts[t] /\ "RDY" \notin k.msts[t] BY <2>0, <4>1, FlagFacts
      <4> QED BY <1>4, <3>1, <4>1, <4>2 DEF Kind
    <3>2. CASE u # t BY <1>3, <2>0, <3>2 DEF Flagged
    <3> QED BY <3>1, <3>2
  <2>2. ASSUME NEW u \in Task
        PROVE  /\ "WAI" \in g.msts[u] => g.wsts[u] # NONE
               /\ \A s \in Sem : "WAI" \in g.msts[u] /\ g.wsts[u] = s =>
                        ("FIFO" \in g.msts[u] <=> SemAttr[s] = "FIFO")
        BY <1>1, <1>4, <2>0 DEF Flagged
  <2>3. Flagged(g.msts, g.wsts) BY <2>1, <2>2 DEF Flagged
  <2>4. ASSUME NEW u \in Task, NEW n \in Mtx, Wants(g.msts, g.wsts, u, n)
        PROVE  mtxatr[n] # NONE /\ ("FIFO" \in g.msts[u] <=> mtxatr[n] = "FIFO")
        BY <1>4, <1>5, <1>6, <2>4 DEF MFlagged
  <2> QED BY <2>3, <2>4 DEF MFlagged
<1>8. OffRdq(g.rdq, g.msts, g.cpri, X)
  <2>1. \A u \in Task :
          /\ u \notin X /\ "RDY" \in g.msts[u] <=> u \notin X /\ "RDY" \in k.msts[u]
          /\ u \notin X /\ "RDY" \in k.msts[u] => g.cpri[u] = k.cpri[u]
        BY <1>3, <1>4
  <2>2. OffRdq(k.rdq, k.msts, k.cpri, X) BY <1>6
  <2>3. OffRdq(k.rdq, g.msts, g.cpri, X) BY <2>1, <2>2, MRdqStay
  <2> QED BY <1>1, <2>3
<1>9. OffMtxq(g.mtxq, g.msts, g.wsts, g.cpri, mtxatr, X)
  <2>1. ASSUME NEW u \in Task, NEW n \in Mtx
        PROVE  /\ u \notin X /\ Wants(g.msts, g.wsts, u, n) <=>
                  u \notin X /\ Wants(k.msts, k.wsts, u, n)
               /\ u \notin X /\ Wants(k.msts, k.wsts, u, n) =>
                  (mtxatr[n] = mtxatr[n] /\ (mtxatr[n] # "FIFO" => g.cpri[u] = k.cpri[u]))
        BY <1>3, <1>5
  <2>2. OffMtxq(k.mtxq, k.msts, k.wsts, k.cpri, mtxatr, X) BY <1>6
  <2>3. OffMtxq(k.mtxq, g.msts, g.wsts, g.cpri, mtxatr, X) BY <2>1, <2>2, MtxqStay
  <2> QED BY <1>1, <2>3
<1>10. OffTimq(g.timq, g.msts, st, Y)
  <2>1. \A u \in Task : u \notin Y /\ "TMR" \in g.msts[u] <=> u \notin Y /\ "TMR" \in k.msts[u]
        BY <1>3
  <2> QED BY <1>1, <1>6, <2>1, MTimqStay
<1> QED BY <1>7, <1>8, <1>9, <1>10 DEF Linked

(* A chain of one. *)
LEMMA Alone ==
    ASSUME NEW S, NEW x \in S
    PROVE  ToSet(<<x>>) = {x} /\ Once(<<x>>)
<1>1. PICK q : q = <<x>> OBVIOUS
<1>2. q \in Seq(S) /\ Len(q) = 1 /\ q[1] = x BY <1>1
<1>3. ToSet(q) = {q[j] : j \in 1..Len(q)} BY <1>2, ToSetFacts
<1>4. ToSet(q) = {x} BY <1>2, <1>3
<1>5. Once(q) BY <1>2 DEF Once
<1> QED BY <1>1, <1>4, <1>5

(* It holds m besides what it held, and is as urgent as m asks. *)
Fits(v, k, at, b, t) ==
    /\ v \in Nat /\ v <= b[t] /\ \A m \in Mtx : Raises(k, at, t, m) => v <= k.mpri[m]
    /\ \/ v = b[t]
       \/ \E m \in Mtx : Raises(k, at, t, m) /\ v = k.mpri[m]

(* A priority that fits is the one a task is to have. *)
LEMMA InheritedFits ==
    ASSUME NEW k \in Kernel, NEW at, NEW b \in [Task -> 1..MaxPri], NEW t \in Task,
           NEW v, Fits(v, k, at, b, t)
    PROVE  v = InheritedBy(k, at, b, t)
<1>1. /\ v \in Nat /\ v <= b[t] /\ \A m \in Mtx : Raises(k, at, t, m) => v <= k.mpri[m]
      /\ \/ v = b[t]
         \/ \E m \in Mtx : Raises(k, at, t, m) /\ v = k.mpri[m]
      BY DEF Fits
<1> QED BY <1>1, InheritedIs

Gets(g, k, t, m, v) ==
    /\ g \in Kernel /\ g.mpri = [k.mpri EXCEPT ![m] = v]
    /\ g.lockmtx[t] = <<m>> \o k.lockmtx[t]

(* The new owner, and everybody else, inherits what it is to inherit. *)
LEMMA GotInherits ==
    ASSUME NEW k \in Kernel, bpri \in [Task -> 1..MaxPri], NEW m \in Mtx, NEW t \in Task,
           m \notin Held(k, t), k.cpri[t] = InheritedBy(k, mtxatr, bpri, t),
           NEW u, NEW v, NEW c, Lifted(k, m, t, u, v, c), NEW g, Gets(g, k, t, m, v)
    PROVE  c = InheritedBy(g, mtxatr, bpri, t)
<1>0. /\ g \in Kernel /\ g.mpri = [k.mpri EXCEPT ![m] = v]
      /\ g.lockmtx[t] = <<m>> \o k.lockmtx[t]
      BY DEF Gets
<1>a. PICK at, b : at = mtxatr /\ b = bpri /\ b \in [Task -> 1..MaxPri] OBVIOUS
<1>b. b \in [Task -> 1..MaxPri] BY <1>a
<1> SUFFICES c = InheritedBy(g, at, b, t) BY <1>a
<1>1. /\ k.mpri \in [Mtx -> 1..TMAX_TPRI] /\ k.cpri \in [Task -> 1..MaxPri]
      /\ k.lockmtx \in [Task -> Seq(Mtx)]
      BY KernelFields
<1>2. PICK i \in 1..MaxPri : i = k.cpri[t] BY <1>1
<1>3. Held(g, t) = Held(k, t) \cup {m}
  <2>1. ToSet(<<m>> \o k.lockmtx[t]) = ToSet(<<m>>) \cup ToSet(k.lockmtx[t])
    <3>1. PICK one, q : one = <<m>> /\ q = k.lockmtx[t] OBVIOUS
    <3>2. one \in Seq(Mtx) /\ q \in Seq(Mtx) BY <1>1, <3>1
    <3>3. ToSet(one \o q) = ToSet(one) \cup ToSet(q) BY <3>2, ConcatOnce
    <3> QED BY <3>1, <3>3
  <2>2. ToSet(<<m>>) = {m} BY Alone
  <2> QED BY <1>0, <2>1, <2>2, HeldFacts
<1>4. g.mpri[m] = v /\ \A n \in Mtx : n # m => g.mpri[n] = k.mpri[n] BY <1>0, <1>1
<1>5. \A n \in Mtx : Raises(g, at, t, n) <=>
          Raises(k, at, t, n) \/ (n = m /\ at[m] \in {"INHERIT", "CEILING"})
      BY <1>3 DEF Raises
<1>6. \A n \in Mtx : Raises(k, at, t, n) => n # m BY DEF Raises
<1>7. /\ i <= b[t] /\ \A n \in Mtx : Raises(k, at, t, n) => i <= k.mpri[n]
      /\ \/ i = b[t]
         \/ \E n \in Mtx : Raises(k, at, t, n) /\ i = k.mpri[n]
      BY <1>a, <1>2, InheritedFacts
<1>8. k.mpri[m] \in Nat /\ TMAX_TPRI \in Nat /\ i \in Nat /\ i <= TMAX_TPRI /\ b[t] \in Nat
      /\ \A n \in Mtx : k.mpri[n] \in Nat
      BY <1>a, <1>1, <1>2, MConstants
<1>9. CASE at[m] = "CEILING" /\ i > k.mpri[m]
  <2>1. c = k.mpri[m] /\ v = k.mpri[m] BY <1>a, <1>2, <1>9 DEF Lifted
  <2>2. c \in Nat /\ c <= b[t] BY <1>7, <1>8, <1>9, <2>1
  <2>3. \A n \in Mtx : Raises(g, at, t, n) => c <= g.mpri[n]
        BY <1>4, <1>5, <1>6, <1>7, <1>8, <1>9, <2>1
  <2>4. Raises(g, at, t, m) /\ c = g.mpri[m] BY <1>4, <1>5, <1>9, <2>1
  <2>5. Fits(c, g, at, b, t) BY <2>2, <2>3, <2>4 DEF Fits
  <2> QED BY <1>0, <1>b, <2>5, InheritedFits
<1>10. CASE ~(at[m] = "CEILING" /\ i > k.mpri[m])
  <2>1. c = i BY <1>a, <1>2, <1>10 DEF Lifted
  <2>2. at[m] \in {"INHERIT", "CEILING"} => i <= v
    <3>1. CASE at[m] = "INHERIT" BY <1>a, <1>2, <1>8, <3>1 DEF Lifted
    <3>2. CASE at[m] = "CEILING"
      <4>1. v = k.mpri[m] BY <1>a, <3>2 DEF Lifted
      <4> QED BY <1>8, <1>10, <3>2, <4>1
    <3> QED BY <3>1, <3>2
  <2>3. \A n \in Mtx : Raises(g, at, t, n) => c <= g.mpri[n]
        BY <1>4, <1>5, <1>6, <1>7, <2>1, <2>2
  <2>4. c = b[t] \/ \E n \in Mtx : Raises(g, at, t, n) /\ c = g.mpri[n]
        BY <1>4, <1>5, <1>6, <1>7, <2>1
  <2>5. c \in Nat /\ c <= b[t] BY <1>7, <1>8, <2>1
  <2>6. Fits(c, g, at, b, t) BY <2>3, <2>4, <2>5 DEF Fits
  <2> QED BY <1>0, <1>b, <2>6, InheritedFits
<1> QED BY <1>9, <1>10

(* The task that runs is another, and runs on. *)
LEMMA GotRuns ==
    ASSUME NEW k \in Kernel, Running(k, dsp), NEW t \in Task, "WAI" \in k.msts[t],
           Flagged(k.msts, k.wsts), NEW m, NEW v, NEW c, NEW g, GotAs(g, k, t, m, v, c)
    PROVE  g.ctcb # t /\ Running(g, dsp)
<1>1. /\ g.rdq = k.rdq /\ g.ctcb = k.ctcb /\ g.pri = k.pri /\ g.rdsp = k.rdsp
      /\ g.msts = [k.msts EXCEPT ![t] = k.msts[t] \ {"TMR"}]
      /\ g.cpri = [k.cpri EXCEPT ![t] = c]
      BY DEF GotAs, SameRun
<1>2. /\ k.msts \in [Task -> SUBSET Flags] /\ k.cpri \in [Task -> 1..MaxPri]
      /\ k.ctcb \in Task \cup {NONE}
      BY KernelFields
<1>3. "RDY" \notin k.msts[t] BY FlagFacts
<1>4. t # NONE BY Constants
<1>5. k.ctcb # t BY <1>3, <1>4 DEF Running
<1>6. k.ctcb # NONE => g.msts[k.ctcb] = k.msts[k.ctcb] /\ g.cpri[k.ctcb] = k.cpri[k.ctcb]
      BY <1>1, <1>2, <1>5
<1> QED BY <1>1, <1>5, <1>6 DEF Running

(* What has become of the kernel's state when t has got mutex m.           *)
PassedAs(r, k, t, m, v, c) ==
    /\ r \in Kernel /\ r.pri = k.pri /\ r.ctcb \in {k.ctcb, NONE}
    /\ r.msts[t] \in {{"RDY"}, {"SUS"}}
    /\ \A u \in Task \ {t} : r.msts[u] = k.msts[u] /\ r.wsts[u] = k.wsts[u]
    /\ r.owner = [k.owner EXCEPT ![m] = t]
    /\ r.lockmtx = [k.lockmtx EXCEPT ![t] = <<m>> \o k.lockmtx[t]]
    /\ r.mpri = [k.mpri EXCEPT ![m] = v] /\ r.cpri = [k.cpri EXCEPT ![t] = c]

(* What HandedOver changes when somebody waits. *)
LEMMA PassedIs ==
    ASSUME NEW k \in Kernel, NEW X, NEW Y, NEW st \in [Task -> Stamp],
           Linked(k, X, Y, mtxatr, st), Running(k, dsp),
           NEW m \in Mtx, NEW t \in Task, t = MostUrgent(k, m), t \notin X, t \notin Y,
           Wants(k.msts, k.wsts, t, m), NEW r, r = HandedOver(k, m)
    PROVE  /\ Linked(r, X, Y, mtxatr, st) /\ Running(r, dsp)
           /\ \E v \in 1..TMAX_TPRI, c \in 1..MaxPri : \E u :
                 /\ PassedAs(r, k, t, m, v, c) /\ Lifted(k, m, t, u, v, c)
                 /\ u = NONE <=> \A w \in Task \ (X \cup {t}) : ~Wants(k.msts, k.wsts, w, m)
<1>1. PICK d : d = Dequeued(k, t) OBVIOUS
<1>2. OnlyMtxq(d, k) /\ Linked(d, X \cup {t}, Y, mtxatr, st) BY <1>1, DequeuedFacts
<1>3. d \in Kernel BY <1>2 DEF OnlyMtxq
<1>4. PICK off : off = Untimed(d, t) OBVIOUS
<1>5. OnlyTimq(off, d) /\ Linked(off, X \cup {t}, Y \cup {t}, mtxatr, st)
      BY <1>2, <1>3, <1>4, UntimedFacts
<1>6. /\ off \in Kernel /\ off.msts = k.msts /\ off.wsts = k.wsts /\ off.cpri = k.cpri
      /\ off.rdq = k.rdq /\ off.lockmtx = k.lockmtx /\ off.owner = k.owner /\ off.mpri = k.mpri
      /\ off.ctcb = k.ctcb /\ off.pri = k.pri /\ off.rdsp = k.rdsp
      BY <1>2, <1>5 DEF OnlyMtxq, OnlyTimq, SameTasks, SameRun, SameMtx, SameChains
<1>7. Running(off, dsp) BY <1>6 DEF Running
<1>8. PICK u : u = MostUrgent(off, m) OBVIOUS
<1>9. u = NONE <=> \A w \in Task \ (X \cup {t}) : ~Wants(k.msts, k.wsts, w, m)
  <2>1. OffMtxq(off.mtxq, off.msts, off.wsts, off.cpri, mtxatr, X \cup {t}) BY <1>5 DEF Linked
  <2>2. \/ u = NONE /\ \A w \in Task \ (X \cup {t}) : ~Wants(off.msts, off.wsts, w, m)
        \/ u # NONE /\ u \in Task \ (X \cup {t}) /\ Wants(off.msts, off.wsts, u, m)
        BY <1>6, <1>8, <2>1, MostUrgentFacts
  <2> QED BY <1>6, <2>2
<1>10. PICK v \in 1..TMAX_TPRI, c \in 1..MaxPri, g \in Kernel :
          GotAs(g, off, t, m, v, c) /\ Lifted(k, m, t, u, v, c) /\ r = Readied(g, t)
  <2>1. off = Untimed(Dequeued(k, t), t) BY <1>1, <1>4
  <2> QED BY <1>6, <1>8, <2>1, GotIs
<1>11. Wants(off.msts, off.wsts, t, m) BY <1>6
<1>12. Linked(g, X \cup {t}, Y \cup {t}, mtxatr, st)
       BY <1>5, <1>6, <1>10, <1>11, GotLinked
<1>13. g.ctcb # t /\ Running(g, dsp)
  <2>1. Flagged(off.msts, off.wsts) BY <1>5 DEF Linked, MFlagged
  <2>2. "WAI" \in off.msts[t] BY <1>11 DEF Wants
  <2> QED BY <1>6, <1>7, <1>10, <2>1, <2>2, GotRuns
<1>14. Running(r, dsp) BY <1>10, <1>13, ReadiedRuns
<1>15. /\ Linked(r, (X \cup {t}) \ {t}, (Y \cup {t}) \ {t}, mtxatr, st)
       /\ r.msts[t] \in {{"RDY"}, {"SUS"}}
       /\ \A w \in Task \ {t} : r.msts[w] = g.msts[w] /\ r.wsts[w] = g.wsts[w]
  <2>1. PICK X1, Y1 : X1 = X \cup {t} /\ Y1 = Y \cup {t} OBVIOUS
  <2>2. t \in X1 /\ t \in Y1 /\ Linked(g, X1, Y1, mtxatr, st) BY <1>12, <2>1
  <2>a. Unqueued(g, X1, Y1, t) BY <2>2 DEF Unqueued
  <2>b. ReadiedTo(r, g, X1, Y1, mtxatr, st, t) BY <1>10, <2>2, <2>a, ReadiedFacts
  <2>3. /\ Linked(r, X1 \ {t}, Y1 \ {t}, mtxatr, st)
        /\ r.msts[t] \in {{"RDY"}, {"SUS"}}
        /\ \A w \in Task \ {t} : r.msts[w] = g.msts[w] /\ r.wsts[w] = g.wsts[w]
        BY <2>b DEF ReadiedTo
  <2> QED BY <2>1, <2>3
<1>16. Linked(r, X, Y, mtxatr, st)
  <2>1. (X \cup {t}) \ {t} = X /\ (Y \cup {t}) \ {t} = Y OBVIOUS
  <2> QED BY <1>15, <2>1
<1>17. ReadiedAs(r, g, t) BY <1>10, ReadiedIs
<1>18. /\ g.wsts = off.wsts /\ g.msts = [off.msts EXCEPT ![t] = off.msts[t] \ {"TMR"}]
       /\ g.owner = [off.owner EXCEPT ![m] = t]
       /\ g.lockmtx = [off.lockmtx EXCEPT ![t] = <<m>> \o off.lockmtx[t]]
       /\ g.mpri = [off.mpri EXCEPT ![m] = v] /\ g.cpri = [off.cpri EXCEPT ![t] = c]
       /\ g.ctcb = off.ctcb /\ g.pri = off.pri
       BY <1>10 DEF GotAs, SameRun
<1>19. /\ r \in Kernel /\ r.lockmtx = g.lockmtx /\ r.owner = g.owner /\ r.mpri = g.mpri
       /\ r.cpri = g.cpri /\ r.pri = g.pri
       BY <1>17 DEF ReadiedAs, SameMtx, SameChains
<1>20. r.ctcb \in {g.ctcb, NONE} BY <1>17 DEF ReadiedAs, SameRun
<1>21. \A w \in Task \ {t} : g.msts[w] = k.msts[w] /\ g.wsts[w] = k.wsts[w]
  <2>1. k.msts \in [Task -> SUBSET Flags] BY KernelFields
  <2> QED BY <1>6, <1>18, <2>1
<1>22. PassedAs(r, k, t, m, v, c)
       BY <1>6, <1>15, <1>18, <1>19, <1>20, <1>21 DEF PassedAs
<1> QED BY <1>9, <1>10, <1>14, <1>16, <1>22

(* A mutex is passed on to the most urgent waiter, or the first. *)
LEMMA PassedFacts ==
    ASSUME NEW k, NEW X, NEW Y, NEW x \in Task, NEW M, NEW st \in [Task -> Stamp],
           bpri \in [Task -> 1..MaxPri], X \subseteq {x}, Y \subseteq {x},
           Part(k, X, Y, x, M, mtxatr, st, bpri, dsp), NEW m \in Mtx, m \in M, k.owner[m] = x,
           NEW t \in Task, t = MostUrgent(k, m), NEW r, r = HandedOver(k, m)
    PROVE  HandedAs(r, k, x, m) /\ Part(r, X, Y, x, M, mtxatr, st, bpri, dsp)
<1>1. /\ k \in Kernel /\ X \subseteq Task /\ Linked(k, X, Y, mtxatr, st) /\ Running(k, dsp)
      /\ Chained(k.lockmtx, k.owner, x, M) /\ Backed(k, X, mtxatr)
      /\ Offered(k, X, mtxatr, {}) /\ Inheriting(k, {x}, mtxatr, bpri)
      BY DEF Part
<1>2. /\ k.mpri \in [Mtx -> 1..TMAX_TPRI] /\ k.owner \in [Mtx -> Task \cup {NONE}]
      /\ k.cpri \in [Task -> 1..MaxPri] /\ k.lockmtx \in [Task -> Seq(Mtx)]
      BY <1>1, KernelFields
<1>3. x # NONE /\ \A u \in Task : u # NONE BY Constants
<1>4. /\ t \notin X /\ Wants(k.msts, k.wsts, t, m)
      /\ mtxatr[m] # "FIFO" => \A u \in Task \ X :
            Wants(k.msts, k.wsts, u, m) => k.cpri[t] <= k.cpri[u]
  <2>1. OffMtxq(k.mtxq, k.msts, k.wsts, k.cpri, mtxatr, X) BY <1>1 DEF Linked
  <2> QED BY <1>1, <1>3, <2>1, MostUrgentFacts
<1>5. t # x
  <2>1. Rank[m] \in Nat BY MConstants
  <2>2. k.owner[m] = t => Rank[m] < Rank[m] BY <1>1, <1>4 DEF Backed
  <2> QED BY <2>1, <2>2
<1>6. t \notin Y BY <1>5
<1>7. /\ Linked(r, X, Y, mtxatr, st) /\ Running(r, dsp)
      /\ \E v \in 1..TMAX_TPRI, c \in 1..MaxPri : \E u :
            /\ PassedAs(r, k, t, m, v, c) /\ Lifted(k, m, t, u, v, c)
            /\ u = NONE <=> \A w \in Task \ (X \cup {t}) : ~Wants(k.msts, k.wsts, w, m)
      BY <1>1, <1>4, <1>6, PassedIs
<1>8. PICK v, c, u :
         /\ v \in 1..TMAX_TPRI /\ c \in 1..MaxPri
         /\ PassedAs(r, k, t, m, v, c) /\ Lifted(k, m, t, u, v, c)
         /\ u = NONE <=> \A w \in Task \ (X \cup {t}) : ~Wants(k.msts, k.wsts, w, m)
      BY <1>7
<1>9. /\ r \in Kernel /\ r.pri = k.pri /\ r.ctcb \in {k.ctcb, NONE}
      /\ r.msts[t] \in {{"RDY"}, {"SUS"}}
      /\ \A w \in Task \ {t} : r.msts[w] = k.msts[w] /\ r.wsts[w] = k.wsts[w]
      /\ r.owner = [k.owner EXCEPT ![m] = t]
      /\ r.lockmtx = [k.lockmtx EXCEPT ![t] = <<m>> \o k.lockmtx[t]]
      /\ r.mpri = [k.mpri EXCEPT ![m] = v] /\ r.cpri = [k.cpri EXCEPT ![t] = c]
      BY <1>8 DEF PassedAs
<1>10. /\ r.owner[m] = t /\ r.mpri[m] = v /\ r.cpri[t] = c
       /\ \A n \in Mtx : n # m => r.owner[n] = k.owner[n] /\ r.mpri[n] = k.mpri[n]
       /\ \A w \in Task \ {t} : r.cpri[w] = k.cpri[w] /\ r.lockmtx[w] = k.lockmtx[w]
       /\ r.lockmtx[t] = <<m>> \o k.lockmtx[t]
       BY <1>2, <1>9
<1>11. HandedAs(r, k, x, m) BY <1>5, <1>9, <1>10 DEF HandedAs
<1>12. \A n \in Mtx : ~Wants(r.msts, r.wsts, t, n) BY <1>9 DEF Wants
<1>13. \A w \in Task \ {t}, n \in Mtx :
          Wants(r.msts, r.wsts, w, n) <=> Wants(k.msts, k.wsts, w, n)
       BY <1>9 DEF Wants
<1>14. \A n \in Mtx : n # m => ~Wants(k.msts, k.wsts, t, n) BY <1>4 DEF Wants
<1>15. m \notin ToSet(k.lockmtx[t]) BY <1>1, <1>3, <1>5 DEF Chained
<1>16. PICK one, q : one = <<m>> /\ q = k.lockmtx[t] OBVIOUS
<1>17. /\ one \in Seq(Mtx) /\ q \in Seq(Mtx) /\ ToSet(one) = {m} /\ Once(one) /\ Once(q)
       BY <1>1, <1>2, <1>16, Alone DEF Chained
<1>18. ToSet(one \o q) = {m} \cup ToSet(q) /\ Once(one \o q)
  <2>1. ToSet(one) \cap ToSet(q) = {} BY <1>15, <1>16, <1>17
  <2> QED BY <1>17, <2>1, ConcatOnce
<1>19. Chained(r.lockmtx, r.owner, x, M)
  <2>1. ASSUME NEW w \in Task PROVE Once(r.lockmtx[w])
    <3>1. CASE w = t BY <1>10, <1>16, <1>18, <3>1
    <3>2. CASE w # t BY <1>1, <1>10, <3>2 DEF Chained
    <3> QED BY <3>1, <3>2
  <2>2. ASSUME NEW w \in Task, NEW n \in Mtx, ~(w = x /\ n \in M)
        PROVE  n \in ToSet(r.lockmtx[w]) <=> r.owner[n] = w
    <3>1. n \in ToSet(k.lockmtx[w]) <=> k.owner[n] = w BY <1>1, <2>2 DEF Chained
    <3>2. n \in ToSet(r.lockmtx[w]) <=> n \in ToSet(k.lockmtx[w]) \/ (w = t /\ n = m)
      <4>1. CASE w = t BY <1>10, <1>16, <1>18, <4>1
      <4>2. CASE w # t BY <1>10, <4>2
      <4> QED BY <4>1, <4>2
    <3>3. CASE n = m
      <4>1. w # x BY <2>2, <3>3
      <4> QED BY <1>10, <3>1, <3>2, <3>3, <4>1
    <3>4. CASE n # m BY <1>10, <3>1, <3>2, <3>4
    <3> QED BY <3>3, <3>4
  <2> QED BY <2>1, <2>2 DEF Chained
<1>20. Backed(r, X, mtxatr)
  <2>1. ASSUME NEW n \in Mtx, r.owner[n] # NONE
        PROVE  mtxatr[n] # NONE /\ "DMT" \notin r.msts[r.owner[n]]
    <3>1. mtxatr[n] # NONE
      <4>1. k.owner[n] # NONE BY <1>3, <1>10, <2>1
      <4> QED BY <1>1, <4>1 DEF Backed
    <3>2. CASE r.owner[n] = t BY <1>9, <3>1, <3>2
    <3>3. CASE r.owner[n] # t
      <4>1. n # m /\ r.owner[n] = k.owner[n] BY <1>10, <3>3
      <4>2. r.owner[n] \in Task BY <1>2, <2>1, <4>1
      <4>3. "DMT" \notin k.msts[k.owner[n]] BY <1>1, <2>1, <4>1 DEF Backed
      <4> QED BY <1>9, <3>1, <3>3, <4>1, <4>2, <4>3
    <3> QED BY <3>2, <3>3
  <2>2. ASSUME NEW w \in Task \ X, NEW n \in Mtx, Wants(r.msts, r.wsts, w, n)
        PROVE  r.owner[n] # NONE
    <3>1. CASE n = m BY <1>3, <1>10, <3>1
    <3>2. CASE n # m
      <4>1. Wants(k.msts, k.wsts, w, n) BY <1>12, <1>13, <2>2
      <4> QED BY <1>1, <1>10, <2>2, <3>2, <4>1 DEF Backed
    <3> QED BY <3>1, <3>2
  <2>3. ASSUME NEW w \in Task, NEW n \in Mtx, NEW h \in Mtx,
               Wants(r.msts, r.wsts, w, n), r.owner[h] = w
        PROVE  Rank[h] < Rank[n]
    <3>1. w # t BY <1>12, <2>3
    <3>2. Wants(k.msts, k.wsts, w, n) BY <1>13, <2>3, <3>1
    <3>3. k.owner[h] = w BY <1>10, <2>3, <3>1
    <3> QED BY <1>1, <3>2, <3>3 DEF Backed
  <2> QED BY <2>1, <2>2, <2>3 DEF Backed
<1>21. Offered(r, X, mtxatr, {})
  <2>1. ASSUME NEW n \in Mtx, mtxatr[n] = "INHERIT" PROVE OfferedAt(r, X, {}, n)
    <3>1. CASE n = m
      <4>1. v = (IF u = NONE THEN TMAX_TPRI ELSE k.cpri[t]) BY <1>8, <2>1, <3>1 DEF Lifted
      <4>2. mtxatr[m] # "FIFO" BY <2>1, <3>1
      <4>3. ASSUME NEW w \in Task \ X, Wants(r.msts, r.wsts, w, m) PROVE v <= r.cpri[w]
        <5>1. w # t BY <1>12, <4>3
        <5>2. Wants(k.msts, k.wsts, w, m) BY <1>13, <4>3, <5>1
        <5>3. k.cpri[t] <= r.cpri[w] BY <1>4, <1>10, <4>2, <5>1, <5>2
        <5>4. u # NONE BY <1>8, <4>3, <5>1, <5>2
        <5> QED BY <4>1, <5>3, <5>4
      <4>4. ASSUME \A w \in Task \ X : ~Wants(r.msts, r.wsts, w, m) PROVE v = TMAX_TPRI
        <5>1. \A w \in Task \ (X \cup {t}) : ~Wants(k.msts, k.wsts, w, m) BY <1>13, <4>4
        <5> QED BY <1>8, <4>1, <5>1
      <4> QED BY <1>10, <3>1, <4>3, <4>4 DEF OfferedAt
    <3>2. CASE n # m
      <4>1. OfferedAt(k, X, {}, n) BY <1>1, <2>1 DEF Offered
      <4>2. \A w \in Task : Wants(r.msts, r.wsts, w, n) <=> Wants(k.msts, k.wsts, w, n)
            BY <1>12, <1>13, <1>14, <3>2
      <4>3. \A w \in Task : Wants(k.msts, k.wsts, w, n) => w # t BY <1>14, <3>2
      <4> QED BY <1>10, <3>2, <4>1, <4>2, <4>3 DEF OfferedAt
    <3> QED BY <3>1, <3>2
  <2> QED BY <2>1 DEF Offered
<1>22. Inheriting(r, {x}, mtxatr, bpri)
  <2>1. ASSUME NEW w \in Task, w # x, "DMT" \notin r.msts[w]
        PROVE  r.cpri[w] = InheritedBy(r, mtxatr, bpri, w)
    <3>1. m \notin Held(k, w) BY <1>1, <2>1, NotHeld
    <3>2. CASE w = t
      <4>1. "DMT" \notin k.msts[t]
        <5>1. Flagged(k.msts, k.wsts) BY <1>1 DEF Linked, MFlagged
        <5>2. "WAI" \in k.msts[t] BY <1>4 DEF Wants
        <5> QED BY <5>1, <5>2, FlagFacts
      <4>2. k.cpri[t] = InheritedBy(k, mtxatr, bpri, t) BY <1>1, <1>5, <4>1 DEF Inheriting
      <4>3. c = InheritedBy(r, mtxatr, bpri, t)
        <5>1. Gets(r, k, t, m, v) BY <1>9, <1>10 DEF Gets
        <5>2. m \notin Held(k, t) /\ Lifted(k, m, t, u, v, c) BY <1>8, <3>1, <3>2
        <5> QED BY <1>1, <4>2, <5>1, <5>2, GotInherits
      <4> QED BY <1>10, <3>2, <4>3
    <3>3. CASE w # t
      <4>1. SameLifts(r, k, mtxatr, w) BY <1>10, <3>1, <3>3 DEF Raises, SameLifts
      <4>2. InheritedBy(r, mtxatr, bpri, w) = InheritedBy(k, mtxatr, bpri, w)
            BY <1>1, <1>9, <4>1, InheritedSame
      <4> QED BY <1>1, <1>9, <1>10, <2>1, <3>3, <4>2 DEF Inheriting
    <3> QED BY <3>2, <3>3
  <2> QED BY <2>1 DEF Inheriting
<1> QED BY <1>1, <1>7, <1>9, <1>11, <1>19, <1>20, <1>21, <1>22 DEF Part

(* Either way a mutex has changed hands. *)
LEMMA HandedOverFacts ==
    ASSUME NEW k, NEW X, NEW Y, NEW x \in Task, NEW M, NEW st \in [Task -> Stamp],
           bpri \in [Task -> 1..MaxPri], X \subseteq {x}, Y \subseteq {x},
           Part(k, X, Y, x, M, mtxatr, st, bpri, dsp), NEW m \in Mtx, m \in M, k.owner[m] = x,
           NEW r, r = HandedOver(k, m)
    PROVE  HandedAs(r, k, x, m) /\ Part(r, X, Y, x, M, mtxatr, st, bpri, dsp)
<1>1. PICK t : t = MostUrgent(k, m) OBVIOUS
<1>2. t = NONE \/ t \in Task
  <2>1. k \in Kernel /\ Linked(k, X, Y, mtxatr, st) BY DEF Part
  <2>2. OffMtxq(k.mtxq, k.msts, k.wsts, k.cpri, mtxatr, X) BY <2>1 DEF Linked
  <2> QED BY <1>1, <2>1, <2>2, MostUrgentFacts
<1>3. CASE t = NONE BY <1>1, <1>3, FreedFacts
<1>4. CASE t \in Task BY <1>1, <1>4, PassedFacts
<1> QED BY <1>2, <1>3, <1>4

(* A chain is changed. *)
OnlyChain(r, k, x, q) ==
    /\ r \in Kernel /\ SameTasks(r, k) /\ SameRun(r, k) /\ r.owner = k.owner
    /\ r.mpri = k.mpri /\ r.cpri = k.cpri /\ r.rdq = k.rdq /\ r.mtxq = k.mtxq /\ r.timq = k.timq
    /\ r.lockmtx = [k.lockmtx EXCEPT ![x] = q]

(* Only the chain of one task changes. *)
LEMMA ChainIs ==
    ASSUME NEW k \in Kernel, NEW x \in Task, NEW q \in Seq(Mtx),
           NEW r, r = [k EXCEPT !.lockmtx[x] = q]
    PROVE  OnlyChain(r, k, x, q)
<1>1. k.lockmtx \in [Task -> Seq(Mtx)] BY KernelFields
<1>2. PICK lm : lm = [k.lockmtx EXCEPT ![x] = q] OBVIOUS
<1>3. lm \in [Task -> Seq(Mtx)] BY <1>1, <1>2
<1>4. r = [k EXCEPT !.lockmtx = lm] BY <1>2
<1> QED BY <1>2, <1>3, <1>4 DEF OnlyChain, Kernel, SameTasks, SameRun

(* Any chain that matches the owners will do. *)
LEMMA ChainKeeps ==
    ASSUME NEW k, NEW X, NEW Y, NEW x \in Task, NEW M, NEW at, NEW st, NEW b, NEW d,
           Part(k, X, Y, x, M, at, st, b, d), NEW q, NEW r, OnlyChain(r, k, x, q),
           NEW M2, Chained(r.lockmtx, r.owner, x, M2)
    PROVE  Part(r, X, Y, x, M2, at, st, b, d)
<1>1. /\ k \in Kernel /\ X \subseteq Task /\ Linked(k, X, Y, at, st) /\ Running(k, d)
      /\ Backed(k, X, at) /\ Offered(k, X, at, {}) /\ Inheriting(k, {x}, at, b)
      BY DEF Part
<1>2. /\ r \in Kernel /\ r.msts = k.msts /\ r.wsts = k.wsts /\ r.owner = k.owner
      /\ r.mpri = k.mpri /\ r.cpri = k.cpri /\ r.rdq = k.rdq /\ r.mtxq = k.mtxq
      /\ r.timq = k.timq /\ r.ctcb = k.ctcb /\ r.pri = k.pri /\ r.rdsp = k.rdsp
      /\ r.lockmtx = [k.lockmtx EXCEPT ![x] = q]
      BY DEF OnlyChain, SameTasks, SameRun
<1>3. Linked(r, X, Y, at, st) BY <1>1, <1>2 DEF Linked
<1>4. Running(r, d) BY <1>1, <1>2 DEF Running
<1>5. Backed(r, X, at) BY <1>1, <1>2 DEF Backed
<1>6. Offered(r, X, at, {}) BY <1>1, <1>2 DEF Offered, OfferedAt
<1>7. Inheriting(r, {x}, at, b)
  <2>1. ASSUME NEW u \in Task, u # x, "DMT" \notin r.msts[u]
        PROVE  r.cpri[u] = InheritedBy(r, at, b, u)
    <3>1. k.lockmtx \in [Task -> Seq(Mtx)] BY <1>1, KernelFields
    <3>2. r.lockmtx[u] = k.lockmtx[u] BY <1>2, <2>1, <3>1
    <3>3. SameLifts(r, k, at, u) BY <1>2, <3>2 DEF SameLifts
    <3>4. InheritedBy(r, at, b, u) = InheritedBy(k, at, b, u)
          BY <1>1, <1>2, <3>3, InheritedSame
    <3> QED BY <1>1, <1>2, <2>1, <3>4 DEF Inheriting
  <2> QED BY <2>1 DEF Inheriting
<1> QED BY <1>1, <1>2, <1>3, <1>4, <1>5, <1>6, <1>7 DEF Part

(* A task that ends holds nothing in the end. *)
Undone(h, k, x, chain, n) ==
    /\ h.lockmtx[x] = chain /\ h.msts[x] = k.msts[x] /\ h.wsts[x] = k.wsts[x]
    /\ h.cpri[x] = k.cpri[x] /\ h.pri = k.pri /\ h.ctcb \in {k.ctcb, NONE}
    /\ \A i \in 1..Len(chain) : h.owner[chain[i]] = x <=> i > n

Unburdened(r, k, x) ==
    /\ r.lockmtx[x] = <<>> /\ r.msts[x] = k.msts[x] /\ r.wsts[x] = k.wsts[x]
    /\ r.cpri[x] = k.cpri[x] /\ r.pri = k.pri /\ r.ctcb \in {k.ctcb, NONE}

(* One mutex of the chain is given up. *)
LEMMA NextUndone ==
    ASSUME NEW k, NEW X, NEW Y, NEW x \in Task, NEW chain \in Seq(Mtx), Once(chain),
           NEW st \in [Task -> Stamp],
           bpri \in [Task -> 1..MaxPri], X \subseteq {x}, Y \subseteq {x},
           NEW i \in 1..Len(chain), NEW h, Undone(h, k, x, chain, i - 1),
           Part(h, X, Y, x, ToSet(chain), mtxatr, st, bpri, dsp),
           NEW r, r = HandedOver(h, chain[i])
    PROVE  /\ Undone(r, k, x, chain, i)
           /\ Part(r, X, Y, x, ToSet(chain), mtxatr, st, bpri, dsp)
<1>1. PICK m \in Mtx : m = chain[i] OBVIOUS
<1>2. ToSet(chain) = {chain[j] : j \in 1..Len(chain)} BY ToSetFacts
<1>3. m \in ToSet(chain) BY <1>1, <1>2
<1>4. /\ h.lockmtx[x] = chain /\ h.msts[x] = k.msts[x] /\ h.wsts[x] = k.wsts[x]
      /\ h.cpri[x] = k.cpri[x] /\ h.pri = k.pri /\ h.ctcb \in {k.ctcb, NONE}
      /\ \A j \in 1..Len(chain) : h.owner[chain[j]] = x <=> j > i - 1
      BY DEF Undone
<1>5. h.owner[m] = x BY <1>1, <1>4
<1>6. HandedAs(r, h, x, m) /\ Part(r, X, Y, x, ToSet(chain), mtxatr, st, bpri, dsp)
      BY <1>1, <1>3, <1>5, HandedOverFacts
<1>7. /\ r.lockmtx[x] = h.lockmtx[x] /\ r.msts[x] = h.msts[x] /\ r.wsts[x] = h.wsts[x]
      /\ r.cpri[x] = h.cpri[x] /\ r.pri = h.pri /\ r.ctcb \in {h.ctcb, NONE}
      /\ r.owner[m] # x
      /\ \A n \in Mtx : n # m => r.owner[n] = h.owner[n]
      BY <1>6 DEF HandedAs
<1>8. ASSUME NEW j \in 1..Len(chain) PROVE r.owner[chain[j]] = x <=> j > i
  <2>1. chain[j] \in Mtx /\ Len(chain) \in Nat OBVIOUS
  <2>2. CASE j = i BY <1>1, <1>7, <2>2
  <2>3. CASE j # i
    <3>1. chain[j] # m BY <1>1, <2>3 DEF Once
    <3>2. r.owner[chain[j]] = h.owner[chain[j]] BY <1>7, <2>1, <3>1
    <3>3. j > i - 1 <=> j > i BY <2>1, <2>3
    <3> QED BY <1>4, <3>2, <3>3
  <2> QED BY <2>2, <2>3
<1> QED BY <1>4, <1>6, <1>7, <1>8 DEF Undone

(* And in the end all. *)
LEMMA AllHandedOverFacts ==
    ASSUME NEW k, NEW X, NEW Y, NEW x \in Task, NEW st \in [Task -> Stamp],
           bpri \in [Task -> 1..MaxPri], X \subseteq {x}, Y \subseteq {x},
           Whole(k, X, Y, mtxatr, st, bpri, dsp), NEW r, r = AllHandedOver(k, x)
    PROVE  Unburdened(r, k, x) /\ Part(r, X, Y, x, {}, mtxatr, st, bpri, dsp)
<1>1. PICK chain : chain = k.lockmtx[x] OBVIOUS
<1>2. /\ k \in Kernel /\ X \subseteq Task /\ Linked(k, X, Y, mtxatr, st) /\ Running(k, dsp)
      /\ Chained(k.lockmtx, k.owner, NONE, {}) /\ Backed(k, X, mtxatr)
      /\ Offered(k, X, mtxatr, {}) /\ Inheriting(k, {NONE}, mtxatr, bpri)
      BY DEF Whole, Part
<1>3. chain \in Seq(Mtx) /\ Once(chain) BY <1>1, <1>2, KernelFields DEF Chained
<1>4. PICK L \in Nat : L = Len(chain) BY <1>3
<1>5. x # NONE BY Constants
<1>6. PICK W : W = [n \in 0..L |-> {h \in Kernel :
         Undone(h, k, x, chain, n) /\ Part(h, X, Y, x, ToSet(chain), mtxatr, st, bpri, dsp)}]
      OBVIOUS
<1>7. ToSet(chain) = {chain[j] : j \in 1..L} BY <1>3, <1>4, ToSetFacts
<1>8. k \in W[0]
  <2>1. \A n \in Mtx : n \in ToSet(chain) <=> k.owner[n] = x BY <1>1, <1>2, <1>5 DEF Chained
  <2>2. \A i \in 1..L : chain[i] \in Mtx /\ k.owner[chain[i]] = x BY <1>3, <1>4, <1>7, <2>1
  <2>3. \A i \in 1..Len(chain) : k.owner[chain[i]] = x <=> i > 0 BY <1>4, <2>2
  <2>4. Undone(k, k, x, chain, 0) BY <1>1, <2>3 DEF Undone
  <2>5. Chained(k.lockmtx, k.owner, x, ToSet(chain)) BY <1>2, <1>5 DEF Chained
  <2>6. Inheriting(k, {x}, mtxatr, bpri) BY <1>2, Constants DEF Inheriting
  <2>7. Part(k, X, Y, x, ToSet(chain), mtxatr, st, bpri, dsp) BY <1>2, <2>5, <2>6 DEF Part
  <2>8. 0 \in 0..L BY <1>4
  <2> QED BY <1>2, <1>6, <2>4, <2>7, <2>8
<1>9. ASSUME NEW i \in 1..L, NEW h \in W[i - 1] PROVE HandedOver(h, chain[i]) \in W[i]
  <2>1. i - 1 \in 0..L /\ i \in 0..L /\ i \in 1..Len(chain) BY <1>4
  <2>2. /\ Undone(h, k, x, chain, i - 1)
        /\ Part(h, X, Y, x, ToSet(chain), mtxatr, st, bpri, dsp)
        BY <1>6, <1>9, <2>1
  <2>3. PICK s : s = HandedOver(h, chain[i]) OBVIOUS
  <2>4. /\ Undone(s, k, x, chain, i)
        /\ Part(s, X, Y, x, ToSet(chain), mtxatr, st, bpri, dsp)
        BY <1>3, <2>1, <2>2, <2>3, NextUndone
  <2>5. s \in Kernel BY <2>4 DEF Part
  <2>6. s \in W[i] BY <1>6, <2>1, <2>4, <2>5
  <2> QED BY <2>3, <2>6
<1>10. PICK f : f = [i \in 1..L |-> [h \in W[i - 1] |-> HandedOver(h, chain[i])]] OBVIOUS
<1>11. \A i \in 1..L : \A h \in W[i - 1] : f[i][h] = HandedOver(h, chain[i]) /\ f[i][h] \in W[i]
       BY <1>9, <1>10
<1>12. PICK g : Iterated(g, L, k, f) /\ \A i \in 0..L : g[i] \in W[i]
  <2>1. \A i \in 1..L : \A h \in W[i - 1] : f[i][h] \in W[i] BY <1>11
  <2> QED BY <1>4, <1>8, <2>1, Iterates
<1>13. g = [i \in 0..L |-> IF i = 0 THEN k ELSE HandedOver(g[i - 1], chain[i])]
  <2>1. ASSUME NEW i \in 0..L, i # 0 PROVE f[i][g[i - 1]] = HandedOver(g[i - 1], chain[i])
    <3>1. i \in 1..L /\ i - 1 \in 0..L BY <1>4, <2>1
    <3> QED BY <1>11, <1>12, <3>1
  <2> QED BY <1>12, <2>1 DEF Iterated
<1>14. PICK given : given = CHOOSE e :
          e = [i \in 0..L |-> IF i = 0 THEN k ELSE HandedOver(e[i - 1], chain[i])]
       OBVIOUS
<1>15. given = [i \in 0..L |-> IF i = 0 THEN k ELSE HandedOver(given[i - 1], chain[i])]
       BY <1>13, <1>14
<1>16. r = [given[L] EXCEPT !.lockmtx[x] = <<>>]
       BY <1>1, <1>4, <1>14 DEF AllHandedOver
<1>17. \A i \in 0..L : given[i] \in W[i]
  <2>1. given[0] \in W[0]
    <3>1. 0 \in 0..L BY <1>4
    <3> QED BY <1>8, <1>15, <3>1
  <2>2. ASSUME NEW i \in 1..L, given[i - 1] \in W[i - 1] PROVE given[i] \in W[i]
    <3>1. i \in 0..L /\ i # 0 BY <1>4
    <3>2. given[i] = HandedOver(given[i - 1], chain[i]) BY <1>15, <3>1
    <3> QED BY <1>9, <2>2, <3>2
  <2> QED BY <1>4, <2>1, <2>2, StaysIn
<1>18. PICK s : s = given[L] OBVIOUS
<1>19. /\ s \in Kernel /\ Undone(s, k, x, chain, L)
       /\ Part(s, X, Y, x, ToSet(chain), mtxatr, st, bpri, dsp)
  <2>1. L \in 0..L BY <1>4
  <2> QED BY <1>6, <1>17, <1>18, <2>1
<1>20. OnlyChain(r, s, x, <<>>)
  <2>1. <<>> \in Seq(Mtx) OBVIOUS
  <2> QED BY <1>16, <1>18, <1>19, <2>1, ChainIs
<1>21. /\ r.lockmtx = [s.lockmtx EXCEPT ![x] = <<>>] /\ r.owner = s.owner
       /\ r.msts = s.msts /\ r.wsts = s.wsts /\ r.cpri = s.cpri
       /\ r.pri = s.pri /\ r.ctcb = s.ctcb
       BY <1>20 DEF OnlyChain, SameTasks, SameRun
<1>22. s.lockmtx \in [Task -> Seq(Mtx)] BY <1>19, KernelFields
<1>23. r.lockmtx[x] = <<>> /\ \A u \in Task \ {x} : r.lockmtx[u] = s.lockmtx[u]
       BY <1>21, <1>22
<1>24. /\ s.lockmtx[x] = chain /\ s.msts[x] = k.msts[x] /\ s.wsts[x] = k.wsts[x]
       /\ s.cpri[x] = k.cpri[x] /\ s.pri = k.pri /\ s.ctcb \in {k.ctcb, NONE}
       /\ \A i \in 1..L : s.owner[chain[i]] = x <=> i > L
       BY <1>4, <1>19 DEF Undone
<1>25. Unburdened(r, k, x) BY <1>21, <1>23, <1>24 DEF Unburdened
<1>26. Chained(s.lockmtx, s.owner, x, ToSet(chain)) BY <1>19 DEF Part
<1>27. Chained(r.lockmtx, r.owner, x, {})
  <2>0. ToSet(<<>>) = {} /\ Once(<<>>) BY <1>3, ToSetFacts
  <2>1. ASSUME NEW u \in Task PROVE Once(r.lockmtx[u])
    <3>1. CASE u = x BY <1>23, <2>0, <3>1
    <3>2. CASE u # x BY <1>23, <1>26, <3>2 DEF Chained
    <3> QED BY <3>1, <3>2
  <2>2. ASSUME NEW u \in Task, NEW n \in Mtx
        PROVE  n \in ToSet(r.lockmtx[u]) <=> r.owner[n] = u
    <3>1. CASE u = x
      <4>1. s.owner[n] # x
        <5>1. CASE n \in ToSet(chain)
          <6>1. PICK i \in 1..L : n = chain[i] BY <1>7, <5>1
          <6>2. ~(i > L) BY <1>4
          <6> QED BY <1>24, <6>1, <6>2
        <5>2. CASE n \notin ToSet(chain) BY <1>24, <1>26, <5>2 DEF Chained
        <5> QED BY <5>1, <5>2
      <4> QED BY <1>21, <1>23, <2>0, <3>1, <4>1
    <3>2. CASE u # x BY <1>21, <1>23, <1>26, <3>2 DEF Chained
    <3> QED BY <3>1, <3>2
  <2> QED BY <2>1, <2>2 DEF Chained
<1>28. Part(r, X, Y, x, {}, mtxatr, st, bpri, dsp) BY <1>19, <1>20, <1>27, ChainKeeps
<1> QED BY <1>25, <1>28

(***************************************************************************)
(* WAITS THAT END                                                          *)
(***************************************************************************)
(* What a change of queues alone leaves as it is, *)
OnlyQueues(r, k) ==
    /\ r \in Kernel /\ SameTasks(r, k) /\ SameRun(r, k) /\ SameMtx(r, k)
    /\ r.cpri = k.cpri /\ r.rdq = k.rdq

(* Taking a task off a queue is such a change. *)
LEMMA OnlyQueuesFacts ==
    ASSUME NEW k \in Kernel, NEW r, OnlyMtxq(r, k) \/ OnlyTimq(r, k)
    PROVE  OnlyQueues(r, k)
BY DEF OnlyQueues, OnlyMtxq, OnlyTimq

(* It keeps what is said of mutexes and priorities. *)
LEMMA QueuesKeep ==
    ASSUME NEW k \in Kernel, NEW r, OnlyQueues(r, k)
    PROVE  /\ \A d : Running(k, d) => Running(r, d)
           /\ \A X, at : Backed(k, X, at) => Backed(r, X, at)
           /\ \A X, at, M : Offered(k, X, at, M) => Offered(r, X, at, M)
           /\ \A E, at, b : Inheriting(k, E, at, b) => Inheriting(r, E, at, b)
           /\ SameTasks(r, k) /\ SameRun(r, k) /\ SameMtx(r, k) /\ r.cpri = k.cpri
<1>1. /\ r \in Kernel /\ r.msts = k.msts /\ r.wsts = k.wsts /\ r.cpri = k.cpri /\ r.rdq = k.rdq
      /\ r.ctcb = k.ctcb /\ r.pri = k.pri /\ r.rdsp = k.rdsp
      /\ r.lockmtx = k.lockmtx /\ r.owner = k.owner /\ r.mpri = k.mpri
      BY DEF OnlyQueues, SameTasks, SameRun, SameMtx, SameChains
<1>2. ASSUME NEW d, Running(k, d) PROVE Running(r, d) BY <1>1, <1>2 DEF Running
<1>3. ASSUME NEW X, NEW at, Backed(k, X, at) PROVE Backed(r, X, at) BY <1>1, <1>3 DEF Backed
<1>4. ASSUME NEW X, NEW at, NEW M, Offered(k, X, at, M) PROVE Offered(r, X, at, M)
      BY <1>1, <1>4 DEF Offered, OfferedAt
<1>5. ASSUME NEW E, NEW at, NEW b, Inheriting(k, E, at, b) PROVE Inheriting(r, E, at, b)
  <2>1. ASSUME NEW u \in Task PROVE InheritedBy(r, at, b, u) = InheritedBy(k, at, b, u)
    <3>1. SameLifts(r, k, at, u) BY <1>1 DEF SameLifts
    <3> QED BY <1>1, <3>1, InheritedSame
  <2> QED BY <1>1, <1>5, <2>1 DEF Inheriting
<1>6. SameTasks(r, k) /\ SameRun(r, k) /\ SameMtx(r, k) /\ r.cpri = k.cpri
      BY DEF OnlyQueues
<1> QED BY <1>2, <1>3, <1>4, <1>5, <1>6

(* a task taken off its queues, *)
LEMMA OneMore ==
    ASSUME NEW k, NEW X, NEW at, Backed(k, X, at), NEW t, NEW m,
           \A n \in Mtx : Wants(k.msts, k.wsts, t, n) => n = m
    PROVE  Backed(k, X \cup {t}, at) /\ (Offered(k, X, at, {}) => Offered(k, X \cup {t}, at, {m}))
<1>1. Backed(k, X \cup {t}, at) BY DEF Backed
<1>2. ASSUME Offered(k, X, at, {}) PROVE Offered(k, X \cup {t}, at, {m})
  <2>1. ASSUME NEW n \in Mtx, at[n] = "INHERIT" PROVE OfferedAt(k, X \cup {t}, {m}, n)
    <3>1. OfferedAt(k, X, {}, n) BY <1>2, <2>1 DEF Offered
    <3> QED BY <3>1 DEF OfferedAt
  <2> QED BY <2>1 DEF Offered
<1> QED BY <1>1, <1>2

(* and one made ready, *)
LEMMA ReadiedKeeps ==
    ASSUME NEW k \in Kernel, NEW X, NEW Y, NEW t \in Task, Unqueued(k, X, Y, t),
           NEW r, r = Readied(k, t)
    PROVE  /\ r \in Kernel /\ SameMtx(r, k) /\ r.cpri = k.cpri /\ r.pri = k.pri
           /\ r.ctcb \in {k.ctcb, NONE}
           /\ \A at : Backed(k, X, at) => Backed(r, X \ {t}, at)
           /\ \A at, M : Offered(k, X, at, M) => Offered(r, X \ {t}, at, M)
           /\ "DMT" \notin k.msts[t] =>
                 \A E, at, b : Inheriting(k, E, at, b) => Inheriting(r, E, at, b)
<1>1. ReadiedAs(r, k, t) BY ReadiedIs
<1>2. /\ k.msts \in [Task -> SUBSET Flags] /\ k.wsts \in [Task -> Why]
      /\ k.owner \in [Mtx -> Task \cup {NONE}]
      BY KernelFields
<1>3. /\ r \in Kernel /\ SameMtx(r, k) /\ r.cpri = k.cpri /\ r.pri = k.pri
      /\ r.ctcb \in {k.ctcb, NONE}
      BY <1>1 DEF ReadiedAs, SameRun
<1>4. r.lockmtx = k.lockmtx /\ r.owner = k.owner /\ r.mpri = k.mpri
      BY <1>3 DEF SameMtx, SameChains
<1>5. PICK f \in {{"RDY"}, {"SUS"}} : r.msts = [k.msts EXCEPT ![t] = f]
      BY <1>1 DEF ReadiedAs, Marked
<1>6. r.wsts = [k.wsts EXCEPT ![t] = NONE] BY <1>1 DEF ReadiedAs, Unwaiting
<1>7. /\ r.msts[t] = f
      /\ \A u \in Task \ {t} : r.msts[u] = k.msts[u] /\ r.wsts[u] = k.wsts[u]
      BY <1>2, <1>5, <1>6
<1>8. /\ \A n \in Mtx : ~Wants(r.msts, r.wsts, t, n)
      /\ \A u \in Task \ {t}, n \in Mtx :
            Wants(r.msts, r.wsts, u, n) <=> Wants(k.msts, k.wsts, u, n)
      BY <1>7 DEF Wants
<1>9. "DMT" \notin r.msts[t] BY <1>7
<1>10. ASSUME NEW at, Backed(k, X, at) PROVE Backed(r, X \ {t}, at)
  <2>1. ASSUME NEW n \in Mtx, r.owner[n] # NONE
        PROVE  at[n] # NONE /\ "DMT" \notin r.msts[r.owner[n]]
    <3>1. at[n] # NONE /\ "DMT" \notin k.msts[k.owner[n]] BY <1>4, <1>10, <2>1 DEF Backed
    <3>2. CASE r.owner[n] = t BY <1>9, <3>1, <3>2
    <3>3. CASE r.owner[n] # t
      <4>1. r.owner[n] \in Task \ {t} BY <1>2, <1>4, <2>1, <3>3
      <4> QED BY <1>4, <1>7, <3>1, <4>1
    <3> QED BY <3>2, <3>3
  <2>2. ASSUME NEW u \in Task \ (X \ {t}), NEW n \in Mtx, Wants(r.msts, r.wsts, u, n)
        PROVE  r.owner[n] # NONE
    <3>1. u \in Task \ X /\ u # t BY <1>8, <2>2
    <3>2. Wants(k.msts, k.wsts, u, n) BY <1>8, <2>2, <3>1
    <3> QED BY <1>4, <1>10, <3>1, <3>2 DEF Backed
  <2>3. ASSUME NEW u \in Task, NEW n \in Mtx, NEW h \in Mtx,
               Wants(r.msts, r.wsts, u, n), r.owner[h] = u
        PROVE  Rank[h] < Rank[n]
    <3>1. Wants(k.msts, k.wsts, u, n) /\ k.owner[h] = u BY <1>4, <1>8, <2>3
    <3> QED BY <1>10, <3>1 DEF Backed
  <2> QED BY <2>1, <2>2, <2>3 DEF Backed
<1>11. ASSUME NEW at, NEW M, Offered(k, X, at, M) PROVE Offered(r, X \ {t}, at, M)
  <2>1. ASSUME NEW n \in Mtx, at[n] = "INHERIT" PROVE OfferedAt(r, X \ {t}, M, n)
    <3>1. OfferedAt(k, X, M, n) BY <1>11, <2>1 DEF Offered
    <3>2. \A u \in Task : u \notin X \ {t} /\ Wants(r.msts, r.wsts, u, n) <=>
                          u \notin X /\ Wants(k.msts, k.wsts, u, n)
      <4>1. t \notin X => ~Wants(k.msts, k.wsts, t, n) BY DEF Unqueued
      <4> QED BY <1>8, <4>1
    <3> QED BY <1>3, <1>4, <3>1, <3>2 DEF OfferedAt
  <2> QED BY <2>1 DEF Offered
<1>12. ASSUME "DMT" \notin k.msts[t], NEW E, NEW at, NEW b, Inheriting(k, E, at, b)
       PROVE  Inheriting(r, E, at, b)
  <2>1. ASSUME NEW u \in Task PROVE InheritedBy(r, at, b, u) = InheritedBy(k, at, b, u)
    <3>1. SameLifts(r, k, at, u) BY <1>4 DEF SameLifts
    <3> QED BY <1>3, <3>1, InheritedSame
  <2>2. \A u \in Task : "DMT" \notin r.msts[u] <=> "DMT" \notin k.msts[u]
        BY <1>7, <1>9, <1>12
  <2> QED BY <1>3, <1>12, <2>1, <2>2 DEF Inheriting
<1> QED BY <1>3, <1>10, <1>11, <1>12

(* A wait on m ends, the mutex being lost to all or to be seen to next. *)
Losing(k, X, Y, m, st) ==
    /\ k \in Kernel /\ Linked(k, X, Y, mtxatr, st) /\ Running(k, dsp)
    /\ Chained(k.lockmtx, k.owner, NONE, {}) /\ Backed(k, X, mtxatr)
    /\ Offered(k, X, mtxatr, {m}) /\ Inheriting(k, {NONE}, mtxatr, bpri)

(* A whole state is one that loses nothing. *)
LEMMA WholeLosing ==
    ASSUME NEW k, NEW X, NEW Y, NEW st, Whole(k, X, Y, mtxatr, st, bpri, dsp), NEW m
    PROVE  Losing(k, X, Y, m, st)
<1>1. Offered(k, X, mtxatr, {}) BY DEF Whole, Part
<1>2. Offered(k, X, mtxatr, {m})
  <2>1. ASSUME NEW n \in Mtx, mtxatr[n] = "INHERIT" PROVE OfferedAt(k, X, {m}, n)
        BY <1>1, <2>1 DEF Offered, OfferedAt
  <2> QED BY <2>1 DEF Offered
<1> QED BY <1>2 DEF Losing, Whole, Part

(* A waiter of m leaves the queue. *)
LEMMA LostWait ==
    ASSUME NEW k, NEW Y, NEW m \in Mtx, NEW st, Losing(k, {}, Y, m, st),
           NEW t \in Task, Wants(k.msts, k.wsts, t, m), NEW r, r = Dequeued(k, t)
    PROVE  OnlyMtxq(r, k) /\ Losing(r, {t}, Y, m, st)
<1>1. /\ k \in Kernel /\ Linked(k, {}, Y, mtxatr, st) /\ Running(k, dsp)
      /\ Chained(k.lockmtx, k.owner, NONE, {}) /\ Backed(k, {}, mtxatr)
      /\ Offered(k, {}, mtxatr, {m}) /\ Inheriting(k, {NONE}, mtxatr, bpri)
      BY DEF Losing
<1>2. PICK X : X = {} OBVIOUS
<1>3. OnlyMtxq(r, k) /\ Linked(r, X \cup {t}, Y, mtxatr, st) BY <1>1, <1>2, DequeuedFacts
<1>4. X \cup {t} = {t} BY <1>2
<1>5. Backed(k, {t}, mtxatr) BY <1>1 DEF Backed
<1>6. Offered(k, {t}, mtxatr, {m})
  <2>1. ASSUME NEW n \in Mtx, mtxatr[n] = "INHERIT" PROVE OfferedAt(k, {t}, {m}, n)
    <3>1. OfferedAt(k, {}, {m}, n) BY <1>1, <2>1 DEF Offered
    <3>2. n # m => ~Wants(k.msts, k.wsts, t, n) BY DEF Wants
    <3> QED BY <3>1, <3>2 DEF OfferedAt
  <2> QED BY <2>1 DEF Offered
<1>7. OnlyQueues(r, k) BY <1>1, <1>3, OnlyQueuesFacts
<1>8. /\ Running(r, dsp) /\ Backed(r, {t}, mtxatr) /\ Offered(r, {t}, mtxatr, {m})
      /\ Inheriting(r, {NONE}, mtxatr, bpri) /\ SameMtx(r, k)
      BY <1>1, <1>5, <1>6, <1>7, QueuesKeep
<1>9. r \in Kernel BY <1>7 DEF OnlyQueues
<1>10. Chained(r.lockmtx, r.owner, NONE, {}) BY <1>1, <1>8 DEF SameMtx, SameChains
<1> QED BY <1>3, <1>4, <1>8, <1>9, <1>10 DEF Losing

(* Its timer stops. *)
LEMMA LostTime ==
    ASSUME NEW k, NEW X, NEW Y, NEW m, NEW st \in [Task -> Stamp], Losing(k, X, Y, m, st),
           NEW t \in Task, NEW r, r = Untimed(k, t)
    PROVE  OnlyTimq(r, k) /\ Losing(r, X, Y \cup {t}, m, st)
<1>1. /\ k \in Kernel /\ Linked(k, X, Y, mtxatr, st) /\ Running(k, dsp)
      /\ Chained(k.lockmtx, k.owner, NONE, {}) /\ Backed(k, X, mtxatr)
      /\ Offered(k, X, mtxatr, {m}) /\ Inheriting(k, {NONE}, mtxatr, bpri)
      BY DEF Losing
<1>3. OnlyTimq(r, k) /\ Linked(r, X, Y \cup {t}, mtxatr, st) BY <1>1, UntimedFacts
<1>7. OnlyQueues(r, k) BY <1>1, <1>3, OnlyQueuesFacts
<1>8. /\ Running(r, dsp) /\ Backed(r, X, mtxatr) /\ Offered(r, X, mtxatr, {m})
      /\ Inheriting(r, {NONE}, mtxatr, bpri) /\ SameMtx(r, k)
      BY <1>1, <1>7, QueuesKeep
<1>9. r \in Kernel BY <1>7 DEF OnlyQueues
<1>10. Chained(r.lockmtx, r.owner, NONE, {}) BY <1>1, <1>8 DEF SameMtx, SameChains
<1> QED BY <1>3, <1>8, <1>9, <1>10 DEF Losing

(* It becomes ready. *)
LEMMA LostReadied ==
    ASSUME NEW k, NEW X, NEW Y, NEW m, NEW st \in [Task -> Stamp], Losing(k, X, Y, m, st),
           NEW t \in Task, "WAI" \in k.msts[t], Unqueued(k, X, Y, t), NEW r, r = Readied(k, t)
    PROVE  ReadiedTo(r, k, X, Y, mtxatr, st, t) /\ Losing(r, X \ {t}, Y \ {t}, m, st)
<1>1. /\ k \in Kernel /\ Linked(k, X, Y, mtxatr, st) /\ Running(k, dsp)
      /\ Chained(k.lockmtx, k.owner, NONE, {}) /\ Backed(k, X, mtxatr)
      /\ Offered(k, X, mtxatr, {m}) /\ Inheriting(k, {NONE}, mtxatr, bpri)
      BY DEF Losing
<1>2. "DMT" \notin k.msts[t] /\ "RDY" \notin k.msts[t]
  <2>1. Flagged(k.msts, k.wsts) BY <1>1 DEF Linked, MFlagged
  <2> QED BY <2>1, FlagFacts
<1>3. k.ctcb # t
  <2>1. t # NONE BY Constants
  <2> QED BY <1>1, <1>2, <2>1 DEF Running
<1>4. ReadiedTo(r, k, X, Y, mtxatr, st, t) BY <1>1, ReadiedFacts
<1>5. Running(r, dsp) BY <1>1, <1>3, ReadiedRuns
<1>6. /\ r \in Kernel /\ SameMtx(r, k) /\ Backed(r, X \ {t}, mtxatr)
      /\ Offered(r, X \ {t}, mtxatr, {m}) /\ Inheriting(r, {NONE}, mtxatr, bpri)
      BY <1>1, <1>2, ReadiedKeeps
<1>7. Linked(r, X \ {t}, Y \ {t}, mtxatr, st) BY <1>4 DEF ReadiedTo
<1>8. Chained(r.lockmtx, r.owner, NONE, {}) BY <1>1, <1>6 DEF SameMtx, SameChains
<1> QED BY <1>4, <1>5, <1>6, <1>7, <1>8 DEF Losing

(* One waiter after the other is released. *)
Unwanted(k, m) == \A u \in Task : ~Wants(k.msts, k.wsts, u, m)

(* A waiter of m is released, and nobody else. *)
LEMMA ReleasedFacts ==
    ASSUME NEW k, NEW m \in Mtx, NEW st \in [Task -> Stamp], Losing(k, {}, {}, m, st),
           NEW r, r = Released(k, m)
    PROVE  /\ Losing(r, {}, {}, m, st) /\ r.owner = k.owner
           /\ \/ Unwanted(r, m)
              \/ \E t \in Task :
                    /\ Wants(k.msts, k.wsts, t, m) /\ ~Wants(r.msts, r.wsts, t, m)
                    /\ \A u \in Task \ {t} :
                          Wants(r.msts, r.wsts, u, m) => Wants(k.msts, k.wsts, u, m)
<1>1. k \in Kernel /\ Linked(k, {}, {}, mtxatr, st) BY DEF Losing
<1>2. OffMtxq(k.mtxq, k.msts, k.wsts, k.cpri, mtxatr, {}) BY <1>1 DEF Linked
<1>3. PICK t : t = MostUrgent(k, m) OBVIOUS
<1>4. \/ t = NONE /\ \A u \in Task : ~Wants(k.msts, k.wsts, u, m)
      \/ t \in Task /\ t # NONE /\ Wants(k.msts, k.wsts, t, m)
  <2>1. PICK X : X = {} OBVIOUS
  <2>2. OffMtxq(k.mtxq, k.msts, k.wsts, k.cpri, mtxatr, X) BY <1>2, <2>1
  <2>3. \/ t = NONE /\ \A u \in Task \ X : ~Wants(k.msts, k.wsts, u, m)
        \/ t \in Task \ X /\ t # NONE /\ Wants(k.msts, k.wsts, t, m)
        BY <1>1, <1>3, <2>2, MostUrgentFacts
  <2> QED BY <2>1, <2>3
<1>5. CASE t = NONE
  <2>1. r = k BY <1>3, <1>5 DEF Released
  <2>2. Unwanted(r, m) BY <1>4, <1>5, <2>1 DEF Unwanted
  <2> QED BY <2>1, <2>2
<1>6. CASE t # NONE
  <2>0. t \in Task /\ Wants(k.msts, k.wsts, t, m) BY <1>4, <1>6
  <2>1. PICK d : d = Dequeued(k, t) OBVIOUS
  <2>2. OnlyMtxq(d, k) /\ Losing(d, {t}, {}, m, st) BY <2>0, <2>1, LostWait
  <2>3. PICK f : f = Untimed(d, t) OBVIOUS
  <2>4. OnlyTimq(f, d) /\ Losing(f, {t}, {} \cup {t}, m, st) BY <2>0, <2>2, <2>3, LostTime
  <2>5. PICK X, Y : X = {t} /\ Y = {} \cup {t} OBVIOUS
  <2>6. Losing(f, X, Y, m, st) /\ X \ {t} = {} /\ Y \ {t} = {} /\ t \in X /\ t \in Y
        BY <2>4, <2>5
  <2>7. Unqueued(f, X, Y, t) BY <2>6 DEF Unqueued
  <2>8. /\ f.msts = k.msts /\ f.wsts = k.wsts /\ f.owner = k.owner
        BY <2>2, <2>4 DEF OnlyMtxq, OnlyTimq, SameTasks, SameMtx, SameChains
  <2>9. "WAI" \in f.msts[t] BY <2>0, <2>8 DEF Wants
  <2>10. r = Readied(f, t) BY <1>3, <1>6, <2>1, <2>3 DEF Released
  <2>11. ReadiedTo(r, f, X, Y, mtxatr, st, t) /\ Losing(r, X \ {t}, Y \ {t}, m, st)
         BY <2>0, <2>6, <2>7, <2>9, <2>10, LostReadied
  <2>12. Losing(r, {}, {}, m, st) BY <2>6, <2>11
  <2>13. /\ r.msts[t] \in {{"RDY"}, {"SUS"}}
         /\ \A u \in Task \ {t} : r.msts[u] = f.msts[u] /\ r.wsts[u] = f.wsts[u]
         BY <2>11 DEF ReadiedTo
  <2>14. ~Wants(r.msts, r.wsts, t, m) BY <2>13 DEF Wants
  <2>15. \A u \in Task \ {t} : Wants(r.msts, r.wsts, u, m) => Wants(k.msts, k.wsts, u, m)
         BY <2>8, <2>13 DEF Wants
  <2>16. r.owner = k.owner
    <3>1. f \in Kernel BY <2>4 DEF OnlyTimq
    <3>2. SameMtx(r, f) BY <2>0, <2>7, <2>10, <3>1, ReadiedKeeps
    <3> QED BY <2>8, <3>2 DEF SameMtx, SameChains
  <2> QED BY <2>0, <2>12, <2>14, <2>15, <2>16
<1> QED BY <1>5, <1>6

(* After n turns n tasks have left, or nobody waits. *)
Leaves(h, k, m, st, n) ==
    /\ Losing(h, {}, {}, m, st) /\ h.owner = k.owner
    /\ \/ Unwanted(h, m)
       \/ \E S \in SUBSET Task : Cardinality(S) = n /\ \A u \in S : ~Wants(h.msts, h.wsts, u, m)

(* One waiter less is left. *)
LEMMA NextLeaves ==
    ASSUME NEW k, NEW m \in Mtx, NEW st \in [Task -> Stamp], NEW n \in Nat,
           NEW h, Leaves(h, k, m, st, n), NEW r, r = Released(h, m)
    PROVE  Leaves(r, k, m, st, n + 1)
<1>1. /\ Losing(h, {}, {}, m, st) /\ h.owner = k.owner
      /\ \/ Unwanted(h, m)
         \/ \E S \in SUBSET Task : Cardinality(S) = n /\ \A u \in S : ~Wants(h.msts, h.wsts, u, m)
      BY DEF Leaves
<1>2. /\ Losing(r, {}, {}, m, st) /\ r.owner = h.owner
      /\ \/ Unwanted(r, m)
         \/ \E t \in Task :
               /\ Wants(h.msts, h.wsts, t, m) /\ ~Wants(r.msts, r.wsts, t, m)
               /\ \A u \in Task \ {t} :
                     Wants(r.msts, r.wsts, u, m) => Wants(h.msts, h.wsts, u, m)
      BY <1>1, ReleasedFacts
<1>3. CASE Unwanted(r, m) BY <1>1, <1>2, <1>3 DEF Leaves
<1>4. CASE ~Unwanted(r, m)
  <2>1. PICK t \in Task :
           /\ Wants(h.msts, h.wsts, t, m) /\ ~Wants(r.msts, r.wsts, t, m)
           /\ \A u \in Task \ {t} : Wants(r.msts, r.wsts, u, m) => Wants(h.msts, h.wsts, u, m)
        BY <1>2, <1>4
  <2>2. PICK S \in SUBSET Task :
           Cardinality(S) = n /\ \A u \in S : ~Wants(h.msts, h.wsts, u, m)
        BY <1>1, <2>1 DEF Unwanted
  <2>3. t \notin S BY <2>1, <2>2
  <2>4. IsFiniteSet(S) BY TaskSyncAssumption, FS_Subset
  <2>5. Cardinality(S \cup {t}) = n + 1 BY <2>2, <2>3, <2>4, FS_AddElement
  <2>6. \A u \in S \cup {t} : ~Wants(r.msts, r.wsts, u, m) BY <2>1, <2>2
  <2>7. S \cup {t} \in SUBSET Task OBVIOUS
  <2>8. \E Z \in SUBSET Task :
           Cardinality(Z) = n + 1 /\ \A u \in Z : ~Wants(r.msts, r.wsts, u, m)
        BY <2>5, <2>6, <2>7
  <2> QED BY <1>1, <1>2, <2>8 DEF Leaves
<1> QED BY <1>3, <1>4

(* In the end nobody waits for m. *)
LEMMA AllReleasedFacts ==
    ASSUME NEW k, NEW m \in Mtx, NEW st \in [Task -> Stamp], Losing(k, {}, {}, m, st),
           NEW r, r = AllReleased(k, m)
    PROVE  Losing(r, {}, {}, m, st) /\ r.owner = k.owner /\ Unwanted(r, m)
<1>1. PICK L \in Nat : L = Cardinality(Task) BY MConstants
<1>2. PICK W : W = [n \in 0..L |-> {h \in Kernel : Leaves(h, k, m, st, n)}] OBVIOUS
<1>3. k \in W[0]
  <2>1. k \in Kernel BY DEF Losing
  <2>2. {} \in SUBSET Task /\ Cardinality({}) = 0 BY FS_EmptySet
  <2>3. \E S \in SUBSET Task : Cardinality(S) = 0 /\ \A u \in S : ~Wants(k.msts, k.wsts, u, m)
        BY <2>2
  <2>4. Leaves(k, k, m, st, 0) BY <2>3 DEF Leaves
  <2>5. 0 \in 0..L BY <1>1
  <2> QED BY <1>2, <2>1, <2>4, <2>5
<1>4. ASSUME NEW i \in 1..L, NEW h \in W[i - 1] PROVE Released(h, m) \in W[i]
  <2>1. i - 1 \in 0..L /\ i - 1 \in Nat /\ i \in 0..L /\ (i - 1) + 1 = i BY <1>1
  <2>2. Leaves(h, k, m, st, i - 1) BY <1>2, <1>4, <2>1
  <2>3. PICK s : s = Released(h, m) OBVIOUS
  <2>4. Leaves(s, k, m, st, (i - 1) + 1) BY <2>1, <2>2, <2>3, NextLeaves
  <2>5. Leaves(s, k, m, st, i) BY <2>1, <2>4
  <2>6. s \in Kernel BY <2>5 DEF Leaves, Losing
  <2>7. s \in W[i] BY <1>2, <2>1, <2>5, <2>6
  <2> QED BY <2>3, <2>7
<1>5. PICK f : f = [i \in 1..L |-> [h \in W[i - 1] |-> Released(h, m)]] OBVIOUS
<1>6. \A i \in 1..L : \A h \in W[i - 1] : f[i][h] = Released(h, m) /\ f[i][h] \in W[i]
      BY <1>4, <1>5
<1>7. PICK g : Iterated(g, L, k, f) /\ \A i \in 0..L : g[i] \in W[i]
  <2>1. \A i \in 1..L : \A h \in W[i - 1] : f[i][h] \in W[i] BY <1>6
  <2> QED BY <1>1, <1>3, <2>1, Iterates
<1>8. g = [i \in 0..L |-> IF i = 0 THEN k ELSE Released(g[i - 1], m)]
  <2>1. ASSUME NEW i \in 0..L, i # 0 PROVE f[i][g[i - 1]] = Released(g[i - 1], m)
    <3>1. i \in 1..L /\ i - 1 \in 0..L BY <1>1, <2>1
    <3> QED BY <1>6, <1>7, <3>1
  <2> QED BY <1>7, <2>1 DEF Iterated
<1>9. PICK released : released = CHOOSE e :
         e = [i \in 0..L |-> IF i = 0 THEN k ELSE Released(e[i - 1], m)]
      OBVIOUS
<1>10. released = [i \in 0..L |-> IF i = 0 THEN k ELSE Released(released[i - 1], m)]
       BY <1>8, <1>9
<1>11. r = released[L] BY <1>1, <1>9 DEF AllReleased
<1>12. \A i \in 0..L : released[i] \in W[i]
  <2>1. released[0] \in W[0]
    <3>1. 0 \in 0..L BY <1>1
    <3> QED BY <1>3, <1>10, <3>1
  <2>2. ASSUME NEW i \in 1..L, released[i - 1] \in W[i - 1] PROVE released[i] \in W[i]
    <3>1. i \in 0..L /\ i # 0 BY <1>1, <2>2
    <3>2. released[i] = Released(released[i - 1], m) BY <1>10, <3>1
    <3> QED BY <1>4, <2>2, <3>2
  <2> QED BY <1>1, <2>1, <2>2, StaysIn
<1>13. Leaves(r, k, m, st, L)
  <2>1. L \in 0..L BY <1>1
  <2> QED BY <1>2, <1>11, <1>12, <2>1
<1>14. Unwanted(r, m)
  <2>1. ASSUME NEW S \in SUBSET Task, Cardinality(S) = L,
               \A u \in S : ~Wants(r.msts, r.wsts, u, m)
        PROVE  Unwanted(r, m)
    <3>1. S = Task BY <1>1, <2>1, TaskSyncAssumption, FS_Subset
    <3> QED BY <2>1, <3>1 DEF Unwanted
  <2> QED BY <1>13, <2>1 DEF Leaves
<1> QED BY <1>13, <1>14 DEF Leaves

(* A wait times out. *)
EndedFor(r, k, Y, st, t) ==
    /\ Whole(r, {}, Y \ {t}, mtxatr, st, bpri, dsp)
    /\ \A u \in Task \ {t} : r.msts[u] = k.msts[u]

(* A task whose time is over becomes ready, whatever it waits for. *)
LEMMA TimedOutFacts ==
    ASSUME NEW k, NEW Y, NEW st \in [Task -> Stamp], bpri \in [Task -> 1..MaxPri],
           Whole(k, {}, Y, mtxatr, st, bpri, dsp), NEW t \in Task, t \in Y, "TMR" \in k.msts[t],
           NEW r, r = TimedOut(k, t)
    PROVE  EndedFor(r, k, Y, st, t)
<1>1. /\ k \in Kernel /\ Linked(k, {}, Y, mtxatr, st) /\ Backed(k, {}, mtxatr)
      BY DEF Whole, Part
<1>2. "WAI" \in k.msts[t] /\ "RDY" \notin k.msts[t]
  <2>1. Flagged(k.msts, k.wsts) BY <1>1 DEF Linked, MFlagged
  <2> QED BY <2>1, FlagFacts
<1>3. CASE WaitsForMtx(k, t)
  <2>1. PICK m \in Mtx : m = k.wsts[t] BY <1>3 DEF WaitsForMtx
  <2>2. Wants(k.msts, k.wsts, t, m) BY <1>2, <2>1 DEF Wants
  <2>3. Losing(k, {}, Y, m, st) BY WholeLosing
  <2>4. PICK d : d = Dequeued(k, t) OBVIOUS
  <2>5. OnlyMtxq(d, k) /\ Losing(d, {t}, Y, m, st) BY <2>2, <2>3, <2>4, LostWait
  <2>6. PICK X : X = {t} OBVIOUS
  <2>7. Losing(d, X, Y, m, st) /\ X \ {t} = {} /\ t \in X BY <2>5, <2>6
  <2>8. Unqueued(d, X, Y, t) BY <2>7 DEF Unqueued
  <2>9. d.msts = k.msts /\ d.wsts = k.wsts /\ d.owner = k.owner
        BY <2>5 DEF OnlyMtxq, SameTasks, SameMtx, SameChains
  <2>10. PICK e : e = Readied(d, t) OBVIOUS
  <2>11. ReadiedTo(e, d, X, Y, mtxatr, st, t) /\ Losing(e, X \ {t}, Y \ {t}, m, st)
         BY <1>2, <2>7, <2>8, <2>9, <2>10, LostReadied
  <2>12. PICK Z, V : Z = {} /\ V = Y \ {t} OBVIOUS
  <2>13. Losing(e, Z, V, m, st) BY <2>7, <2>11, <2>12
  <2>14. /\ e \in Kernel /\ Linked(e, Z, V, mtxatr, st) /\ Running(e, dsp)
         /\ Chained(e.lockmtx, e.owner, NONE, {}) /\ Backed(e, Z, mtxatr)
         /\ Offered(e, Z, mtxatr, {m}) /\ Inheriting(e, {NONE}, mtxatr, bpri)
         BY <2>13 DEF Losing
  <2>15. e.owner[m] # NONE
    <3>1. d \in Kernel BY <2>5 DEF OnlyMtxq
    <3>2. SameMtx(e, d) BY <2>8, <2>10, <3>1, ReadiedKeeps
    <3>3. k.owner[m] # NONE BY <1>1, <2>2 DEF Backed
    <3> QED BY <2>9, <3>2, <3>3 DEF SameMtx, SameChains
  <2>16. r = Abandoned(e, m) BY <1>3, <2>1, <2>4, <2>10 DEF TimedOut
  <2>17. Z \in SUBSET Task /\ \A y \in Z : Wants(e.msts, e.wsts, y, m) BY <2>12
  <2>18. SameTasks(r, e) /\ Whole(r, Z, V, mtxatr, st, bpri, dsp)
         BY <2>14, <2>15, <2>16, <2>17, AbandonedFacts
  <2>19. \A u \in Task \ {t} : r.msts[u] = k.msts[u]
         BY <2>9, <2>11, <2>18 DEF ReadiedTo, SameTasks
  <2> QED BY <2>12, <2>18, <2>19 DEF EndedFor
<1>4. CASE ~WaitsForMtx(k, t)
  <2>1. PICK m : m = NONE OBVIOUS
  <2>2. Losing(k, {}, Y, m, st) BY WholeLosing
  <2>3. PICK X, V : X = {} /\ V = Y \ {t} OBVIOUS
  <2>4. Losing(k, X, Y, m, st) /\ X \ {t} = X BY <2>2, <2>3
  <2>5. Unqueued(k, X, Y, t) BY <1>2, <1>4 DEF Unqueued, WaitsForMtx, Wants
  <2>6. r = Readied(k, t) BY <1>4 DEF TimedOut
  <2>7. ReadiedTo(r, k, X, Y, mtxatr, st, t) /\ Losing(r, X \ {t}, Y \ {t}, m, st)
        BY <1>2, <2>4, <2>5, <2>6, LostReadied
  <2>8. Losing(r, X, V, m, st) BY <2>3, <2>4, <2>7
  <2>9. Offered(k, {}, mtxatr, {}) BY DEF Whole, Part
  <2>10. Offered(r, X, mtxatr, {})
    <3>1. Offered(k, X, mtxatr, {}) BY <2>3, <2>9
    <3>2. Offered(r, X \ {t}, mtxatr, {}) BY <1>1, <2>5, <2>6, <3>1, ReadiedKeeps
    <3> QED BY <2>4, <3>2
  <2>11. Whole(r, X, V, mtxatr, st, bpri, dsp) BY <2>3, <2>8, <2>10 DEF Losing, Whole, Part
  <2>12. \A u \in Task \ {t} : r.msts[u] = k.msts[u] BY <2>7 DEF ReadiedTo
  <2> QED BY <2>3, <2>11, <2>12 DEF EndedFor
<1> QED BY <1>3, <1>4

(* Those at n and before have. *)
Rest(over, n) == {over[i] : i \in {j \in 1..Len(over) : j > n}}
OverSoFar(h, over, st, n) ==
    /\ Whole(h, {}, Rest(over, n), mtxatr, st, bpri, dsp)
    /\ \A i \in 1..Len(over) : i > n => "TMR" \in h.msts[over[i]]

(* One task less is left. *)
LEMMA NextOver ==
    ASSUME NEW over \in Seq(Task), Once(over), NEW st \in [Task -> Stamp],
           bpri \in [Task -> 1..MaxPri], NEW i \in 1..Len(over), NEW h,
           OverSoFar(h, over, st, i - 1), NEW r, r = TimedOut(h, over[i])
    PROVE  OverSoFar(r, over, st, i)
<1>1. PICK t \in Task : t = over[i] OBVIOUS
<1>2. Len(over) \in Nat OBVIOUS
<1>3. PICK Y : Y = Rest(over, i - 1) OBVIOUS
<1>4. /\ Whole(h, {}, Y, mtxatr, st, bpri, dsp)
      /\ \A j \in 1..Len(over) : j > i - 1 => "TMR" \in h.msts[over[j]]
      BY <1>3 DEF OverSoFar
<1>5. i > i - 1 BY <1>2
<1>6. t \in Y /\ "TMR" \in h.msts[t] BY <1>1, <1>3, <1>4, <1>5 DEF Rest
<1>a. r = TimedOut(h, t) /\ Whole(h, {}, Y, mtxatr, st, bpri, dsp) BY <1>1, <1>4
<1>b. Y \subseteq Task BY <1>3 DEF Rest
<1>c. EndedFor(r, h, Y, st, t) BY <1>6, <1>a, <1>b, TimedOutFacts
<1>7. /\ Whole(r, {}, Y \ {t}, mtxatr, st, bpri, dsp)
      /\ \A u \in Task \ {t} : r.msts[u] = h.msts[u]
      BY <1>c DEF EndedFor
<1>8. \A j \in 1..Len(over) : j > i => j > i - 1 /\ j # i BY <1>2
<1>9. \A j \in 1..Len(over) : j > i - 1 => j > i \/ j = i BY <1>2
<1>10. \A j \in 1..Len(over) : over[j] \in Task /\ (j # i => over[j] # t) BY <1>1 DEF Once
<1>11. Y \ {t} = Rest(over, i) BY <1>1, <1>3, <1>8, <1>9, <1>10 DEF Rest
<1>12. \A j \in 1..Len(over) : j > i => "TMR" \in r.msts[over[j]]
       BY <1>4, <1>7, <1>8, <1>10
<1> QED BY <1>7, <1>11, <1>12 DEF OverSoFar

(* In the end no task is left whose time is over. *)
LEMMA AllTimedOutFacts ==
    ASSUME NEW k, NEW over \in Seq(Task), Once(over), NEW st \in [Task -> Stamp],
           bpri \in [Task -> 1..MaxPri], Whole(k, {}, ToSet(over), mtxatr, st, bpri, dsp),
           \A i \in 1..Len(over) : "TMR" \in k.msts[over[i]], NEW r, r = AllTimedOut(k, over)
    PROVE  Whole(r, {}, {}, mtxatr, st, bpri, dsp)
<1>1. PICK L \in Nat : L = Len(over) OBVIOUS
<1>2. PICK W : W = [n \in 0..L |-> {h \in Kernel : OverSoFar(h, over, st, n)}] OBVIOUS
<1>3. k \in W[0]
  <2>1. k \in Kernel BY DEF Whole, Part
  <2>2. ToSet(over) = {over[i] : i \in 1..Len(over)} BY ToSetFacts
  <2>3. \A j \in 1..Len(over) : j > 0 OBVIOUS
  <2>4. Rest(over, 0) = ToSet(over) BY <2>2, <2>3 DEF Rest
  <2>5. OverSoFar(k, over, st, 0) BY <2>4 DEF OverSoFar
  <2>6. 0 \in 0..L BY <1>1
  <2> QED BY <1>2, <2>1, <2>5, <2>6
<1>4. ASSUME NEW i \in 1..L, NEW h \in W[i - 1] PROVE TimedOut(h, over[i]) \in W[i]
  <2>1. i - 1 \in 0..L /\ i \in 0..L /\ i \in 1..Len(over) BY <1>1
  <2>2. OverSoFar(h, over, st, i - 1) BY <1>2, <1>4, <2>1
  <2>3. PICK s : s = TimedOut(h, over[i]) OBVIOUS
  <2>4. OverSoFar(s, over, st, i) BY <2>1, <2>2, <2>3, NextOver
  <2>5. s \in Kernel BY <2>4 DEF OverSoFar, Whole, Part
  <2>6. s \in W[i] BY <1>2, <2>1, <2>4, <2>5
  <2> QED BY <2>3, <2>6
<1>5. PICK f : f = [i \in 1..L |-> [h \in W[i - 1] |-> TimedOut(h, over[i])]] OBVIOUS
<1>6. \A i \in 1..L : \A h \in W[i - 1] : f[i][h] = TimedOut(h, over[i]) /\ f[i][h] \in W[i]
      BY <1>4, <1>5
<1>7. PICK g : Iterated(g, L, k, f) /\ \A i \in 0..L : g[i] \in W[i]
  <2>1. \A i \in 1..L : \A h \in W[i - 1] : f[i][h] \in W[i] BY <1>6
  <2> QED BY <1>1, <1>3, <2>1, Iterates
<1>8. g = [i \in 0..L |-> IF i = 0 THEN k ELSE TimedOut(g[i - 1], over[i])]
  <2>1. ASSUME NEW i \in 0..L, i # 0 PROVE f[i][g[i - 1]] = TimedOut(g[i - 1], over[i])
    <3>1. i \in 1..L /\ i - 1 \in 0..L BY <1>1, <2>1
    <3> QED BY <1>6, <1>7, <3>1
  <2> QED BY <1>7, <2>1 DEF Iterated
<1>9. PICK ended : ended = CHOOSE e :
         e = [i \in 0..L |-> IF i = 0 THEN k ELSE TimedOut(e[i - 1], over[i])]
      OBVIOUS
<1>10. ended = [i \in 0..L |-> IF i = 0 THEN k ELSE TimedOut(ended[i - 1], over[i])]
       BY <1>8, <1>9
<1>11. r = ended[L] BY <1>1, <1>9 DEF AllTimedOut
<1>12. \A i \in 0..L : ended[i] \in W[i]
  <2>1. ended[0] \in W[0]
    <3>1. 0 \in 0..L BY <1>1
    <3> QED BY <1>3, <1>10, <3>1
  <2>2. ASSUME NEW i \in 1..L, ended[i - 1] \in W[i - 1] PROVE ended[i] \in W[i]
    <3>1. i \in 0..L /\ i # 0 BY <1>1, <2>2
    <3>2. ended[i] = TimedOut(ended[i - 1], over[i]) BY <1>10, <3>1
    <3> QED BY <1>4, <2>2, <3>2
  <2> QED BY <1>1, <2>1, <2>2, StaysIn
<1>13. OverSoFar(r, over, st, L)
  <2>1. L \in 0..L BY <1>1
  <2> QED BY <1>2, <1>11, <1>12, <2>1
<1>14. Rest(over, L) = {}
  <2>1. \A j \in 1..Len(over) : ~(j > L) BY <1>1
  <2> QED BY <2>1 DEF Rest
<1> QED BY <1>13, <1>14 DEF OverSoFar

-----------------------------------------------------------------------------
(* Callers lock mutexes in an order. *)
LockOrder == \A m, n \in Mtx : Rank[m] = Rank[n] => m = n

MTypes ==
    /\ bpri \in [Task -> 1..MaxPri]
    /\ mtxatr \in [Mtx -> {"FIFO", "TPRI", "INHERIT", "CEILING", NONE}]
    /\ act \in [Task -> 0..MaxAct] /\ wup \in [Task -> 0..MaxWup]
    /\ stime \in [Task -> Stamp] /\ systim \in Stamp /\ dsp \in BOOLEAN

(* The inductive invariant: between two services all is whole. *)
MIInv == MTypes /\ Whole(Now, {}, {}, mtxatr, stime, bpri, dsp)

-----------------------------------------------------------------------------
(* THE STEPS                                                               *)

(* The next state is k. *)
LEMMA Becomes ==
    ASSUME NEW k \in Kernel, Become(k)
    PROVE  Now' = k
<1>1. k = [msts |-> k.msts, wsts |-> k.wsts, cpri |-> k.cpri, rdq |-> k.rdq, timq |-> k.timq,
           ctcb |-> k.ctcb, pri |-> k.pri, rdsp |-> k.rdsp, lockmtx |-> k.lockmtx,
           owner |-> k.owner, mpri |-> k.mpri, mtxq |-> k.mtxq]
      BY DEF Kernel
<1> QED BY <1>1 DEF Become, Now

(* A step whose end is whole keeps the invariant. *)
LEMMA Settles ==
    ASSUME MTypes', NEW k, Become(k), Whole(k, {}, {}, mtxatr', stime', bpri', dsp')
    PROVE  MIInv'
<1>1. k \in Kernel BY DEF Whole, Part
<1>2. Now' = k BY <1>1, Becomes
<1>3. Whole(Now', {}, {}, mtxatr', stime', bpri', dsp') BY <1>2
<1> QED BY <1>3 DEF MIInv

(* A step that changes nothing keeps the invariant. *)
LEMMA MStutter == MIInv /\ UNCHANGED mvars => MIInv'
<1> SUFFICES ASSUME MIInv, UNCHANGED mvars PROVE MIInv' OBVIOUS
<1>1. Now' = Now BY DEF Now, mvars, vars, mtxvars, tcbs, queues, system
<1>2. /\ bpri' = bpri /\ mtxatr' = mtxatr /\ act' = act /\ wup' = wup /\ stime' = stime
      /\ systim' = systim /\ dsp' = dsp
      BY DEF mvars, vars, mtxvars, tcbs, queues, system
<1>3. MTypes' BY <1>2 DEF MIInv, MTypes
<1>4. Whole(Now', {}, {}, mtxatr', stime', bpri', dsp') BY <1>1, <1>2 DEF MIInv
<1> QED BY <1>3, <1>4 DEF MIInv

-----------------------------------------------------------------------------
(* THE DISPATCHER                                                          *)

(* The parts of the state of the moment. *)
LEMMA NowIs ==
    /\ Now.msts = msts /\ Now.wsts = wsts /\ Now.cpri = cpri
    /\ Now.rdq = rdq /\ Now.timq = timq /\ Now.ctcb = ctcb /\ Now.pri = pri /\ Now.rdsp = rdsp
    /\ Now.lockmtx = lockmtx /\ Now.owner = owner /\ Now.mpri = mpri /\ Now.mtxq = mtxq
BY DEF Now

(* What the invariant says of them. *)
LEMMA NowTyped ==
    ASSUME MIInv
    PROVE  /\ Now \in Kernel /\ Whole(Now, {}, {}, mtxatr, stime, bpri, dsp)
           /\ Linked(Now, {}, {}, mtxatr, stime) /\ Running(Now, dsp)
           /\ Chained(Now.lockmtx, Now.owner, NONE, {}) /\ Backed(Now, {}, mtxatr)
           /\ Offered(Now, {}, mtxatr, {}) /\ Inheriting(Now, {NONE}, mtxatr, bpri)
           /\ msts \in [Task -> SUBSET Flags] /\ wsts \in [Task -> Why]
           /\ cpri \in [Task -> 1..MaxPri] /\ rdq \in [1..MaxPri -> Seq(Task)]
           /\ timq \in Seq(Task) /\ ctcb \in Task \cup {NONE}
           /\ pri \in 1..(MaxPri + 1) /\ rdsp \in BOOLEAN
           /\ lockmtx \in [Task -> Seq(Mtx)] /\ owner \in [Mtx -> Task \cup {NONE}]
           /\ mpri \in [Mtx -> 1..TMAX_TPRI] /\ mtxq \in [Mtx -> [0..MaxPri -> Seq(Task)]]
<1>1. /\ Whole(Now, {}, {}, mtxatr, stime, bpri, dsp) /\ Now \in Kernel
      /\ Linked(Now, {}, {}, mtxatr, stime) /\ Running(Now, dsp)
      /\ Chained(Now.lockmtx, Now.owner, NONE, {}) /\ Backed(Now, {}, mtxatr)
      /\ Offered(Now, {}, mtxatr, {}) /\ Inheriting(Now, {NONE}, mtxatr, bpri)
      BY DEF MIInv, Whole, Part
<1>2. PICK k : k = Now OBVIOUS
<1>3. k \in Kernel BY <1>1, <1>2
<1>4. /\ k.msts \in [Task -> SUBSET Flags] /\ k.wsts \in [Task -> Why]
      /\ k.cpri \in [Task -> 1..MaxPri] /\ k.rdq \in [1..MaxPri -> Seq(Task)]
      /\ k.timq \in Seq(Task) /\ k.ctcb \in Task \cup {NONE}
      /\ k.pri \in 1..(MaxPri + 1) /\ k.rdsp \in BOOLEAN
      /\ k.lockmtx \in [Task -> Seq(Mtx)] /\ k.owner \in [Mtx -> Task \cup {NONE}]
      /\ k.mpri \in [Mtx -> 1..TMAX_TPRI] /\ k.mtxq \in [Mtx -> [0..MaxPri -> Seq(Task)]]
      BY <1>3, KernelFields
<1> QED BY <1>1, <1>2, <1>4, NowIs

(* A step that changes nothing of the kernel's state but counts. *)
LEMMA Counts ==
    ASSUME MIInv, UNCHANGED <<msts, wsts, cpri, rdq, timq, ctcb, pri, rdsp>>,
           UNCHANGED <<stime, systim, dsp, mtxvars>>,
           act' \in [Task -> 0..MaxAct], wup' \in [Task -> 0..MaxWup]
    PROVE  MIInv'
<1>1. Now' = Now BY DEF Now, mtxvars
<1>2. /\ bpri' = bpri /\ mtxatr' = mtxatr /\ stime' = stime
      /\ systim' = systim /\ dsp' = dsp
      BY DEF mtxvars
<1>3. MTypes' BY <1>2 DEF MIInv, MTypes
<1>4. Whole(Now', {}, {}, mtxatr', stime', bpri', dsp') BY <1>1, <1>2 DEF MIInv
<1> QED BY <1>3, <1>4 DEF MIInv

(* A step that changes no more than who runs. *)
LEMMA RunsAnew ==
    ASSUME MIInv, UNCHANGED <<msts, wsts, cpri, rdq, timq, act, wup, stime, systim, mtxvars>>,
           ctcb' \in Task \cup {NONE}, pri' \in 1..(MaxPri + 1), rdsp' \in BOOLEAN,
           dsp' \in BOOLEAN, Running(Now', dsp')
    PROVE  MIInv'
<1>1. /\ bpri' = bpri /\ mtxatr' = mtxatr /\ stime' = stime /\ systim' = systim
      /\ lockmtx' = lockmtx /\ owner' = owner /\ mpri' = mpri /\ mtxq' = mtxq
      /\ msts' = msts /\ wsts' = wsts /\ cpri' = cpri /\ rdq' = rdq /\ timq' = timq
      BY DEF mtxvars
<1>2. MTypes' BY <1>1 DEF MIInv, MTypes
<1>3. PICK k : k = Now' OBVIOUS
<1>4. /\ k.msts = msts /\ k.wsts = wsts /\ k.cpri = cpri /\ k.rdq = rdq /\ k.timq = timq
      /\ k.lockmtx = lockmtx /\ k.owner = owner /\ k.mpri = mpri /\ k.mtxq = mtxq
      BY <1>1, <1>3 DEF Now
<1>5. PICK n : n = Now OBVIOUS
<1>6. SameTasks(k, n) /\ SameMtx(k, n) /\ SameChains(k, n) /\ k.cpri = n.cpri /\ k.rdq = n.rdq
      /\ k.timq = n.timq /\ k.mtxq = n.mtxq
      BY <1>4, <1>5, NowIs DEF SameTasks, SameMtx, SameChains
<1>7. k \in Kernel
  <2>1. k = [msts |-> msts, wsts |-> wsts, cpri |-> cpri, rdq |-> rdq, timq |-> timq,
             ctcb |-> ctcb', pri |-> pri', rdsp |-> rdsp',
             lockmtx |-> lockmtx, owner |-> owner, mpri |-> mpri, mtxq |-> mtxq]
        BY <1>1, <1>3 DEF Now
  <2> QED BY <2>1, NowTyped DEF Kernel
<1>8. /\ Linked(n, {}, {}, mtxatr, stime) /\ Chained(n.lockmtx, n.owner, NONE, {})
      /\ Backed(n, {}, mtxatr) /\ Offered(n, {}, mtxatr, {})
      /\ Inheriting(n, {NONE}, mtxatr, bpri)
      BY <1>5, NowTyped
<1>9. Linked(k, {}, {}, mtxatr, stime) BY <1>6, <1>8 DEF Linked, SameTasks
<1>10. Chained(k.lockmtx, k.owner, NONE, {}) BY <1>6, <1>8 DEF SameChains
<1>11. Backed(k, {}, mtxatr) BY <1>6, <1>8, BackedSame
<1>12. Offered(k, {}, mtxatr, {}) BY <1>6, <1>8 DEF Offered, OfferedAt, SameTasks, SameMtx
<1>13. Inheriting(k, {NONE}, mtxatr, bpri)
       BY <1>6, <1>8 DEF Inheriting, InheritedBy, Lifts, Held, SameTasks, SameMtx, SameChains
<1>14. Running(k, dsp') BY <1>3
<1>15. Whole(k, {}, {}, mtxatr, stime, bpri, dsp')
       BY <1>7, <1>9, <1>10, <1>11, <1>12, <1>13, <1>14 DEF Whole, Part
<1>16. Whole(Now', {}, {}, mtxatr', stime', bpri', dsp') BY <1>1, <1>3, <1>15
<1> QED BY <1>2, <1>16 DEF MIInv

(* dis_dsp and ena_dsp. *)
LEMMA MDspStep ==
    ASSUME MIInv, DisDsp \/ EnaDsp, UNCHANGED mtxvars
    PROVE  MIInv'
<1>1. /\ UNCHANGED <<msts, wsts, cpri, rdq, timq, act, wup, stime, systim, mtxvars>>
      /\ pri' = pri /\ ctcb # NONE
      BY DEF DisDsp, EnaDsp, tcbs, queues
<1>2. ctcb' \in Task \cup {NONE} /\ dsp' \in BOOLEAN /\ rdsp' \in BOOLEAN
      BY NowTyped DEF DisDsp, EnaDsp
<1>3. PICK k : k = Now' OBVIOUS
<1>4. k.msts = msts /\ k.cpri = cpri /\ k.rdq = rdq /\ k.ctcb = ctcb' /\ k.pri = pri /\ k.rdsp = rdsp'
      BY <1>1, <1>3 DEF Now
<1>5. /\ ctcb # NONE => "RDY" \in msts[ctcb]
      /\ rdsp => dsp
      /\ ctcb # NONE /\ ~rdsp => pri = cpri[ctcb] /\ First(rdq, pri, ctcb)
      BY NowTyped, NowIs DEF Running
<1>6. Running(k, dsp')
  <2>1. CASE DisDsp BY <1>4, <1>5, <2>1 DEF DisDsp, Running
  <2>2. CASE EnaDsp BY <1>4, <1>5, <2>2 DEF EnaDsp, Running
  <2> QED BY <2>1, <2>2
<1>7. Running(Now', dsp') BY <1>3, <1>6
<1>8. pri' \in 1..(MaxPri + 1) BY <1>1, NowTyped
<1> QED BY <1>1, <1>2, <1>7, <1>8, RunsAnew

(* The head of the most urgent queue that is not empty. *)
LEMMA MHighestFirst ==
    ASSUME MIInv, Urgent # {}
    PROVE  /\ HighestReady \in Task /\ "RDY" \in msts[HighestReady]
           /\ cpri[HighestReady] \in 1..MaxPri
           /\ First(rdq, cpri[HighestReady], HighestReady)
<1>0. OffRdq(rdq, msts, cpri, {}) /\ rdq \in [1..MaxPri -> Seq(Task)]
      BY NowTyped, NowIs DEF Linked
<1>1. Urgent \in SUBSET Nat BY Constants DEF Urgent
<1>2. PICK p : p = CHOOSE k \in Urgent : \A q \in Urgent : k <= q OBVIOUS
<1>3. p \in Urgent /\ \A q \in Urgent : p <= q BY <1>1, <1>2, LeastOf
<1>4. p \in 1..MaxPri /\ rdq[p] # <<>> /\ HighestReady = Head(rdq[p])
      BY <1>2, <1>3 DEF Urgent, HighestReady
<1>5. rdq[p] \in Seq(Task) BY <1>0, <1>4
<1>6. HighestReady \in Task /\ HighestReady \in ToSet(rdq[p]) BY <1>4, <1>5, TailOnce
<1>7. "RDY" \in msts[HighestReady] /\ cpri[HighestReady] = p
      BY <1>0, <1>4, <1>6 DEF OffRdq
<1>8. ASSUME NEW q \in 1..(p - 1) PROVE rdq[q] = <<>>
  <2>1. q \in 1..MaxPri /\ ~(p <= q) BY <1>4, Constants
  <2> QED BY <1>3, <2>1 DEF Urgent
<1> QED BY <1>4, <1>6, <1>7, <1>8 DEF First

(* The dispatcher chooses. *)
LEMMA MDispatchStep ==
    ASSUME MIInv, Dispatch, UNCHANGED mtxvars
    PROVE  MIInv'
<1>1. /\ UNCHANGED <<msts, wsts, cpri, rdq, timq, act, wup, stime, systim, mtxvars>>
      /\ dsp' = dsp /\ rdsp' = rdsp /\ ctcb = NONE
      BY DEF Dispatch, tcbs, queues
<1>2. dsp' \in BOOLEAN /\ rdsp' \in BOOLEAN BY <1>1, NowTyped DEF MIInv, MTypes
<1>3. PICK k : k = Now' OBVIOUS
<1>4. k.msts = msts /\ k.cpri = cpri /\ k.rdq = rdq /\ k.ctcb = ctcb' /\ k.pri = pri' /\ k.rdsp = rdsp
      BY <1>1, <1>3 DEF Now
<1>5. (dsp => ctcb # NONE) /\ (rdsp => dsp) BY NowTyped, NowIs DEF Running
<1>6. Running(k, dsp) /\ ctcb' \in Task \cup {NONE} /\ pri' \in 1..(MaxPri + 1)
  <2>1. CASE Urgent = {}
    <3>1. pri' = MaxPri + 1 /\ ctcb' = NONE BY <1>1, <2>1 DEF Dispatch
    <3>2. MaxPri + 1 \in 1..(MaxPri + 1) BY Constants
    <3> QED BY <1>1, <1>4, <1>5, <3>1, <3>2 DEF Running
  <2>2. CASE Urgent # {}
    <3>1. PICK t : t = HighestReady OBVIOUS
    <3>2. ctcb' = t /\ pri' = cpri[t] BY <2>2, <3>1 DEF Dispatch
    <3>3. t \in Task /\ "RDY" \in msts[t] /\ cpri[t] \in 1..MaxPri /\ First(rdq, cpri[t], t)
          BY <2>2, <3>1, MHighestFirst
    <3>4. cpri[t] \in 1..(MaxPri + 1) BY <3>3, Constants
    <3> QED BY <1>1, <1>4, <1>5, <3>2, <3>3, <3>4 DEF Running
  <2> QED BY <2>1, <2>2
<1>7. Running(Now', dsp') BY <1>1, <1>3, <1>6
<1> QED BY <1>1, <1>2, <1>6, <1>7, RunsAnew

-----------------------------------------------------------------------------
(* THE START, AND A NEW MUTEX                                              *)

(* At the start no task runs and no mutex exists. *)
LEMMA MInitHolds == MInit => MIInv
<1> SUFFICES ASSUME MInit PROVE MIInv OBVIOUS
<1>1. /\ msts = [t \in Task |-> {"DMT"}] /\ wsts = [t \in Task |-> NONE] /\ cpri = Ipri
      /\ act = [t \in Task |-> 0] /\ wup = act
      /\ rdq = [p \in 1..MaxPri |-> <<>>] /\ timq = <<>>
      /\ stime = [t \in Task |-> Zero] /\ systim = Zero
      /\ ctcb = NONE /\ pri = MaxPri + 1 /\ dsp = FALSE /\ rdsp = FALSE
      /\ bpri = Ipri /\ lockmtx = [t \in Task |-> <<>>]
      /\ mtxatr = [m \in Mtx |-> NONE] /\ owner = [m \in Mtx |-> NONE]
      /\ mpri = [m \in Mtx |-> TMAX_TPRI] /\ mtxq = [m \in Mtx |-> Empty]
      BY DEF MInit, Init
<1>2. <<>> \in Seq(Task) /\ <<>> \in Seq(Mtx) OBVIOUS
<1>3. \A q : q = <<>> => Once(q) /\ ToSet(q) = {}
  <2>1. ASSUME NEW q, q = <<>> PROVE Once(q) /\ ToSet(q) = {}
    <3>1. q \in Seq(Task) /\ Len(q) = 0 BY <2>1
    <3>2. ToSet(q) = {q[i] : i \in 1..Len(q)} BY <3>1, ToSetFacts
    <3> QED BY <3>1, <3>2 DEF Once
  <2> QED BY <2>1
<1>4. Empty \in [0..MaxPri -> Seq(Task)] BY <1>2 DEF Empty
<1>5. MTypes
  <2>1. Zero \in Stamp BY WordFacts DEF Zero, Stamp, UW
  <2>2. 0 \in 0..MaxAct /\ 0 \in 0..MaxWup BY Constants
  <2>3. Ipri \in [Task -> 1..MaxPri] BY Constants
  <2> QED BY <1>1, <2>1, <2>2, <2>3 DEF MTypes
<1>6. PICK k : k = Now OBVIOUS
<1>7. /\ k.msts = msts /\ k.wsts = wsts /\ k.cpri = cpri /\ k.rdq = rdq /\ k.timq = timq
      /\ k.ctcb = ctcb /\ k.pri = pri /\ k.rdsp = rdsp
      /\ k.lockmtx = lockmtx /\ k.owner = owner /\ k.mpri = mpri /\ k.mtxq = mtxq
      BY <1>6, NowIs
<1>8. k \in Kernel
  <2>1. k = [msts |-> msts, wsts |-> wsts, cpri |-> cpri, rdq |-> rdq, timq |-> timq,
             ctcb |-> ctcb, pri |-> pri, rdsp |-> rdsp,
             lockmtx |-> lockmtx, owner |-> owner, mpri |-> mpri, mtxq |-> mtxq]
        BY <1>6 DEF Now
  <2>2. msts \in [Task -> SUBSET Flags] BY <1>1 DEF Flags
  <2>3. wsts \in [Task -> Why] BY <1>1 DEF Why
  <2>4. cpri \in [Task -> 1..MaxPri] BY <1>1, Constants
  <2>5. rdq \in [1..MaxPri -> Seq(Task)] /\ timq \in Seq(Task) BY <1>1, <1>2
  <2>6. ctcb \in Task \cup {NONE} /\ rdsp \in BOOLEAN BY <1>1
  <2>7. pri \in 1..(MaxPri + 1) BY <1>1, Constants
  <2>8. lockmtx \in [Task -> Seq(Mtx)] /\ owner \in [Mtx -> Task \cup {NONE}] BY <1>1, <1>2
  <2>9. mpri \in [Mtx -> 1..TMAX_TPRI]
    <3>1. TMAX_TPRI \in 1..TMAX_TPRI BY MConstants
    <3> QED BY <1>1, <3>1
  <2>10. mtxq \in [Mtx -> [0..MaxPri -> Seq(Task)]] BY <1>1, <1>4
  <2> QED BY <2>1, <2>2, <2>3, <2>4, <2>5, <2>6, <2>7, <2>8, <2>9, <2>10 DEF Kernel
<1>9. /\ \A t \in Task : k.msts[t] = {"DMT"} /\ k.lockmtx[t] = <<>>
      /\ \A t \in Task, m \in Mtx : ~Wants(k.msts, k.wsts, t, m)
      /\ \A m \in Mtx : k.owner[m] = NONE /\ k.mpri[m] = TMAX_TPRI /\ mtxatr[m] = NONE
      BY <1>1, <1>7 DEF Wants
<1>10. Linked(k, {}, {}, mtxatr, stime)
  <2>1. MFlagged(k.msts, k.wsts, mtxatr) BY <1>9 DEF MFlagged, Flagged, Kind
  <2>2. OffRdq(k.rdq, k.msts, k.cpri, {})
    <3>1. \A p \in 1..MaxPri : k.rdq[p] = <<>> BY <1>1, <1>7
    <3>2. \A p \in 1..MaxPri : Once(k.rdq[p]) /\ ToSet(k.rdq[p]) = {} BY <1>3, <3>1
    <3>3. \A t \in Task : "RDY" \notin k.msts[t] BY <1>9
    <3> QED BY <3>2, <3>3 DEF OffRdq
  <2>3. OffMtxq(k.mtxq, k.msts, k.wsts, k.cpri, mtxatr, {})
    <3>1. \A m \in Mtx, p \in 0..MaxPri : k.mtxq[m][p] = <<>> BY <1>1, <1>7 DEF Empty
    <3> QED BY <1>2, <1>3, <1>9, <3>1 DEF OffMtxq
  <2>4. OffTimq(k.timq, k.msts, stime, {})
    <3>1. k.timq = <<>> BY <1>1, <1>7
    <3>2. Len(k.timq) = 0 BY <3>1
    <3>3. InTime(k.timq, stime) BY <3>2 DEF InTime
    <3>4. Once(k.timq) /\ ToSet(k.timq) = {} BY <1>3, <3>1
    <3>5. \A t \in Task : "TMR" \notin k.msts[t] BY <1>9
    <3> QED BY <3>3, <3>4, <3>5 DEF OffTimq
  <2> QED BY <2>1, <2>2, <2>3, <2>4 DEF Linked
<1>11. Running(k, dsp) BY <1>1, <1>7 DEF Running
<1>12. Chained(k.lockmtx, k.owner, NONE, {})
  <2>1. ASSUME NEW t \in Task PROVE Once(k.lockmtx[t]) /\ ToSet(k.lockmtx[t]) = {}
        BY <1>2, <1>3, <1>9
  <2> QED BY <1>9, <2>1, Constants DEF Chained
<1>13. Backed(k, {}, mtxatr) BY <1>9 DEF Backed
<1>14. Offered(k, {}, mtxatr, {}) BY <1>9 DEF Offered, OfferedAt
<1>15. Inheriting(k, {NONE}, mtxatr, bpri) BY <1>9 DEF Inheriting
<1>16. Whole(k, {}, {}, mtxatr, stime, bpri, dsp)
       BY <1>8, <1>10, <1>11, <1>12, <1>13, <1>14, <1>15 DEF Whole, Part
<1> QED BY <1>5, <1>6, <1>16 DEF MIInv

(* A mutex nobody has is neither waited for nor in any chain. *)
LEMMA MCreMtxStep ==
    ASSUME MIInv, NEW m \in Mtx, NEW a \in Attr[m], CreMtx(m, a)
    PROVE  MIInv'
<1>1. /\ mtxatr[m] = NONE /\ mtxatr' = [mtxatr EXCEPT ![m] = a]
      /\ owner' = [owner EXCEPT ![m] = NONE]
      /\ mpri' = [mpri EXCEPT ![m] = IF a = "CEILING" THEN CeilPri[m] ELSE TMAX_TPRI]
      /\ mtxq' = [mtxq EXCEPT ![m] = Empty]
      /\ msts' = msts /\ wsts' = wsts /\ cpri' = cpri /\ rdq' = rdq /\ timq' = timq
      /\ ctcb' = ctcb /\ pri' = pri /\ rdsp' = rdsp /\ lockmtx' = lockmtx
      /\ bpri' = bpri /\ act' = act /\ wup' = wup /\ stime' = stime /\ systim' = systim
      /\ dsp' = dsp
      BY DEF CreMtx, vars, tcbs, queues, system
<1>2. PICK n : n = Now OBVIOUS
<1>3. n \in Kernel /\ Whole(n, {}, {}, mtxatr, stime, bpri, dsp) BY <1>2, NowTyped
<1>4. /\ Linked(n, {}, {}, mtxatr, stime) /\ Running(n, dsp)
      /\ Chained(n.lockmtx, n.owner, NONE, {}) /\ Backed(n, {}, mtxatr)
      /\ Offered(n, {}, mtxatr, {}) /\ Inheriting(n, {NONE}, mtxatr, bpri)
      BY <1>3 DEF Whole, Part
<1>5. PICK k : k = Now' OBVIOUS
<1>6. PICK v : v = IF a = "CEILING" THEN CeilPri[m] ELSE TMAX_TPRI OBVIOUS
<1>7. v \in 1..TMAX_TPRI BY <1>6, MConstants
<1>8. /\ mtxatr \in [Mtx -> {"FIFO", "TPRI", "INHERIT", "CEILING", NONE}]
      /\ a \in {"FIFO", "TPRI", "INHERIT", "CEILING"}
      BY MConstants DEF MIInv, MTypes
<1>9. \A t \in Task : ~Wants(n.msts, n.wsts, t, m) BY <1>1, <1>4 DEF Linked, MFlagged
<1>10. n.owner[m] = NONE BY <1>1, <1>4 DEF Backed
<1>11. /\ k.msts = n.msts /\ k.wsts = n.wsts /\ k.cpri = n.cpri /\ k.rdq = n.rdq
       /\ k.timq = n.timq /\ k.ctcb = n.ctcb /\ k.pri = n.pri /\ k.rdsp = n.rdsp
       /\ k.lockmtx = n.lockmtx
       /\ k.owner = [n.owner EXCEPT ![m] = NONE] /\ k.mpri = [n.mpri EXCEPT ![m] = v]
       /\ k.mtxq = [n.mtxq EXCEPT ![m] = Empty]
       BY <1>1, <1>2, <1>5, <1>6 DEF Now
<1>12. <<>> \in Seq(Task) OBVIOUS
<1>13. Empty \in [0..MaxPri -> Seq(Task)] BY <1>12 DEF Empty
<1>14. n.owner \in [Mtx -> Task \cup {NONE}] /\ n.mpri \in [Mtx -> 1..TMAX_TPRI]
       /\ n.mtxq \in [Mtx -> [0..MaxPri -> Seq(Task)]]
       BY <1>3, KernelFields
<1>15. k.owner = n.owner BY <1>10, <1>11, <1>14
<1>16. k \in Kernel
  <2>1. k = [msts |-> msts', wsts |-> wsts', cpri |-> cpri', rdq |-> rdq', timq |-> timq',
             ctcb |-> ctcb', pri |-> pri', rdsp |-> rdsp',
             lockmtx |-> lockmtx', owner |-> owner', mpri |-> mpri', mtxq |-> mtxq']
        BY <1>5 DEF Now
  <2>2. k.mpri \in [Mtx -> 1..TMAX_TPRI] BY <1>7, <1>11, <1>14
  <2>3. k.mtxq \in [Mtx -> [0..MaxPri -> Seq(Task)]] BY <1>11, <1>13, <1>14
  <2>4. k.owner \in [Mtx -> Task \cup {NONE}] BY <1>14, <1>15
  <2>5. PICK ow, mp, mq : ow = k.owner /\ mp = k.mpri /\ mq = k.mtxq OBVIOUS
  <2>6. k = [msts |-> msts, wsts |-> wsts, cpri |-> cpri, rdq |-> rdq, timq |-> timq,
             ctcb |-> ctcb, pri |-> pri, rdsp |-> rdsp,
             lockmtx |-> lockmtx, owner |-> ow, mpri |-> mp, mtxq |-> mq]
        BY <1>1, <2>1, <2>5
  <2>7. /\ ow \in [Mtx -> Task \cup {NONE}] /\ mp \in [Mtx -> 1..TMAX_TPRI]
        /\ mq \in [Mtx -> [0..MaxPri -> Seq(Task)]]
        BY <2>2, <2>3, <2>4, <2>5
  <2> QED BY <2>6, <2>7, NowTyped DEF Kernel
<1>17. PICK at : at = mtxatr' OBVIOUS
<1>18. at[m] = a /\ \A h \in Mtx : h # m => at[h] = mtxatr[h] BY <1>1, <1>8, <1>17
<1>19. Linked(k, {}, {}, at, stime)
  <2>1. MFlagged(k.msts, k.wsts, at)
    <3>1. MFlagged(n.msts, n.wsts, mtxatr) BY <1>4 DEF Linked
    <3> QED BY <1>9, <1>11, <1>18, <3>1 DEF MFlagged
  <2>2. OffRdq(k.rdq, k.msts, k.cpri, {}) BY <1>4, <1>11 DEF Linked
  <2>3. OffTimq(k.timq, k.msts, stime, {}) BY <1>4, <1>11 DEF Linked
  <2>4. OffMtxq(k.mtxq, k.msts, k.wsts, k.cpri, at, {})
    <3>1. OffMtxq(n.mtxq, n.msts, n.wsts, n.cpri, mtxatr, {}) BY <1>4 DEF Linked
    <3>2. ASSUME NEW h \in Mtx, NEW p \in 0..MaxPri
          PROVE  /\ Once(k.mtxq[h][p])
                 /\ \A t \in Task : t \in ToSet(k.mtxq[h][p]) <=>
                       t \notin {} /\ Wants(k.msts, k.wsts, t, h) /\ p = Side(h, t, at, k.cpri)
      <4>1. CASE h = m
        <5>1. PICK q : q = k.mtxq[h][p] OBVIOUS
        <5>2. q = <<>> BY <1>11, <1>14, <4>1, <5>1 DEF Empty
        <5>3. q \in Seq(Task) /\ Len(q) = 0 BY <1>12, <5>2
        <5>4. ToSet(q) = {q[i] : i \in 1..Len(q)} BY <5>3, ToSetFacts
        <5>5. ToSet(q) = {} /\ Once(q) BY <5>3, <5>4 DEF Once
        <5> QED BY <1>9, <1>11, <4>1, <5>1, <5>5
      <4>2. CASE h # m
        <5>1. k.mtxq[h] = n.mtxq[h] /\ at[h] = mtxatr[h] BY <1>11, <1>14, <1>18, <4>2
        <5> QED BY <1>11, <3>1, <5>1 DEF OffMtxq, Side
      <4> QED BY <4>1, <4>2
    <3> QED BY <3>2 DEF OffMtxq
  <2> QED BY <2>1, <2>2, <2>3, <2>4 DEF Linked
<1>20. Running(k, dsp) BY <1>4, <1>11 DEF Running
<1>21. Chained(k.lockmtx, k.owner, NONE, {}) BY <1>4, <1>11, <1>15
<1>22. Backed(k, {}, at)
  <2>1. SameTasks(k, n) /\ SameChains(k, n) BY <1>11, <1>15 DEF SameTasks, SameChains
  <2>2. Backed(k, {}, mtxatr) BY <1>4, <2>1, BackedSame
  <2> QED BY <1>10, <1>15, <1>18, <2>2 DEF Backed
<1>23. Offered(k, {}, at, {})
  <2>1. ASSUME NEW h \in Mtx, at[h] = "INHERIT" PROVE OfferedAt(k, {}, {}, h)
    <3>1. CASE h = m
      <4>1. k.mpri[m] = TMAX_TPRI BY <1>6, <1>11, <1>14, <1>18, <2>1, <3>1
      <4> QED BY <1>9, <1>11, <3>1, <4>1 DEF OfferedAt
    <3>2. CASE h # m
      <4>1. k.mpri[h] = n.mpri[h] /\ at[h] = mtxatr[h] BY <1>11, <1>14, <1>18, <3>2
      <4> QED BY <1>4, <1>11, <2>1, <4>1 DEF Offered, OfferedAt
    <3> QED BY <3>1, <3>2
  <2> QED BY <2>1 DEF Offered
<1>24. Inheriting(k, {NONE}, at, bpri)
  <2>1. ASSUME NEW t \in Task, t # NONE PROVE Lifts(k, at, t) = Lifts(n, mtxatr, t)
    <3>1. Held(k, t) = Held(n, t) BY <1>11 DEF Held
    <3>2. Held(n, t) \subseteq Mtx /\ m \notin Held(n, t)
          BY <1>3, <1>4, <1>10, <2>1, HeldFacts, NotHeld, Constants
    <3>3. \A h \in Held(n, t) : k.mpri[h] = n.mpri[h] /\ at[h] = mtxatr[h]
          BY <1>11, <1>14, <1>18, <3>2
    <3> QED BY <3>1, <3>3 DEF Lifts
  <2> QED BY <1>4, <1>11, <2>1 DEF Inheriting, InheritedBy
<1>25. Whole(k, {}, {}, at, stime, bpri, dsp)
       BY <1>16, <1>19, <1>20, <1>21, <1>22, <1>23, <1>24 DEF Whole, Part
<1>26. Whole(Now', {}, {}, mtxatr', stime', bpri', dsp') BY <1>1, <1>5, <1>17, <1>25
<1>27. MTypes' BY <1>1, <1>8 DEF MIInv, MTypes
<1> QED BY <1>26, <1>27 DEF MIInv

-----------------------------------------------------------------------------
(* A SERVICE IN SEVERAL CHANGES                                            *)

(* A selection from one task is the task, or nothing. *)
LEMMA KeepOne ==
    ASSUME NEW t \in Task, NEW S, NEW q \in Seq(Task)
    PROVE  /\ t \in S => q \o Keep(<<t>>, S) = Append(q, t)
           /\ t \notin S => q \o Keep(<<t>>, S) = q
<1>1. PICK e : e = <<>> OBVIOUS
<1>2. e \in Seq(Task) /\ Len(e) = 0 /\ Append(e, t) = <<t>> BY <1>1
<1>3. ToSet(e) = {e[i] : i \in 1..Len(e)} BY <1>2, ToSetFacts
<1>4. ToSet(e) \subseteq S BY <1>2, <1>3
<1>5. Keep(e, S) = e BY <1>2, <1>4, KeepEnds
<1>6. Keep(<<t>>, S) = IF t \in S THEN <<t>> ELSE e
  <2>1. PICK f \in Seq(Task) : f = e BY <1>2
  <2>2. Keep(Append(f, t), S) = IF t \in S THEN Append(Keep(f, S), t) ELSE Keep(f, S) BY KeepAppend
  <2> QED BY <1>2, <1>5, <2>1, <2>2
<1>7. q \o e = q BY <1>1, ConcatEmptySeq
<1>8. q \o <<t>> = Append(q, t) OBVIOUS
<1> QED BY <1>6, <1>7, <1>8

(* EnqRdq of one task is what Readied is. *)
LEMMA EnteredAs ==
    ASSUME NEW k \in Kernel, k.msts = msts, k.wsts = wsts, k.cpri = cpri', k.rdq = rdq,
           k.timq = timq', k.ctcb = ctcb, k.pri = pri, k.rdsp = rdsp,
           k.lockmtx = lockmtx', k.owner = owner', k.mpri = mpri', k.mtxq = mtxq', pri' = pri,
           NEW t \in Task, EnqRdq(<<t>>, rdq, cpri')
    PROVE  Become(Readied(k, t))
<1>1. PICK r : r = Readied(k, t) OBVIOUS
<1>2. ReadiedAs(r, k, t) BY <1>1, ReadiedIs
<1>3. PICK ts : ts = <<t>> OBVIOUS
<1>4. PICK R : R = {u \in {t} : "SUS" \notin msts[u]} OBVIOUS
<1>5. {ts[i] : i \in 1..Len(ts)} = {t}
  <2>1. ts \in Seq(Task) BY <1>3
  <2>2. ToSet(ts) = {t} BY <1>3, Alone
  <2> QED BY <2>1, <2>2, ToSetFacts
<1>6. /\ msts' = [u \in Task |-> IF u \in R THEN {"RDY"}
                                  ELSE IF u \in {t} THEN {"SUS"} ELSE msts[u]]
      /\ wsts' = [u \in Task |-> IF u \in {t} THEN NONE ELSE wsts[u]]
      /\ rdq' = [p \in 1..MaxPri |-> rdq[p] \o Keep(ts, {u \in R : cpri'[u] = p})]
      /\ IF \E u \in R : pri > cpri'[u] THEN Redispatch ELSE UNCHANGED <<ctcb, rdsp>>
  <2>1. EnqRdq(ts, rdq, cpri') BY <1>3
  <2> QED BY <1>4, <1>5, <2>1 DEF EnqRdq
<1>7. /\ msts \in [Task -> SUBSET Flags] /\ wsts \in [Task -> Why]
      /\ cpri' \in [Task -> 1..MaxPri] /\ rdq \in [1..MaxPri -> Seq(Task)]
  <2>1. /\ k.msts \in [Task -> SUBSET Flags] /\ k.wsts \in [Task -> Why]
        /\ k.cpri \in [Task -> 1..MaxPri] /\ k.rdq \in [1..MaxPri -> Seq(Task)]
        BY KernelFields
  <2> QED BY <2>1
<1>8. wsts' = r.wsts
  <2>1. r.wsts = [wsts EXCEPT ![t] = NONE] BY <1>2 DEF ReadiedAs, Unwaiting
  <2> QED BY <1>6, <1>7, <2>1
<1>9. /\ msts' = r.msts /\ rdq' = r.rdq /\ ctcb' = r.ctcb /\ rdsp' = r.rdsp
  <2>1. CASE "SUS" \in msts[t]
    <3>1. R = {} BY <1>4, <2>1
    <3>2. Marked(r, k, t, {"SUS"}) /\ r.rdq = rdq /\ SameRun(r, k)
          BY <1>2, <2>1 DEF ReadiedAs
    <3>3. msts' = r.msts BY <1>6, <1>7, <3>1, <3>2 DEF Marked
    <3>4. \A p \in 1..MaxPri : rdq'[p] = rdq[p]
      <4>1. ASSUME NEW p \in 1..MaxPri PROVE rdq[p] \o Keep(ts, {u \in R : cpri'[u] = p}) = rdq[p]
        <5>1. t \notin {u \in R : cpri'[u] = p} /\ rdq[p] \in Seq(Task) BY <1>7, <3>1
        <5> QED BY <1>3, <5>1, KeepOne
      <4> QED BY <1>6, <4>1
    <3>5. rdq' = rdq BY <1>6, <1>7, <3>4
    <3> QED BY <1>6, <3>1, <3>2, <3>3, <3>5 DEF SameRun
  <2>2. CASE "SUS" \notin msts[t]
    <3>1. R = {t} BY <1>4, <2>2
    <3>2. /\ Marked(r, k, t, {"RDY"}) /\ Appended(r.rdq, rdq, k.cpri[t], t)
          /\ ~(k.pri > k.cpri[t]) => SameRun(r, k)
          /\ k.pri > k.cpri[t] /\ dsp => r.rdsp = TRUE /\ r.ctcb = k.ctcb
          /\ k.pri > k.cpri[t] /\ ~dsp => r.ctcb = NONE /\ r.rdsp = k.rdsp
          BY <1>2, <2>2 DEF ReadiedAs
    <3>3. msts' = r.msts BY <1>6, <1>7, <3>1, <3>2 DEF Marked
    <3>4. ASSUME NEW p \in 1..MaxPri
          PROVE  rdq[p] \o Keep(ts, {u \in R : cpri'[u] = p})
                     = IF p = cpri'[t] THEN Append(rdq[p], t) ELSE rdq[p]
      <4>1. PICK S : S = {u \in R : cpri'[u] = p} OBVIOUS
      <4>2. rdq[p] \in Seq(Task) /\ (t \in S <=> p = cpri'[t]) BY <1>7, <3>1, <4>1
      <4>3. PICK q \in Seq(Task) : q = rdq[p] BY <4>2
      <4>4. /\ t \in S => q \o Keep(ts, S) = Append(q, t)
            /\ t \notin S => q \o Keep(ts, S) = q
            BY <1>3, KeepOne
      <4> QED BY <4>1, <4>2, <4>3, <4>4
    <3>5. PICK c \in 1..MaxPri : c = cpri'[t] BY <1>7
    <3>6. rdq' = [p \in 1..MaxPri |-> IF p = c THEN Append(rdq[p], t) ELSE rdq[p]]
          BY <1>6, <3>4, <3>5
    <3>7. r.rdq = [rdq EXCEPT ![c] = Append(@, t)] BY <3>2, <3>5 DEF Appended
    <3>8. rdq' = r.rdq BY <1>7, <3>6, <3>7
    <3>9. (\E u \in R : pri > cpri'[u]) <=> pri > c BY <3>1, <3>5
    <3>10. ctcb' = r.ctcb /\ rdsp' = r.rdsp
      <4>1. CASE pri > c
        <5>1. Redispatch BY <1>6, <3>9, <4>1
        <5>2. k.pri > k.cpri[t] BY <3>5, <4>1
        <5>3. CASE dsp BY <3>2, <5>1, <5>2, <5>3 DEF Redispatch
        <5>4. CASE ~dsp BY <3>2, <5>1, <5>2, <5>4 DEF Redispatch
        <5> QED BY <5>3, <5>4
      <4>2. CASE ~(pri > c)
        <5>1. UNCHANGED <<ctcb, rdsp>> BY <1>6, <3>9, <4>2
        <5>2. SameRun(r, k) BY <3>2, <3>5, <4>2
        <5> QED BY <5>1, <5>2 DEF SameRun
      <4> QED BY <4>1, <4>2
    <3> QED BY <3>3, <3>8, <3>10
  <2> QED BY <2>1, <2>2
<1>10. /\ cpri' = r.cpri /\ timq' = r.timq /\ pri' = r.pri
       /\ lockmtx' = r.lockmtx /\ owner' = r.owner /\ mpri' = r.mpri /\ mtxq' = r.mtxq
       BY <1>2 DEF ReadiedAs, SameMtx, SameChains
<1> QED BY <1>1, <1>8, <1>9, <1>10 DEF Become

(* All that is said of a record but who runs. *)
Calm(k, X, Y, x, at, st, b) ==
    /\ k \in Kernel /\ X \subseteq Task /\ Linked(k, X, Y, at, st)
    /\ Chained(k.lockmtx, k.owner, x, {}) /\ Backed(k, X, at)
    /\ Offered(k, X, at, {}) /\ Inheriting(k, {x}, at, b)

(* A calm state that runs is whole, *)
LEMMA CalmAndRunning ==
    ASSUME NEW k, NEW X, NEW Y, NEW x, NEW at, NEW st, NEW b, NEW d
    PROVE  Part(k, X, Y, x, {}, at, st, b, d) <=> Calm(k, X, Y, x, at, st, b) /\ Running(k, d)
BY DEF Part, Calm

(* and a whole state is calm. *)
LEMMA WholeIs ==
    ASSUME NEW k, NEW X, NEW Y, NEW at, NEW st, NEW b, NEW d
    PROVE  Whole(k, X, Y, at, st, b, d) <=> Calm(k, X, Y, NONE, at, st, b) /\ Running(k, d)
BY CalmAndRunning DEF Whole

(* A task that is off its queues becomes ready. *)
LEMMA ReadiedCalm ==
    ASSUME NEW k, NEW X, NEW Y, NEW at, NEW st \in [Task -> Stamp], NEW b,
           Calm(k, X, Y, NONE, at, st, b), NEW t \in Task, Unqueued(k, X, Y, t),
           "DMT" \notin k.msts[t] \/ k.cpri[t] = InheritedBy(k, at, b, t),
           NEW r, r = Readied(k, t)
    PROVE  Calm(r, X \ {t}, Y \ {t}, NONE, at, st, b)
<1>1. /\ k \in Kernel /\ X \subseteq Task /\ Linked(k, X, Y, at, st)
      /\ Chained(k.lockmtx, k.owner, NONE, {}) /\ Backed(k, X, at)
      /\ Offered(k, X, at, {}) /\ Inheriting(k, {NONE}, at, b)
      BY DEF Calm
<1>2. ReadiedTo(r, k, X, Y, at, st, t) BY <1>1, ReadiedFacts
<1>4. /\ r \in Kernel /\ SameMtx(r, k) /\ r.cpri = k.cpri
      /\ Backed(r, X \ {t}, at) /\ Offered(r, X \ {t}, at, {})
      /\ "DMT" \notin k.msts[t] => Inheriting(r, {NONE}, at, b)
      BY <1>1, ReadiedKeeps
<1>5. Chained(r.lockmtx, r.owner, NONE, {}) BY <1>1, <1>4 DEF SameMtx, SameChains
<1>6. Inheriting(r, {NONE}, at, b)
  <2>1. CASE "DMT" \notin k.msts[t] BY <1>4, <2>1
  <2>2. CASE k.cpri[t] = InheritedBy(k, at, b, t)
    <3>1. \A u \in Task : InheritedBy(r, at, b, u) = InheritedBy(k, at, b, u)
          BY <1>4 DEF InheritedBy, Lifts, Held, SameMtx, SameChains
    <3>2. \A u \in Task \ {t} : r.msts[u] = k.msts[u] BY <1>2 DEF ReadiedTo
    <3> QED BY <1>1, <1>4, <2>2, <3>1, <3>2 DEF Inheriting
  <2> QED BY <2>1, <2>2
<1>7. Linked(r, X \ {t}, Y \ {t}, at, st) BY <1>2 DEF ReadiedTo
<1> QED BY <1>1, <1>4, <1>5, <1>6, <1>7 DEF Calm

(* A task that holds nothing and is off its queues begins anew, or ends. *)
Anew(r, k, t, f, c) ==
    /\ r \in Kernel /\ SameRun(r, k) /\ SameMtx(r, k) /\ r.wsts = k.wsts
    /\ r.rdq = k.rdq /\ r.mtxq = k.mtxq /\ r.timq = k.timq
    /\ r.msts = [k.msts EXCEPT ![t] = f] /\ r.cpri = [k.cpri EXCEPT ![t] = c]

AnewAs(r, k, t, st, b) ==
    /\ Calm(r, {t}, {t}, NONE, mtxatr, st, b) /\ InheritedBy(r, mtxatr, b, t) = b[t]
    /\ k.ctcb # t => \A d : Running(k, d) => Running(r, d)

(* A dormant task starts. *)
LEMMA AnewFacts ==
    ASSUME NEW k, NEW X, NEW Y, NEW x, NEW t \in Task, NEW st \in [Task -> Stamp],
           NEW b, NEW b2 \in [Task -> 1..MaxPri], \A u \in Task \ {t} : b2[u] = b[u],
           x \in {NONE, t}, Calm(k, X, Y, x, mtxatr, st, b), k.lockmtx[t] = <<>>,
           X \subseteq {t}, Y \subseteq {t}, Unqueued(k, X, Y, t),
           NEW f \in {{"DMT"}, {"RDY"}}, NEW c \in 1..MaxPri, f = {"RDY"} => c = b2[t],
           NEW r, Anew(r, k, t, f, c)
    PROVE  AnewAs(r, k, t, st, b2)
<1>1. /\ k \in Kernel /\ Linked(k, X, Y, mtxatr, st)
      /\ Chained(k.lockmtx, k.owner, x, {}) /\ Backed(k, X, mtxatr)
      /\ Offered(k, X, mtxatr, {}) /\ Inheriting(k, {x}, mtxatr, b)
      BY DEF Calm
<1>2. k.msts \in [Task -> SUBSET Flags] /\ k.cpri \in [Task -> 1..MaxPri]
      /\ k.owner \in [Mtx -> Task \cup {NONE}] /\ k.ctcb \in Task \cup {NONE}
      BY <1>1, KernelFields
<1>3. /\ r.msts[t] = f /\ r.cpri[t] = c
      /\ \A u \in Task : u # t => r.msts[u] = k.msts[u] /\ r.cpri[u] = k.cpri[u]
      /\ r.wsts = k.wsts /\ r.owner = k.owner /\ r.lockmtx = k.lockmtx /\ r.mpri = k.mpri
      BY <1>2 DEF Anew, SameMtx, SameChains
<1>4. /\ "WAI" \notin f /\ "TMR" \notin f /\ Kind(f) BY DEF Kind
<1>5. /\ \A m \in Mtx : ~Wants(r.msts, r.wsts, t, m)
      /\ \A u \in Task, m \in Mtx : u # t =>
            (Wants(r.msts, r.wsts, u, m) <=> Wants(k.msts, k.wsts, u, m))
      BY <1>3, <1>4 DEF Wants
<1>6. /\ t \notin X => "RDY" \notin k.msts[t] /\ \A m \in Mtx : ~Wants(k.msts, k.wsts, t, m)
      /\ t \notin Y => "TMR" \notin k.msts[t]
      BY DEF Unqueued
<1>7. \A m \in Mtx : k.owner[m] # t
  <2>1. PICK q \in Seq(Mtx) : q = k.lockmtx[t] BY <1>1, KernelFields
  <2>4. Len(q) = 0 BY <2>1
  <2>5. ToSet(q) = {q[i] : i \in 1..Len(q)} BY ToSetFacts
  <2>2. ToSet(q) = {} BY <2>4, <2>5
  <2>3. ToSet(k.lockmtx[t]) = {} BY <2>1, <2>2
  <2> QED BY <1>1, <2>3 DEF Chained
<1>8. Linked(r, {t}, {t}, mtxatr, st)
  <2>1. /\ MFlagged(k.msts, k.wsts, mtxatr) /\ OffRdq(k.rdq, k.msts, k.cpri, X)
        /\ OffMtxq(k.mtxq, k.msts, k.wsts, k.cpri, mtxatr, X)
        /\ OffTimq(k.timq, k.msts, st, Y)
        BY <1>1 DEF Linked
  <2>2. MFlagged(r.msts, r.wsts, mtxatr)
    <3>1. Flagged(k.msts, k.wsts) BY <2>1 DEF MFlagged
    <3>2. Flagged(r.msts, r.wsts) BY <1>3, <1>4, <3>1 DEF Flagged
    <3>3. ASSUME NEW u \in Task, NEW m \in Mtx, Wants(r.msts, r.wsts, u, m)
          PROVE  mtxatr[m] # NONE /\ ("FIFO" \in r.msts[u] <=> mtxatr[m] = "FIFO")
      <4>1. u # t /\ Wants(k.msts, k.wsts, u, m) BY <1>5, <3>3
      <4> QED BY <1>3, <2>1, <4>1 DEF MFlagged
    <3> QED BY <3>2, <3>3 DEF MFlagged
  <2>3. OffRdq(r.rdq, r.msts, r.cpri, {t})
    <3>1. \A u \in Task :
             /\ u \notin {t} /\ "RDY" \in r.msts[u] <=> u \notin X /\ "RDY" \in k.msts[u]
             /\ u \notin X /\ "RDY" \in k.msts[u] => r.cpri[u] = k.cpri[u]
          BY <1>3, <1>6
    <3>2. OffRdq(k.rdq, r.msts, r.cpri, {t}) BY <2>1, <3>1, MRdqStay
    <3> QED BY <3>2 DEF Anew
  <2>4. OffMtxq(r.mtxq, r.msts, r.wsts, r.cpri, mtxatr, {t})
    <3>1. \A u \in Task, n \in Mtx :
             /\ u \notin {t} /\ Wants(r.msts, r.wsts, u, n)
                   <=> u \notin X /\ Wants(k.msts, k.wsts, u, n)
             /\ u \notin X /\ Wants(k.msts, k.wsts, u, n) =>
                   (mtxatr[n] = mtxatr[n] /\ (mtxatr[n] # "FIFO" => r.cpri[u] = k.cpri[u]))
          BY <1>3, <1>5, <1>6
    <3>2. OffMtxq(k.mtxq, r.msts, r.wsts, r.cpri, mtxatr, {t}) BY <2>1, <3>1, MtxqStay
    <3> QED BY <3>2 DEF Anew
  <2>5. OffTimq(r.timq, r.msts, st, {t})
    <3>1. \A u \in Task : u \notin {t} /\ "TMR" \in r.msts[u] <=> u \notin Y /\ "TMR" \in k.msts[u]
          BY <1>3, <1>6
    <3>2. OffTimq(k.timq, r.msts, st, {t}) BY <2>1, <3>1, MTimqStay
    <3> QED BY <3>2 DEF Anew
  <2> QED BY <2>2, <2>3, <2>4, <2>5 DEF Linked
<1>9. Chained(r.lockmtx, r.owner, NONE, {}) BY <1>1, <1>3 DEF Chained
<1>10. Backed(r, {t}, mtxatr)
  <2>1. ASSUME NEW m \in Mtx, r.owner[m] # NONE
        PROVE  mtxatr[m] # NONE /\ "DMT" \notin r.msts[r.owner[m]]
    <3>1. mtxatr[m] # NONE /\ "DMT" \notin k.msts[k.owner[m]] BY <1>1, <1>3, <2>1 DEF Backed
    <3>2. k.owner[m] \in Task /\ k.owner[m] # t BY <1>2, <1>3, <1>7, <2>1
    <3> QED BY <1>3, <3>1, <3>2
  <2>2. \A u \in Task \ {t}, m \in Mtx : Wants(r.msts, r.wsts, u, m) => r.owner[m] # NONE
        BY <1>1, <1>3, <1>5 DEF Backed
  <2>3. \A u \in Task, m \in Mtx, h \in Mtx :
           Wants(r.msts, r.wsts, u, m) /\ r.owner[h] = u => Rank[h] < Rank[m]
        BY <1>1, <1>3, <1>5 DEF Backed
  <2> QED BY <2>1, <2>2, <2>3 DEF Backed
<1>11. Offered(r, {t}, mtxatr, {})
  <2>1. ASSUME NEW m \in Mtx, mtxatr[m] = "INHERIT" PROVE OfferedAt(r, {t}, {}, m)
    <3>1. /\ \A u \in Task \ X : Wants(k.msts, k.wsts, u, m) => k.mpri[m] <= k.cpri[u]
          /\ (\A u \in Task \ X : ~Wants(k.msts, k.wsts, u, m)) => k.mpri[m] = TMAX_TPRI
          BY <1>1, <2>1 DEF Offered, OfferedAt
    <3>2. \A u \in Task \ {t} : u \in Task \ X /\ r.cpri[u] = k.cpri[u]
                /\ (Wants(r.msts, r.wsts, u, m) <=> Wants(k.msts, k.wsts, u, m))
          BY <1>3, <1>5
    <3>3. (\A u \in Task \ {t} : ~Wants(k.msts, k.wsts, u, m)) =>
             \A u \in Task \ X : ~Wants(k.msts, k.wsts, u, m)
          BY <1>6
    <3> QED BY <1>3, <3>1, <3>2, <3>3 DEF OfferedAt
  <2> QED BY <2>1 DEF Offered
<1>12. Held(r, t) = {} /\ \A u : Lifts(r, mtxatr, u) = Lifts(k, mtxatr, u)
  <2>1. Len(r.lockmtx[t]) = 0 BY <1>3
  <2>2. Held(r, t) = {} BY <2>1 DEF Held
  <2> QED BY <1>3, <2>2 DEF Lifts, Held
<1>13. InheritedBy(r, mtxatr, b2, t) = b2[t]
  <2>1. r \in Kernel /\ b2[t] \in Nat BY DEF Anew
  <2>2. b2[t] <= b2[t] /\ \A m \in Mtx : ~Raises(r, mtxatr, t, m) BY <1>12, <2>1 DEF Raises
  <2> QED BY <2>1, <2>2, InheritedIs
<1>14. Inheriting(r, {NONE}, mtxatr, b2)
  <2>1. ASSUME NEW u \in Task, "DMT" \notin r.msts[u]
        PROVE  r.cpri[u] = InheritedBy(r, mtxatr, b2, u)
    <3>1. CASE u = t BY <1>3, <1>13, <2>1, <3>1
    <3>2. CASE u # t
      <4>1. k.cpri[u] = InheritedBy(k, mtxatr, b, u) BY <1>1, <1>3, <2>1, <3>2, Constants DEF Inheriting
      <4>2. InheritedBy(r, mtxatr, b2, u) = InheritedBy(k, mtxatr, b, u)
            BY <1>12, <3>2 DEF InheritedBy
      <4> QED BY <1>3, <3>2, <4>1, <4>2
    <3> QED BY <3>1, <3>2
  <2> QED BY <2>1 DEF Inheriting
<1>15. ASSUME k.ctcb # t, NEW d, Running(k, d) PROVE Running(r, d)
  <2>1. r.ctcb = k.ctcb /\ r.pri = k.pri /\ r.rdsp = k.rdsp /\ r.rdq = k.rdq
        BY DEF Anew, SameRun
  <2>2. k.ctcb # NONE => r.msts[k.ctcb] = k.msts[k.ctcb] /\ r.cpri[k.ctcb] = k.cpri[k.ctcb]
        BY <1>2, <1>3, <1>15
  <2> QED BY <1>15, <2>1, <2>2 DEF Running
<1>16. Calm(r, {t}, {t}, NONE, mtxatr, st, b2)
       BY <1>8, <1>9, <1>10, <1>11, <1>14 DEF Calm, Anew
<1> QED BY <1>13, <1>15, <1>16 DEF AnewAs

-----------------------------------------------------------------------------
(* THE SERVICES OF TASKS                                                   *)

(* The same, of a step that enters no record. *)
LEMMA MActTskStep ==
    ASSUME MIInv, NEW t \in Task, MActTsk(t)
    PROVE  MIInv'
<1>1. /\ UNCHANGED <<lockmtx, mtxatr, owner, mpri, mtxq>>
      /\ UNCHANGED <<wup, timq, stime, pri, dsp, systim>>
      /\ bpri' = [bpri EXCEPT ![t] = IF Dormant(t) THEN Ipri[t] ELSE @]
      BY DEF MActTsk, ActTsk
<1>2. CASE ~Dormant(t)
  <2>1. /\ UNCHANGED <<cpri, msts, wsts, rdq, ctcb, rdsp>>
        /\ act[t] < MaxAct /\ act' = [act EXCEPT ![t] = @ + 1]
        BY <1>2 DEF MActTsk, ActTsk
  <2>2. bpri' = bpri BY <1>1, <1>2 DEF MIInv, MTypes
  <2>3. act' \in [Task -> 0..MaxAct]
    <3>1. act \in [Task -> 0..MaxAct] BY DEF MIInv, MTypes
    <3>2. act[t] + 1 \in 0..MaxAct BY <2>1, <3>1, Constants
    <3> QED BY <2>1, <3>1, <3>2
  <2>4. wup' \in [Task -> 0..MaxWup] BY <1>1 DEF MIInv, MTypes
  <2>5. UNCHANGED mtxvars BY <1>1, <2>2 DEF mtxvars
  <2> QED BY <1>1, <2>1, <2>3, <2>4, <2>5, Counts
<1>3. CASE Dormant(t)
  <2>1. /\ cpri' = [cpri EXCEPT ![t] = Ipri[t]] /\ EnqRdq(<<t>>, rdq, cpri') /\ act' = act
        BY <1>3 DEF MActTsk, ActTsk
  <2>2. PICK c \in 1..MaxPri : c = Ipri[t] BY Constants
  <2>3. PICK n : n = Now OBVIOUS
  <2>4. n \in Kernel /\ Whole(n, {}, {}, mtxatr, stime, bpri, dsp) BY <2>3, NowTyped
  <2>5. PICK k : k = [n EXCEPT !.cpri = cpri'] OBVIOUS
  <2>6. msts[t] = {"DMT"} BY <1>3 DEF Dormant
  <2>7. cpri' \in [Task -> 1..MaxPri] BY <2>1, <2>2, NowTyped
  <2>8. Anew(k, n, t, {"DMT"}, c)
    <3>1. k \in Kernel BY <2>4, <2>5, <2>7 DEF Kernel
    <3>2. SameRun(k, n) /\ SameMtx(k, n) /\ k.wsts = n.wsts
          /\ k.rdq = n.rdq /\ k.mtxq = n.mtxq /\ k.timq = n.timq /\ k.msts = n.msts
          /\ k.cpri = cpri'
          BY <2>4, <2>5 DEF Kernel, SameRun, SameMtx, SameChains
    <3>3. n.msts = [n.msts EXCEPT ![t] = {"DMT"}] BY <2>3, <2>6, NowIs, NowTyped
    <3>4. k.cpri = [n.cpri EXCEPT ![t] = c] BY <2>1, <2>2, <2>3, <3>2, NowIs
    <3> QED BY <3>1, <3>2, <3>3, <3>4 DEF Anew
  <2>9. Calm(n, {}, {}, NONE, mtxatr, stime, bpri) /\ Running(n, dsp) BY <2>4, WholeIs
  <2>10. n.msts[t] = {"DMT"} /\ n.ctcb # t
    <3>1. n.msts[t] = {"DMT"} BY <2>3, <2>6, NowIs
    <3> QED BY <2>9, <3>1, Constants DEF Running
  <2>11. Unqueued(n, {}, {}, t) BY <2>10 DEF Unqueued, Wants
  <2>12. n.lockmtx[t] = <<>>
    <3>1. \A m \in Mtx : n.owner[m] # t BY <2>9, <2>10, Constants DEF Calm, Backed
    <3>2. PICK q \in Seq(Mtx) : q = n.lockmtx[t] BY <2>4, KernelFields
    <3>3. \A m \in Mtx : m \in ToSet(q) <=> n.owner[m] = t
          BY <2>9, <3>2 DEF Calm, Chained
    <3>4. ToSet(q) = {q[i] : i \in 1..Len(q)} BY ToSetFacts
    <3>5. \A i \in 1..Len(q) : FALSE
      <4>1. \A i \in 1..Len(q) : q[i] \in Mtx /\ q[i] \in ToSet(q) BY <3>4
      <4> QED BY <3>1, <3>3, <4>1
    <3>6. q = <<>> BY <3>5
    <3> QED BY <3>2, <3>6
  <2>13. PICK b2 : b2 = bpri' OBVIOUS
  <2>14. b2 \in [Task -> 1..MaxPri] /\ b2[t] = c /\ \A u \in Task \ {t} : b2[u] = bpri[u]
         BY <1>1, <1>3, <2>2, <2>13 DEF MIInv, MTypes
  <2>15. stime \in [Task -> Stamp] BY DEF MIInv, MTypes
  <2>16. AnewAs(k, n, t, stime, b2)
    <3>1. PICK E, f, x : E = {} /\ f = {"DMT"} /\ x = NONE OBVIOUS
    <3>2. Calm(n, E, E, x, mtxatr, stime, bpri) /\ Unqueued(n, E, E, t) BY <2>9, <2>11, <3>1
    <3>3. E \subseteq {t} /\ f \in {{"DMT"}, {"RDY"}} /\ x \in {NONE, t} BY <3>1
    <3>4. Anew(k, n, t, f, c) BY <2>8, <3>1
    <3> QED BY <2>12, <2>14, <2>15, <3>2, <3>3, <3>4, AnewFacts
  <2>17. /\ Calm(k, {t}, {t}, NONE, mtxatr, stime, b2) /\ Running(k, dsp)
         /\ InheritedBy(k, mtxatr, b2, t) = b2[t]
         BY <2>9, <2>10, <2>16 DEF AnewAs
  <2>18. PICK X : X = {t} OBVIOUS
  <2>19. PICK r : r = Readied(k, t) OBVIOUS
  <2>20. k.cpri[t] = InheritedBy(k, mtxatr, b2, t)
    <3>1. k.cpri[t] = c BY <2>4, <2>8, KernelFields DEF Anew
    <3> QED BY <2>14, <2>17, <3>1
  <2>21. k \in Kernel /\ k.ctcb # t BY <2>8, <2>10 DEF Anew, SameRun
  <2>22. Unqueued(k, X, X, t) BY <2>18 DEF Unqueued
  <2>23. Calm(k, X, X, NONE, mtxatr, stime, b2) BY <2>17, <2>18
  <2>24. Calm(r, X \ {t}, X \ {t}, NONE, mtxatr, stime, b2)
         BY <2>15, <2>19, <2>20, <2>22, <2>23, ReadiedCalm
  <2>25. Running(r, dsp) BY <2>17, <2>19, <2>21, ReadiedRuns
  <2>26. X \ {t} = {} BY <2>18
  <2>27. Whole(r, {}, {}, mtxatr, stime, b2, dsp) BY <2>24, <2>25, <2>26, WholeIs
  <2>28. Become(r)
    <3>1. /\ k.msts = msts /\ k.wsts = wsts /\ k.cpri = cpri' /\ k.rdq = rdq
          /\ k.timq = timq' /\ k.ctcb = ctcb /\ k.pri = pri /\ k.rdsp = rdsp
          /\ k.lockmtx = lockmtx' /\ k.owner = owner' /\ k.mpri = mpri' /\ k.mtxq = mtxq'
          BY <1>1, <2>3, <2>4, <2>5, NowIs DEF Kernel
    <3> QED BY <1>1, <2>1, <2>19, <2>21, <3>1, EnteredAs
  <2>29. MTypes' BY <1>1, <2>1, <2>13, <2>14 DEF MIInv, MTypes
  <2>30. Whole(r, {}, {}, mtxatr', stime', bpri', dsp') BY <1>1, <2>13, <2>27
  <2> QED BY <2>28, <2>29, <2>30, Settles
<1> QED BY <1>2, <1>3

(* A task no queue is to have need not be an exception. *)
LEMMA Unexcepted ==
    ASSUME NEW k, NEW x, NEW at, NEW st, NEW b, NEW t \in Task,
           Calm(k, {t}, {t}, x, at, st, b), Unqueued(k, {}, {}, t)
    PROVE  Calm(k, {}, {}, x, at, st, b)
<1>1. PICK X : X = {t} OBVIOUS
<1>2. /\ k \in Kernel /\ Linked(k, X, X, at, st)
      /\ Chained(k.lockmtx, k.owner, x, {}) /\ Backed(k, X, at)
      /\ Offered(k, X, at, {}) /\ Inheriting(k, {x}, at, b)
      BY <1>1 DEF Calm
<1>3. /\ "RDY" \notin k.msts[t] /\ "TMR" \notin k.msts[t]
      /\ \A m \in Mtx : ~Wants(k.msts, k.wsts, t, m)
      BY DEF Unqueued
<1>4. Linked(k, {}, {}, at, st)
  <2>1. /\ MFlagged(k.msts, k.wsts, at) /\ OffRdq(k.rdq, k.msts, k.cpri, X)
        /\ OffMtxq(k.mtxq, k.msts, k.wsts, k.cpri, at, X)
        /\ OffTimq(k.timq, k.msts, st, X)
        BY <1>2 DEF Linked
  <2>2. OffRdq(k.rdq, k.msts, k.cpri, {}) BY <1>1, <1>3, <2>1, MRdqStay
  <2>3. OffMtxq(k.mtxq, k.msts, k.wsts, k.cpri, at, {})
    <3>1. \A u \in Task, n \in Mtx :
             /\ u \notin {} /\ Wants(k.msts, k.wsts, u, n)
                   <=> u \notin X /\ Wants(k.msts, k.wsts, u, n)
             /\ u \notin X /\ Wants(k.msts, k.wsts, u, n) =>
                   (at[n] = at[n] /\ (at[n] # "FIFO" => k.cpri[u] = k.cpri[u]))
          BY <1>1, <1>3
    <3> QED BY <2>1, <3>1, MtxqStay
  <2>4. OffTimq(k.timq, k.msts, st, {})
    <3>1. \A u \in Task : u \notin {} /\ "TMR" \in k.msts[u] <=> u \notin X /\ "TMR" \in k.msts[u]
          BY <1>1, <1>3
    <3> QED BY <2>1, <3>1, MTimqStay
  <2> QED BY <2>1, <2>2, <2>3, <2>4 DEF Linked
<1>5. Backed(k, {}, at) BY <1>1, <1>2, <1>3 DEF Backed
<1>6. Offered(k, {}, at, {})
  <2>1. ASSUME NEW m \in Mtx, at[m] = "INHERIT" PROVE OfferedAt(k, {}, {}, m)
    <3>1. /\ \A u \in Task \ X : Wants(k.msts, k.wsts, u, m) => k.mpri[m] <= k.cpri[u]
          /\ (\A u \in Task \ X : ~Wants(k.msts, k.wsts, u, m)) => k.mpri[m] = TMAX_TPRI
          BY <1>2, <2>1 DEF Offered, OfferedAt
    <3>2. \A u \in Task : Wants(k.msts, k.wsts, u, m) => u \in Task \ X BY <1>1, <1>3
    <3> QED BY <3>1, <3>2 DEF OfferedAt
  <2> QED BY <2>1 DEF Offered
<1> QED BY <1>2, <1>4, <1>5, <1>6 DEF Calm

(* The running task has stopped to wait, and is not on a queue yet. *)
Blocked(r, k, t, f, w) ==
    /\ r \in Kernel /\ Unlinked(r.rdq, k.rdq, k.cpri[t], t)
    /\ r.msts = [k.msts EXCEPT ![t] = f] /\ r.wsts = [k.wsts EXCEPT ![t] = w]
    /\ r.ctcb = NONE /\ r.rdsp = k.rdsp /\ SameMtx(r, k) /\ r.cpri = k.cpri
    /\ r.mtxq = k.mtxq /\ r.timq = k.timq

MayWait(k, t, f, w, at) ==
    /\ "WAI" \in f /\ "DMT" \notin f /\ "RDY" \notin f /\ w # NONE /\ w \notin Sem
    /\ w \in Mtx => /\ at[w] # NONE /\ ("FIFO" \in f <=> at[w] = "FIFO")
                    /\ \A h \in Mtx : k.owner[h] = t => Rank[h] < Rank[w]

(* A task leaves the ready queues to wait. *)
LEMMA BlockedFacts ==
    ASSUME NEW k, NEW at, NEW st, NEW b, Calm(k, {}, {}, NONE, at, st, b),
           NEW t \in Task, "RDY" \in k.msts[t], NEW f, NEW w, MayWait(k, t, f, w, at),
           NEW r, Blocked(r, k, t, f, w)
    PROVE  Calm(r, {t}, {t}, NONE, at, st, b)
<1>1. PICK E : E = {} OBVIOUS
<1>2. /\ k \in Kernel /\ Linked(k, E, E, at, st)
      /\ Chained(k.lockmtx, k.owner, NONE, {}) /\ Backed(k, E, at)
      /\ Offered(k, E, at, {}) /\ Inheriting(k, {NONE}, at, b)
      BY <1>1 DEF Calm
<1>3. /\ k.msts \in [Task -> SUBSET Flags] /\ k.wsts \in [Task -> Why]
      /\ k.cpri \in [Task -> 1..MaxPri] /\ k.rdq \in [1..MaxPri -> Seq(Task)]
      /\ k.owner \in [Mtx -> Task \cup {NONE}]
      BY <1>2, KernelFields
<1>4. /\ r.msts[t] = f /\ r.wsts[t] = w
      /\ \A u \in Task : u # t => r.msts[u] = k.msts[u] /\ r.wsts[u] = k.wsts[u]
      /\ r.cpri = k.cpri /\ r.owner = k.owner /\ r.lockmtx = k.lockmtx /\ r.mpri = k.mpri
      BY <1>3 DEF Blocked, SameMtx, SameChains
<1>5. /\ MFlagged(k.msts, k.wsts, at) /\ OffRdq(k.rdq, k.msts, k.cpri, E)
      /\ OffMtxq(k.mtxq, k.msts, k.wsts, k.cpri, at, E) /\ OffTimq(k.timq, k.msts, st, E)
      BY <1>2 DEF Linked
<1>6. k.msts[t] = {"RDY"}
  <2>1. Flagged(k.msts, k.wsts) BY <1>5 DEF MFlagged
  <2> QED BY <2>1, FlagFacts
<1>7. /\ \A m \in Mtx : ~Wants(k.msts, k.wsts, t, m)
      /\ \A u \in Task, m \in Mtx : u # t =>
            (Wants(r.msts, r.wsts, u, m) <=> Wants(k.msts, k.wsts, u, m))
      BY <1>4, <1>6 DEF Wants
<1>8. Linked(r, {t}, {t}, at, st)
  <2>1. MFlagged(r.msts, r.wsts, at)
    <3>1. Flagged(k.msts, k.wsts) BY <1>5 DEF MFlagged
    <3>2. Kind(f) /\ w # NONE /\ w \notin Sem BY DEF MayWait, Kind
    <3>3. Flagged(r.msts, r.wsts)
      <4>1. ASSUME NEW u \in Task
            PROVE  /\ Kind(r.msts[u]) /\ ("WAI" \in r.msts[u] => r.wsts[u] # NONE)
                   /\ \A s \in Sem : "WAI" \in r.msts[u] /\ r.wsts[u] = s =>
                                       ("FIFO" \in r.msts[u] <=> SemAttr[s] = "FIFO")
        <5>1. CASE u = t BY <1>4, <3>2, <5>1
        <5>2. CASE u # t BY <1>4, <3>1, <5>2 DEF Flagged
        <5> QED BY <5>1, <5>2
      <4> QED BY <4>1 DEF Flagged
    <3>4. ASSUME NEW u \in Task, NEW m \in Mtx, Wants(r.msts, r.wsts, u, m)
          PROVE  at[m] # NONE /\ ("FIFO" \in r.msts[u] <=> at[m] = "FIFO")
      <4>1. CASE u = t
        <5>1. m = w BY <1>4, <3>4, <4>1 DEF Wants
        <5> QED BY <1>4, <4>1, <5>1 DEF MayWait
      <4>2. CASE u # t
        <5>1. Wants(k.msts, k.wsts, u, m) BY <1>7, <3>4, <4>2
        <5> QED BY <1>4, <1>5, <4>2, <5>1 DEF MFlagged
      <4> QED BY <4>1, <4>2
    <3> QED BY <3>3, <3>4 DEF MFlagged
  <2>2. OffRdq(r.rdq, r.msts, r.cpri, {t})
    <3>1. Unlinked(r.rdq, k.rdq, k.cpri[t], t) BY DEF Blocked
    <3>2. OffRdq(r.rdq, k.msts, k.cpri, E \cup {t}) BY <1>3, <1>5, <3>1, MRdqDrop
    <3>3. PICK X : X = {t} OBVIOUS
    <3>4. OffRdq(r.rdq, k.msts, k.cpri, X) /\ \A u \in Task : u \notin X <=> u # t
      <4>1. E \cup {t} = X BY <1>1, <3>3
      <4> QED BY <3>2, <3>3, <4>1
    <3>5. \A u \in Task :
             /\ u \notin X /\ "RDY" \in r.msts[u] <=> u \notin X /\ "RDY" \in k.msts[u]
             /\ u \notin X /\ "RDY" \in k.msts[u] => r.cpri[u] = k.cpri[u]
          BY <1>4, <3>4
    <3>6. OffRdq(r.rdq, r.msts, r.cpri, X) BY <3>4, <3>5, MRdqStay
    <3> QED BY <3>3, <3>6
  <2>3. OffMtxq(r.mtxq, r.msts, r.wsts, r.cpri, at, {t})
    <3>1. \A u \in Task, n \in Mtx :
             /\ u \notin {t} /\ Wants(r.msts, r.wsts, u, n)
                   <=> u \notin E /\ Wants(k.msts, k.wsts, u, n)
             /\ u \notin E /\ Wants(k.msts, k.wsts, u, n) =>
                   (at[n] = at[n] /\ (at[n] # "FIFO" => r.cpri[u] = k.cpri[u]))
          BY <1>1, <1>4, <1>7
    <3>2. OffMtxq(k.mtxq, r.msts, r.wsts, r.cpri, at, {t}) BY <1>5, <3>1, MtxqStay
    <3> QED BY <3>2 DEF Blocked
  <2>4. OffTimq(r.timq, r.msts, st, {t})
    <3>1. \A u \in Task : u \notin {t} /\ "TMR" \in r.msts[u] <=> u \notin E /\ "TMR" \in k.msts[u]
          BY <1>1, <1>4, <1>6
    <3>2. OffTimq(k.timq, r.msts, st, {t}) BY <1>5, <3>1, MTimqStay
    <3> QED BY <3>2 DEF Blocked
  <2> QED BY <2>1, <2>2, <2>3, <2>4 DEF Linked
<1>9. Chained(r.lockmtx, r.owner, NONE, {}) BY <1>2, <1>4
<1>10. Backed(r, {t}, at)
  <2>1. \A m \in Mtx : r.owner[m] # NONE => at[m] # NONE /\ "DMT" \notin r.msts[r.owner[m]]
    <3>1. "DMT" \notin f BY DEF MayWait
    <3> QED BY <1>2, <1>3, <1>4, <3>1 DEF Backed
  <2>2. \A u \in Task \ {t}, m \in Mtx : Wants(r.msts, r.wsts, u, m) => r.owner[m] # NONE
        BY <1>1, <1>2, <1>4, <1>7 DEF Backed
  <2>3. ASSUME NEW u \in Task, NEW m \in Mtx, NEW h \in Mtx,
               Wants(r.msts, r.wsts, u, m), r.owner[h] = u
        PROVE  Rank[h] < Rank[m]
    <3>1. CASE u = t
      <4>1. m = w BY <1>4, <2>3, <3>1 DEF Wants
      <4> QED BY <1>4, <2>3, <3>1, <4>1 DEF MayWait
    <3>2. CASE u # t BY <1>2, <1>4, <1>7, <2>3, <3>2 DEF Backed
    <3> QED BY <3>1, <3>2
  <2> QED BY <2>1, <2>2, <2>3 DEF Backed
<1>11. Offered(r, {t}, at, {})
  <2>1. ASSUME NEW m \in Mtx, at[m] = "INHERIT" PROVE OfferedAt(r, {t}, {}, m)
    <3>1. /\ \A u \in Task \ E : Wants(k.msts, k.wsts, u, m) => k.mpri[m] <= k.cpri[u]
          /\ (\A u \in Task \ E : ~Wants(k.msts, k.wsts, u, m)) => k.mpri[m] = TMAX_TPRI
          BY <1>2, <2>1 DEF Offered, OfferedAt
    <3> QED BY <1>1, <1>4, <1>7, <3>1 DEF OfferedAt
  <2> QED BY <2>1 DEF Offered
<1>12. Inheriting(r, {NONE}, at, b)
  <2>1. \A u : InheritedBy(r, at, b, u) = InheritedBy(k, at, b, u)
        BY <1>4 DEF InheritedBy, Lifts, Held
  <2>2. \A u \in Task : "DMT" \notin r.msts[u] => "DMT" \notin k.msts[u] BY <1>4, <1>6
  <2> QED BY <1>2, <1>4, <2>1, <2>2 DEF Inheriting
<1> QED BY <1>8, <1>9, <1>10, <1>11, <1>12 DEF Calm, Blocked

(* slp_tsk and tslp_tsk. *)
LEMMA MSlpTskStep ==
    ASSUME MIInv, NEW t \in Task, SlpTsk(t, FEVR), UNCHANGED mtxvars
    PROVE  MIInv'
<1>1. ctcb = t /\ ~dsp /\ UNCHANGED <<cpri, act, pri, dsp, rdsp, systim>> BY DEF SlpTsk
<1>2. CASE wup[t] > 0
  <2>1. /\ wup' = [wup EXCEPT ![t] = @ - 1]
        /\ UNCHANGED <<rdq, wsts, ctcb, msts, stime, timq>>
        BY <1>2 DEF SlpTsk
  <2>2. wup' \in [Task -> 0..MaxWup]
    <3>1. wup \in [Task -> 0..MaxWup] BY DEF MIInv, MTypes
    <3>2. wup[t] - 1 \in 0..MaxWup BY <1>2, <3>1, Constants
    <3> QED BY <2>1, <3>1, <3>2
  <2>3. act' \in [Task -> 0..MaxAct] BY <1>1 DEF MIInv, MTypes
  <2> QED BY <1>1, <2>1, <2>2, <2>3, Counts
<1>3. CASE ~(wup[t] > 0)
  <2>1. Block(t, {"WAI"}, "SLP", FEVR) /\ wup' = wup BY <1>3 DEF SlpTsk
  <2>2. /\ rdq' = RdqWithout(t) /\ wsts' = [wsts EXCEPT ![t] = "SLP"] /\ ctcb' = NONE
        /\ msts' = [msts EXCEPT ![t] = {"WAI"}] /\ stime' = stime /\ timq' = timq
        BY <2>1 DEF Block
  <2>3. PICK n : n = Now OBVIOUS
  <2>4. /\ n \in Kernel /\ Whole(n, {}, {}, mtxatr, stime, bpri, dsp)
        /\ n.ctcb = ctcb /\ n.msts = msts /\ n.rdsp = rdsp
        BY <2>3, NowTyped, NowIs
  <2>5. Calm(n, {}, {}, NONE, mtxatr, stime, bpri) /\ Running(n, dsp) BY <2>4, WholeIs
  <2>6. "RDY" \in n.msts[t] /\ ~n.rdsp BY <1>1, <2>4, <2>5, Constants DEF Running
  <2>7. PICK r : r = Now' OBVIOUS
  <2>8. /\ r.msts = [n.msts EXCEPT ![t] = {"WAI"}] /\ r.wsts = [n.wsts EXCEPT ![t] = "SLP"]
        /\ r.rdq = [n.rdq EXCEPT ![n.cpri[t]] = Unlink(@, t)]
        /\ r.ctcb = NONE /\ r.rdsp = n.rdsp /\ SameMtx(r, n) /\ r.cpri = n.cpri
        /\ r.mtxq = n.mtxq /\ r.timq = n.timq /\ r.pri = n.pri
        BY <1>1, <2>2, <2>3, <2>7 DEF Now, mtxvars, RdqWithout, SameMtx, SameChains
  <2>9. r \in Kernel
    <3>1. r = [msts |-> r.msts, wsts |-> r.wsts, cpri |-> r.cpri, rdq |-> r.rdq,
               timq |-> r.timq, ctcb |-> r.ctcb, pri |-> r.pri, rdsp |-> r.rdsp,
               lockmtx |-> r.lockmtx, owner |-> r.owner, mpri |-> r.mpri, mtxq |-> r.mtxq]
          BY <2>7 DEF Now
    <3>2. /\ n.msts \in [Task -> SUBSET Flags] /\ n.wsts \in [Task -> Why]
          /\ n.cpri \in [Task -> 1..MaxPri] /\ n.rdq \in [1..MaxPri -> Seq(Task)]
          /\ n.timq \in Seq(Task) /\ n.pri \in 1..(MaxPri + 1) /\ n.rdsp \in BOOLEAN
          /\ n.lockmtx \in [Task -> Seq(Mtx)] /\ n.owner \in [Mtx -> Task \cup {NONE}]
          /\ n.mpri \in [Mtx -> 1..TMAX_TPRI] /\ n.mtxq \in [Mtx -> [0..MaxPri -> Seq(Task)]]
          BY <2>4, KernelFields
    <3>3. r.msts \in [Task -> SUBSET Flags] BY <2>8, <3>2 DEF Flags
    <3>4. r.wsts \in [Task -> Why] BY <2>8, <3>2 DEF Why
    <3>5. r.rdq \in [1..MaxPri -> Seq(Task)]
      <4>1. PICK c \in 1..MaxPri : c = n.cpri[t] BY <3>2
      <4>2. n.rdq[c] \in Seq(Task) BY <3>2
      <4>3. OffRdq(n.rdq, n.msts, n.cpri, {}) BY <2>5 DEF Calm, Linked
      <4>4. Once(n.rdq[c]) BY <4>3 DEF OffRdq
      <4>5. Unlink(n.rdq[c], t) \in Seq(Task) BY <4>2, <4>4, RemoveFirstOnce DEF Unlink
      <4> QED BY <2>8, <3>2, <4>1, <4>5
    <3>6. /\ r.cpri \in [Task -> 1..MaxPri] /\ r.timq \in Seq(Task)
          /\ r.ctcb \in Task \cup {NONE} /\ r.pri \in 1..(MaxPri + 1) /\ r.rdsp \in BOOLEAN
          /\ r.lockmtx \in [Task -> Seq(Mtx)] /\ r.owner \in [Mtx -> Task \cup {NONE}]
          /\ r.mpri \in [Mtx -> 1..TMAX_TPRI] /\ r.mtxq \in [Mtx -> [0..MaxPri -> Seq(Task)]]
          BY <2>8, <3>2 DEF SameMtx, SameChains
    <3>7. PICK f1, f2, f3, f4, f5, f6, f7, f8 :
             /\ f1 = r.msts /\ f2 = r.wsts /\ f3 = r.cpri /\ f4 = r.rdq
             /\ f5 = r.timq /\ f6 = r.ctcb /\ f7 = r.pri /\ f8 = r.rdsp
          OBVIOUS
    <3>8. PICK g1, g2, g3, g4 :
             g1 = r.lockmtx /\ g2 = r.owner /\ g3 = r.mpri /\ g4 = r.mtxq
          OBVIOUS
    <3>9. r = [msts |-> f1, wsts |-> f2, cpri |-> f3, rdq |-> f4, timq |-> f5, ctcb |-> f6,
               pri |-> f7, rdsp |-> f8, lockmtx |-> g1, owner |-> g2, mpri |-> g3, mtxq |-> g4]
          BY <3>1, <3>7, <3>8
    <3>10. /\ f1 \in [Task -> SUBSET Flags] /\ f2 \in [Task -> Why]
           /\ f3 \in [Task -> 1..MaxPri] /\ f4 \in [1..MaxPri -> Seq(Task)]
           /\ f5 \in Seq(Task) /\ f6 \in Task \cup {NONE} /\ f7 \in 1..(MaxPri + 1)
           /\ f8 \in BOOLEAN
           BY <3>3, <3>4, <3>5, <3>6, <3>7
    <3>11. /\ g1 \in [Task -> Seq(Mtx)] /\ g2 \in [Mtx -> Task \cup {NONE}]
           /\ g3 \in [Mtx -> 1..TMAX_TPRI] /\ g4 \in [Mtx -> [0..MaxPri -> Seq(Task)]]
           BY <3>6, <3>8
    <3> QED BY <3>9, <3>10, <3>11 DEF Kernel
  <2>10. PICK f, w : f = {"WAI"} /\ w = "SLP" OBVIOUS
  <2>11. MayWait(n, t, f, w, mtxatr) BY <2>10, Constants, MConstants DEF MayWait
  <2>12. Blocked(r, n, t, f, w) BY <2>8, <2>9, <2>10 DEF Blocked, Unlinked
  <2>13. Calm(r, {t}, {t}, NONE, mtxatr, stime, bpri) BY <2>5, <2>6, <2>11, <2>12, BlockedFacts
  <2>14. Unqueued(r, {}, {}, t)
    <3>1. r.msts[t] = {"WAI"} /\ r.wsts[t] = "SLP" BY <2>4, <2>8, KernelFields
    <3> QED BY <3>1, MConstants DEF Unqueued, Wants
  <2>15. Calm(r, {}, {}, NONE, mtxatr, stime, bpri) BY <2>13, <2>14, Unexcepted
  <2>16. Running(r, dsp) BY <1>1, <2>6, <2>8 DEF Running
  <2>17. Whole(r, {}, {}, mtxatr, stime, bpri, dsp) BY <2>15, <2>16, WholeIs
  <2>18. bpri' = bpri /\ mtxatr' = mtxatr /\ dsp' = dsp BY <1>1 DEF mtxvars
  <2>19. MTypes' BY <1>1, <2>1, <2>2, <2>18 DEF MIInv, MTypes
  <2>20. Whole(Now', {}, {}, mtxatr', stime', bpri', dsp') BY <2>2, <2>7, <2>17, <2>18
  <2> QED BY <2>19, <2>20 DEF MIInv
<1> QED BY <1>2, <1>3

(* A task that only waited for the timer queue, if for anything. *)
LEMMA UntimedCalm ==
    ASSUME NEW k, NEW X, NEW Y, NEW x, NEW at, NEW st \in [Task -> Stamp], NEW b,
           Calm(k, X, Y, x, at, st, b), NEW t \in Task, NEW r, r = Untimed(k, t)
    PROVE  /\ Calm(r, X, Y \cup {t}, x, at, st, b) /\ OnlyTimq(r, k)
           /\ \A d : Running(k, d) => Running(r, d)
<1>1. /\ k \in Kernel /\ X \subseteq Task /\ Linked(k, X, Y, at, st)
      /\ Chained(k.lockmtx, k.owner, x, {}) /\ Backed(k, X, at)
      /\ Offered(k, X, at, {}) /\ Inheriting(k, {x}, at, b)
      BY DEF Calm
<1>2. OnlyTimq(r, k) /\ Linked(r, X, Y \cup {t}, at, st) BY <1>1, UntimedFacts
<1>3. OnlyQueues(r, k) BY <1>1, <1>2, OnlyQueuesFacts
<1>4. /\ \A d : Running(k, d) => Running(r, d)
      /\ Backed(r, X, at) /\ Offered(r, X, at, {}) /\ Inheriting(r, {x}, at, b)
      BY <1>1, <1>3, QueuesKeep
<1>5. Chained(r.lockmtx, r.owner, x, {}) /\ r \in Kernel
      BY <1>1, <1>2 DEF OnlyTimq, SameMtx, SameChains
<1> QED BY <1>1, <1>2, <1>4, <1>5 DEF Calm

(* wup_tsk. *)
LEMMA MWupTskStep ==
    ASSUME MIInv, NEW t \in Task, WupTsk(t), UNCHANGED mtxvars
    PROVE  MIInv'
<1>1. ~Dormant(t) /\ UNCHANGED <<cpri, act, stime, pri, dsp, systim>> BY DEF WupTsk
<1>2. /\ bpri' = bpri /\ mtxatr' = mtxatr /\ lockmtx' = lockmtx /\ owner' = owner
      /\ mpri' = mpri /\ mtxq' = mtxq
      BY DEF mtxvars
<1>3. wup \in [Task -> 0..MaxWup] /\ act \in [Task -> 0..MaxAct] /\ stime \in [Task -> Stamp]
      BY DEF MIInv, MTypes
<1>4. CASE ~(Waits(t) /\ wsts[t] = "SLP")
  <2>1. /\ wup[t] # MaxWup /\ wup' = [wup EXCEPT ![t] = @ + 1]
        /\ UNCHANGED <<timq, msts, wsts, rdq, ctcb, rdsp>>
        BY <1>4 DEF WupTsk
  <2>2. wup' \in [Task -> 0..MaxWup]
    <3>1. wup[t] + 1 \in 0..MaxWup BY <1>3, <2>1, Constants
    <3> QED BY <1>3, <2>1, <3>1
  <2>3. act' \in [Task -> 0..MaxAct] BY <1>1, <1>3
  <2> QED BY <1>1, <2>1, <2>2, <2>3, Counts
<1>5. CASE Waits(t) /\ wsts[t] = "SLP"
  <2>1. timq' = TimqWithout(t) /\ EnqRdq(<<t>>, rdq, cpri) /\ wup' = wup BY <1>5 DEF WupTsk
  <2>2. PICK n : n = Now OBVIOUS
  <2>3. /\ n \in Kernel /\ Whole(n, {}, {}, mtxatr, stime, bpri, dsp)
        /\ n.msts = msts /\ n.wsts = wsts /\ n.timq = timq
        BY <2>2, NowTyped, NowIs
  <2>4. Calm(n, {}, {}, NONE, mtxatr, stime, bpri) /\ Running(n, dsp) BY <2>3, WholeIs
  <2>5. PICK k : k = Untimed(n, t) OBVIOUS
  <2>6. /\ Calm(k, {}, {} \cup {t}, NONE, mtxatr, stime, bpri) /\ OnlyTimq(k, n)
        /\ Running(k, dsp)
        BY <1>3, <2>4, <2>5, UntimedCalm
  <2>7. "WAI" \in k.msts[t] /\ k.wsts[t] = "SLP" /\ SameRun(k, n)
        BY <1>5, <2>3, <2>6 DEF OnlyTimq, SameTasks, Waits
  <2>8. "DMT" \notin k.msts[t] /\ "RDY" \notin k.msts[t]
    <3>1. Flagged(k.msts, k.wsts) BY <2>6 DEF Calm, Linked, MFlagged
    <3> QED BY <2>7, <3>1, FlagFacts
  <2>9. k.ctcb # t BY <2>6, <2>8, Constants DEF Running
  <2>10. PICK E, Y : E = {} /\ Y = {t} OBVIOUS
  <2>11. Calm(k, E, Y, NONE, mtxatr, stime, bpri)
    <3>1. {} \cup {t} = Y BY <2>10
    <3> QED BY <2>6, <2>10, <3>1
  <2>12. Unqueued(k, E, Y, t) BY <2>7, <2>8, <2>10, MConstants DEF Unqueued, Wants
  <2>13. PICK r : r = Readied(k, t) OBVIOUS
  <2>14. Calm(r, E \ {t}, Y \ {t}, NONE, mtxatr, stime, bpri)
         BY <1>3, <2>8, <2>11, <2>12, <2>13, ReadiedCalm
  <2>15. k \in Kernel BY <2>6 DEF OnlyTimq
  <2>16. Running(r, dsp) BY <2>6, <2>9, <2>13, <2>15, ReadiedRuns
  <2>17. E \ {t} = {} /\ Y \ {t} = {} BY <2>10
  <2>18. Whole(r, {}, {}, mtxatr, stime, bpri, dsp) BY <2>14, <2>16, <2>17, WholeIs
  <2>19. Become(r)
    <3>1. /\ k.msts = msts /\ k.wsts = wsts /\ k.cpri = cpri' /\ k.rdq = rdq
          /\ k.ctcb = ctcb /\ k.pri = pri /\ k.rdsp = rdsp
          /\ k.lockmtx = lockmtx' /\ k.owner = owner' /\ k.mpri = mpri' /\ k.mtxq = mtxq'
          BY <1>1, <1>2, <2>2, <2>6, NowIs DEF OnlyTimq, SameTasks, SameRun, SameMtx, SameChains
    <3>2. k.timq = timq'
      <4>1. CASE "TMR" \in n.msts[t]
        <5>1. k = [n EXCEPT !.timq = Unlink(@, t)] BY <2>5, <4>1 DEF Untimed
        <5>2. k.timq = Unlink(n.timq, t) BY <2>3, <5>1 DEF Kernel
        <5> QED BY <2>1, <2>3, <4>1, <5>2 DEF TimqWithout
      <4>2. CASE "TMR" \notin n.msts[t]
        <5>1. k = n BY <2>5, <4>2 DEF Untimed
        <5> QED BY <2>1, <2>3, <4>2, <5>1 DEF TimqWithout
      <4> QED BY <4>1, <4>2
    <3>3. EnqRdq(<<t>>, rdq, cpri') BY <1>1, <2>1
    <3> QED BY <1>1, <2>13, <2>15, <3>1, <3>2, <3>3, EnteredAs
  <2>20. MTypes' BY <1>1, <1>2, <2>1 DEF MIInv, MTypes
  <2>21. Whole(r, {}, {}, mtxatr', stime', bpri', dsp') BY <1>1, <1>2, <2>18
  <2> QED BY <2>19, <2>20, <2>21, Settles
<1> QED BY <1>4, <1>5

(* A task gives up its wait for a mutex, and the owner what it inherited.  *)
LEMMA LeftFacts ==
    ASSUME NEW k, NEW st \in [Task -> Stamp], bpri \in [Task -> 1..MaxPri],
           Whole(k, {}, {}, mtxatr, st, bpri, dsp),
           NEW t \in Task, WaitsForMtx(k, t), NEW r, r = Abandoned(Dequeued(k, t), k.wsts[t])
    PROVE  SameTasks(r, k) /\ Whole(r, {t}, {}, mtxatr, st, bpri, dsp)
<1>1. PICK m \in Mtx : m = k.wsts[t] BY DEF WaitsForMtx
<1>2. Wants(k.msts, k.wsts, t, m) BY <1>1 DEF WaitsForMtx, Wants
<1>3. PICK E : E = {} OBVIOUS
<1>4. Losing(k, E, E, m, st)
  <2>1. Whole(k, E, E, mtxatr, st, bpri, dsp) BY <1>3
  <2> QED BY <2>1, WholeLosing
<1>5. PICK d : d = Dequeued(k, t) OBVIOUS
<1>6. OnlyMtxq(d, k) /\ Losing(d, {t}, E, m, st)
  <2>1. Losing(k, {}, E, m, st) BY <1>3, <1>4
  <2> QED BY <1>2, <1>5, <2>1, LostWait
<1>7. PICK X : X = {t} OBVIOUS
<1>8. /\ d \in Kernel /\ Linked(d, X, E, mtxatr, st) /\ Running(d, dsp)
      /\ Chained(d.lockmtx, d.owner, NONE, {}) /\ Backed(d, X, mtxatr)
      /\ Offered(d, X, mtxatr, {m}) /\ Inheriting(d, {NONE}, mtxatr, bpri)
      BY <1>6, <1>7 DEF Losing
<1>9. d.msts = k.msts /\ d.wsts = k.wsts /\ d.owner = k.owner
      BY <1>6 DEF OnlyMtxq, SameTasks, SameMtx, SameChains
<1>10. d.owner[m] # NONE
  <2>1. Backed(k, E, mtxatr) BY <1>4 DEF Losing
  <2>2. k.owner[m] # NONE BY <1>2, <1>3, <2>1 DEF Backed
  <2> QED BY <1>9, <2>2
<1>11. X \in SUBSET Task /\ \A y \in X : Wants(d.msts, d.wsts, y, m) BY <1>2, <1>7, <1>9
<1>12. r = Abandoned(d, m) BY <1>1, <1>5
<1>13. SameTasks(r, d) /\ Whole(r, X, E, mtxatr, st, bpri, dsp)
       BY <1>8, <1>10, <1>11, <1>12, AbandonedFacts
<1> QED BY <1>3, <1>7, <1>9, <1>13 DEF SameTasks

(* rel_wai. *)
LEMMA MRelWaiStep ==
    ASSUME MIInv, NEW t \in Task, MRelWai(t)
    PROVE  MIInv'
<1>1. /\ WaitsForMtx(Now, t)
      /\ Become(Readied(Untimed(Abandoned(Dequeued(Now, t), wsts[t]), t), t))
      /\ bpri' = bpri /\ mtxatr' = mtxatr /\ act' = act /\ wup' = wup /\ stime' = stime
      /\ systim' = systim /\ dsp' = dsp
      BY DEF MRelWai, others
<1>2. bpri \in [Task -> 1..MaxPri] /\ stime \in [Task -> Stamp] BY DEF MIInv, MTypes
<1>3. PICK n : n = Now OBVIOUS
<1>4. Whole(n, {}, {}, mtxatr, stime, bpri, dsp) /\ n.wsts = wsts BY <1>3, NowTyped, NowIs
<1>5. PICK a : a = Abandoned(Dequeued(n, t), n.wsts[t]) OBVIOUS
<1>6. WaitsForMtx(n, t) BY <1>1, <1>3
<1>7. SameTasks(a, n) /\ Whole(a, {t}, {}, mtxatr, stime, bpri, dsp)
      BY <1>2, <1>4, <1>5, <1>6, LeftFacts
<1>8. PICK X : X = {t} OBVIOUS
<1>9. Calm(a, X, {}, NONE, mtxatr, stime, bpri) /\ Running(a, dsp) BY <1>7, <1>8, WholeIs
<1>10. PICK k : k = Untimed(a, t) OBVIOUS
<1>11. /\ Calm(k, X, {} \cup {t}, NONE, mtxatr, stime, bpri) /\ OnlyTimq(k, a)
       /\ Running(k, dsp)
       BY <1>2, <1>9, <1>10, UntimedCalm
<1>12. Calm(k, X, X, NONE, mtxatr, stime, bpri) /\ k \in Kernel
  <2>1. {} \cup {t} = X BY <1>8
  <2> QED BY <1>11, <2>1 DEF OnlyTimq
<1>13. "DMT" \notin k.msts[t] /\ "RDY" \notin k.msts[t]
  <2>1. Flagged(k.msts, k.wsts) BY <1>12 DEF Calm, Linked, MFlagged
  <2>2. "WAI" \in k.msts[t] BY <1>6, <1>7, <1>11 DEF OnlyTimq, SameTasks, WaitsForMtx
  <2> QED BY <2>1, <2>2, FlagFacts
<1>14. k.ctcb # t BY <1>11, <1>13, Constants DEF Running
<1>15. Unqueued(k, X, X, t) BY <1>8 DEF Unqueued
<1>16. PICK r : r = Readied(k, t) OBVIOUS
<1>17. Calm(r, X \ {t}, X \ {t}, NONE, mtxatr, stime, bpri)
       BY <1>2, <1>12, <1>13, <1>15, <1>16, ReadiedCalm
<1>18. Running(r, dsp) BY <1>11, <1>12, <1>14, <1>16, ReadiedRuns
<1>19. X \ {t} = {} BY <1>8
<1>20. Whole(r, {}, {}, mtxatr, stime, bpri, dsp) BY <1>17, <1>18, <1>19, WholeIs
<1>21. Become(r) BY <1>1, <1>3, <1>4, <1>5, <1>10, <1>16
<1>22. MTypes' BY <1>1 DEF MIInv, MTypes
<1>23. Whole(r, {}, {}, mtxatr', stime', bpri', dsp') BY <1>1, <1>20
<1> QED BY <1>21, <1>22, <1>23, Settles

(* A ready task is taken off the ready queue. *)
Off(r, k, t) ==
    /\ r \in Kernel /\ SameTasks(r, k) /\ SameMtx(r, k) /\ Unlinked(r.rdq, k.rdq, k.cpri[t], t)
    /\ r.cpri = k.cpri /\ r.mtxq = k.mtxq /\ r.timq = k.timq

(* The rest stays. *)
LEMMA OffCalm ==
    ASSUME NEW k, NEW Y, NEW x, NEW at, NEW st, NEW b, Calm(k, {}, Y, x, at, st, b),
           NEW t \in Task, "RDY" \in k.msts[t], NEW r, Off(r, k, t)
    PROVE  Calm(r, {t}, Y, x, at, st, b)
<1>1. PICK E, X : E = {} /\ X = {t} OBVIOUS
<1>2. /\ k \in Kernel /\ Linked(k, E, Y, at, st)
      /\ Chained(k.lockmtx, k.owner, x, {}) /\ Backed(k, E, at)
      /\ Offered(k, E, at, {}) /\ Inheriting(k, {x}, at, b)
      BY <1>1 DEF Calm
<1>3. /\ r \in Kernel /\ SameTasks(r, k) /\ SameMtx(r, k) /\ SameChains(r, k)
      /\ r.msts = k.msts /\ r.wsts = k.wsts /\ r.cpri = k.cpri /\ r.mtxq = k.mtxq
      /\ r.timq = k.timq /\ r.mpri = k.mpri /\ r.lockmtx = k.lockmtx /\ r.owner = k.owner
      BY DEF Off, SameTasks, SameMtx, SameChains
<1>4. k.rdq \in [1..MaxPri -> Seq(Task)] /\ k.cpri \in [Task -> 1..MaxPri] BY <1>2, KernelFields
<1>5. /\ MFlagged(k.msts, k.wsts, at) /\ OffRdq(k.rdq, k.msts, k.cpri, E)
      /\ OffMtxq(k.mtxq, k.msts, k.wsts, k.cpri, at, E) /\ OffTimq(k.timq, k.msts, st, Y)
      BY <1>2 DEF Linked
<1>6. \A m \in Mtx : ~Wants(k.msts, k.wsts, t, m)
  <2>1. Flagged(k.msts, k.wsts) BY <1>5 DEF MFlagged
  <2>2. "WAI" \notin k.msts[t] BY <2>1, FlagFacts
  <2> QED BY <2>2 DEF Wants
<1>7. Linked(r, X, Y, at, st)
  <2>1. OffRdq(r.rdq, k.msts, k.cpri, E \cup {t})
    <3>1. Unlinked(r.rdq, k.rdq, k.cpri[t], t) BY DEF Off
    <3> QED BY <1>4, <1>5, <3>1, MRdqDrop
  <2>2. E \cup {t} = X BY <1>1
  <2>3. OffMtxq(k.mtxq, k.msts, k.wsts, k.cpri, at, X)
    <3>1. \A u \in Task, n \in Mtx :
             /\ u \notin X /\ Wants(k.msts, k.wsts, u, n)
                   <=> u \notin E /\ Wants(k.msts, k.wsts, u, n)
             /\ u \notin E /\ Wants(k.msts, k.wsts, u, n) =>
                   (at[n] = at[n] /\ (at[n] # "FIFO" => k.cpri[u] = k.cpri[u]))
          BY <1>1, <1>6
    <3> QED BY <1>5, <3>1, MtxqStay
  <2> QED BY <1>3, <1>5, <2>1, <2>2, <2>3 DEF Linked
<1>8. Backed(r, X, at)
  <2>1. Backed(r, E, at) BY <1>2, <1>3, BackedSame
  <2> QED BY <1>1, <2>1 DEF Backed
<1>9. Offered(r, X, at, {})
  <2>1. ASSUME NEW m \in Mtx, at[m] = "INHERIT" PROVE OfferedAt(r, X, {}, m)
    <3>1. /\ \A u \in Task \ E : Wants(k.msts, k.wsts, u, m) => k.mpri[m] <= k.cpri[u]
          /\ (\A u \in Task \ E : ~Wants(k.msts, k.wsts, u, m)) => k.mpri[m] = TMAX_TPRI
          BY <1>2, <2>1 DEF Offered, OfferedAt
    <3>2. \A u \in Task : Wants(k.msts, k.wsts, u, m) => u \in Task \ X BY <1>1, <1>6
    <3> QED BY <1>1, <1>3, <3>1, <3>2 DEF OfferedAt
  <2> QED BY <2>1 DEF Offered
<1>10. Inheriting(r, {x}, at, b) BY <1>2, <1>3 DEF Inheriting, InheritedBy, Lifts, Held
<1>11. Chained(r.lockmtx, r.owner, x, {}) BY <1>2, <1>3
<1>12. X \subseteq Task BY <1>1
<1>13. Calm(r, X, Y, x, at, st, b) BY <1>3, <1>7, <1>8, <1>9, <1>10, <1>11, <1>12 DEF Calm
<1> QED BY <1>1, <1>13

(* Who runs does not matter to the rest. *)
AnyRun(r, k) == r = [k EXCEPT !.ctcb = NONE, !.rdsp = FALSE]

LEMMA CalmAnyRun ==
    ASSUME NEW k, NEW X, NEW Y, NEW x, NEW at, NEW st, NEW b, Calm(k, X, Y, x, at, st, b),
           NEW r, AnyRun(r, k)
    PROVE  Calm(r, X, Y, x, at, st, b) /\ r.ctcb = NONE /\ r.rdsp = FALSE
<1>1. /\ k \in Kernel /\ X \subseteq Task /\ Linked(k, X, Y, at, st)
      /\ Chained(k.lockmtx, k.owner, x, {}) /\ Backed(k, X, at)
      /\ Offered(k, X, at, {}) /\ Inheriting(k, {x}, at, b)
      BY DEF Calm
<1>2. r \in Kernel BY <1>1 DEF Kernel, AnyRun
<1>3. /\ r.msts = k.msts /\ r.wsts = k.wsts /\ r.cpri = k.cpri /\ r.rdq = k.rdq
      /\ r.timq = k.timq /\ r.lockmtx = k.lockmtx /\ r.owner = k.owner
      /\ r.mpri = k.mpri /\ r.mtxq = k.mtxq /\ r.ctcb = NONE /\ r.rdsp = FALSE
      BY <1>1 DEF Kernel, AnyRun
<1>4. Linked(r, X, Y, at, st) BY <1>1, <1>3 DEF Linked
<1>5. Backed(r, X, at)
  <2>1. SameTasks(r, k) /\ SameChains(r, k) BY <1>3 DEF SameTasks, SameChains
  <2> QED BY <1>1, <2>1, BackedSame
<1>6. Offered(r, X, at, {}) BY <1>1, <1>3 DEF Offered, OfferedAt
<1>7. Inheriting(r, {x}, at, b) BY <1>1, <1>3 DEF Inheriting, InheritedBy, Lifts, Held
<1> QED BY <1>1, <1>2, <1>3, <1>4, <1>5, <1>6, <1>7 DEF Calm

(* The end of a task without mutexes, and its next start. *)
Restarted(b2, t) == b2 = [bpri EXCEPT ![t] = IF act[t] > 0 THEN Ipri[t] ELSE @]

(* A task that ends starts again when its activation was requested. *)
LEMMA StartedAnewFacts ==
    ASSUME MTypes, NEW k, NEW X, NEW Y, NEW t \in Task,
           Calm(k, X, Y, t, mtxatr, stime, bpri), k.lockmtx[t] = <<>>,
           X \subseteq {t}, Y \subseteq {t}, Unqueued(k, X, Y, t),
           NEW b2, Restarted(b2, t), NEW r, r = StartedAnew(k, t)
    PROVE  /\ Calm(r, {}, {}, NONE, mtxatr, stime, b2)
           /\ k.ctcb # t /\ Running(k, dsp) => Running(r, dsp)
<1>0. stime \in [Task -> Stamp] /\ bpri \in [Task -> 1..MaxPri] /\ act \in [Task -> 0..MaxAct]
      BY DEF MTypes
<1>1. k \in Kernel BY DEF Calm
<1>2. PICK i \in 1..MaxPri : i = Ipri[t] BY Constants
<1>3. b2 \in [Task -> 1..MaxPri] /\ \A u \in Task \ {t} : b2[u] = bpri[u]
      BY <1>0, <1>2 DEF Restarted
<1>4. PICK x : x = t OBVIOUS
<1>5. x \in {NONE, t} /\ Calm(k, X, Y, x, mtxatr, stime, bpri) BY <1>4
<1>6. k.msts \in [Task -> SUBSET Flags] /\ k.cpri \in [Task -> 1..MaxPri] BY <1>1, KernelFields
<1>7. PICK Z : Z = {t} OBVIOUS
<1>8. act[t] \in Nat BY <1>0, Constants
<1>9. CASE act[t] = 0
  <2>1. PICK f, c : f = {"DMT"} /\ c = k.cpri[t] OBVIOUS
  <2>2. c \in 1..MaxPri /\ f \in {{"DMT"}, {"RDY"}} /\ (f = {"RDY"} => c = b2[t])
        BY <1>6, <2>1
  <2>3. r = [k EXCEPT !.msts[t] = f] BY <1>9, <2>1 DEF StartedAnew
  <2>4. Anew(r, k, t, f, c)
    <3>1. f \in SUBSET Flags BY <2>1 DEF Flags
    <3>2. [k.msts EXCEPT ![t] = f] \in [Task -> SUBSET Flags] BY <1>6, <3>1
    <3>3. r \in Kernel BY <1>1, <2>3, <3>2 DEF Kernel
    <3>4. /\ r.msts = [k.msts EXCEPT ![t] = f] /\ r.cpri = k.cpri /\ r.wsts = k.wsts
          /\ r.rdq = k.rdq /\ r.mtxq = k.mtxq /\ r.timq = k.timq
          /\ SameRun(r, k) /\ SameMtx(r, k)
          BY <1>1, <2>3 DEF Kernel, SameRun, SameMtx, SameChains
    <3>5. r.cpri = [k.cpri EXCEPT ![t] = c] BY <1>6, <2>1, <3>4
    <3> QED BY <3>3, <3>4, <3>5 DEF Anew
  <2>5. AnewAs(r, k, t, stime, b2) BY <1>0, <1>3, <1>5, <2>2, <2>4, AnewFacts
  <2>6. Calm(r, {t}, {t}, NONE, mtxatr, stime, b2) /\ (k.ctcb # t /\ Running(k, dsp) => Running(r, dsp))
        BY <2>5 DEF AnewAs
  <2>7. Unqueued(r, {}, {}, t)
    <3>1. r.msts[t] = {"DMT"} BY <1>6, <2>1, <2>4 DEF Anew
    <3> QED BY <3>1 DEF Unqueued, Wants
  <2> QED BY <2>6, <2>7, Unexcepted
<1>10. CASE act[t] # 0
  <2>1. PICK f : f = {"RDY"} OBVIOUS
  <2>2. i = b2[t] /\ f \in {{"DMT"}, {"RDY"}} BY <1>0, <1>2, <1>8, <1>10, <2>1 DEF Restarted
  <2>3. PICK h : h = [k EXCEPT !.msts[t] = f, !.cpri[t] = i] OBVIOUS
  <2>4. Anew(h, k, t, f, i)
    <3>1. f \in SUBSET Flags BY <2>1 DEF Flags
    <3>2. /\ [k.msts EXCEPT ![t] = f] \in [Task -> SUBSET Flags]
          /\ [k.cpri EXCEPT ![t] = i] \in [Task -> 1..MaxPri]
          BY <1>6, <3>1
    <3>3. h \in Kernel BY <1>1, <2>3, <3>2 DEF Kernel
    <3>4. /\ h.msts = [k.msts EXCEPT ![t] = f] /\ h.wsts = k.wsts
          /\ h.cpri = [k.cpri EXCEPT ![t] = i]
          /\ h.rdq = k.rdq /\ h.mtxq = k.mtxq /\ h.timq = k.timq
          /\ SameRun(h, k) /\ SameMtx(h, k)
          BY <1>1, <2>3 DEF Kernel, SameRun, SameMtx, SameChains
    <3> QED BY <3>3, <3>4 DEF Anew
  <2>5. AnewAs(h, k, t, stime, b2) BY <1>0, <1>3, <1>5, <2>2, <2>4, AnewFacts
  <2>6. /\ Calm(h, Z, Z, NONE, mtxatr, stime, b2) /\ InheritedBy(h, mtxatr, b2, t) = b2[t]
        /\ k.ctcb # t /\ Running(k, dsp) => Running(h, dsp)
        BY <1>7, <2>5 DEF AnewAs
  <2>7. r = Readied(h, t) BY <1>2, <1>10, <2>1, <2>3 DEF StartedAnew
  <2>8. h.cpri[t] = InheritedBy(h, mtxatr, b2, t)
    <3>1. h.cpri[t] = i BY <1>6, <2>4 DEF Anew
    <3> QED BY <2>2, <2>6, <3>1
  <2>9. Unqueued(h, Z, Z, t) BY <1>7 DEF Unqueued
  <2>10. Calm(r, Z \ {t}, Z \ {t}, NONE, mtxatr, stime, b2)
         BY <1>0, <2>6, <2>7, <2>8, <2>9, ReadiedCalm
  <2>11. Z \ {t} = {} BY <1>7
  <2>12. ASSUME k.ctcb # t, Running(k, dsp) PROVE Running(r, dsp)
    <3>1. h \in Kernel /\ h.ctcb # t BY <2>4, <2>12 DEF Anew, SameRun
    <3> QED BY <2>6, <2>7, <2>12, <3>1, ReadiedRuns
  <2> QED BY <2>10, <2>11, <2>12
<1> QED BY <1>9, <1>10

(* Both ways of ending count an activation. *)
LEMMA RestartsFacts ==
    ASSUME MTypes, NEW t \in Task, Restarts(t)
    PROVE  /\ Restarted(bpri', t) /\ bpri' \in [Task -> 1..MaxPri]
           /\ act' \in [Task -> 0..MaxAct]
<1>1. bpri \in [Task -> 1..MaxPri] /\ act \in [Task -> 0..MaxAct] BY DEF MTypes
<1>2. PICK i \in 1..MaxPri : i = Ipri[t] BY Constants
<1>3. PICK j \in 0..MaxAct : j = act[t] BY <1>1
<1>4. (IF j > 0 THEN j - 1 ELSE 0) \in 0..MaxAct BY Constants
<1>5. act' \in [Task -> 0..MaxAct] BY <1>1, <1>3, <1>4 DEF Restarts
<1>6. bpri' \in [Task -> 1..MaxPri] BY <1>1, <1>2 DEF Restarts
<1> QED BY <1>5, <1>6 DEF Restarts, Restarted

(* ext_tsk: _kernel_exttsk, _kernel_clrmtx, _kernel_reltsk. *)
LEMMA MExtTskStep ==
    ASSUME MIInv, NEW t \in Task, MExtTsk(t)
    PROVE  MIInv'
<1>1. /\ ctcb = t /\ dsp' = FALSE /\ Restarts(t)
      /\ UNCHANGED <<wup, stime, systim, mtxatr>>
      BY DEF MExtTsk
<1>2. PICK n : n = Now OBVIOUS
<1>3. /\ Whole(n, {}, {}, mtxatr, stime, bpri, dsp) /\ n.ctcb = ctcb /\ n.cpri = cpri
      BY <1>2, NowTyped, NowIs
<1>4. MTypes /\ stime \in [Task -> Stamp] /\ bpri \in [Task -> 1..MaxPri] BY DEF MIInv, MTypes
<1>5. "RDY" \in n.msts[t] BY <1>1, <1>3, Constants DEF Whole, Part, Running
<1>6. PICK k : k = AllHandedOver(n, t) OBVIOUS
<1>7. PICK E : E = {} OBVIOUS
<1>8. Unburdened(k, n, t) /\ Part(k, E, E, t, {}, mtxatr, stime, bpri, dsp)
  <2>1. E \subseteq {t} /\ Whole(n, E, E, mtxatr, stime, bpri, dsp) BY <1>3, <1>7
  <2> QED BY <1>4, <1>6, <2>1, AllHandedOverFacts
<1>9. Calm(k, E, E, t, mtxatr, stime, bpri) BY <1>8, CalmAndRunning
<1>10. k \in Kernel /\ k.lockmtx[t] = <<>> /\ k.msts[t] = n.msts[t] /\ k.cpri[t] = n.cpri[t]
       BY <1>8, <1>9 DEF Unburdened, Calm
<1>11. PICK off : off = [k EXCEPT !.rdq[cpri[t]] = Unlink(@, t), !.ctcb = NONE, !.rdsp = FALSE]
       OBVIOUS
<1>12. PICK c \in 1..MaxPri : c = k.cpri[t] /\ c = cpri[t] BY <1>3, <1>10, KernelFields
<1>13. PICK q : q = [k.rdq EXCEPT ![c] = Unlink(@, t)] OBVIOUS
<1>14. q \in [1..MaxPri -> Seq(Task)]
  <2>1. OffRdq(k.rdq, k.msts, k.cpri, E) BY <1>9 DEF Calm, Linked
  <2>2. Unlinked(q, k.rdq, k.cpri[t], t) BY <1>12, <1>13 DEF Unlinked
  <2>3. k.rdq \in [1..MaxPri -> Seq(Task)] /\ k.cpri \in [Task -> 1..MaxPri]
        BY <1>10, KernelFields
  <2> QED BY <2>1, <2>2, <2>3, MRdqDrop
<1>15. off = [k EXCEPT !.rdq = q, !.ctcb = NONE, !.rdsp = FALSE]
       BY <1>10, <1>11, <1>12, <1>13 DEF Kernel
<1>16. off \in Kernel /\ off.lockmtx = k.lockmtx /\ off.msts = k.msts /\ off.rdq = q
       /\ SameTasks(off, k) /\ SameMtx(off, k) /\ off.cpri = k.cpri /\ off.mtxq = k.mtxq
       /\ off.timq = k.timq
       BY <1>10, <1>14, <1>15 DEF Kernel, SameTasks, SameMtx, SameChains
<1>17. Off(off, k, t) BY <1>12, <1>13, <1>16 DEF Off, Unlinked
<1>18. PICK X : X = {t} OBVIOUS
<1>19. Calm(off, X, E, t, mtxatr, stime, bpri)
  <2>1. Calm(k, {}, E, t, mtxatr, stime, bpri) BY <1>7, <1>9
  <2>2. "RDY" \in k.msts[t] BY <1>5, <1>10
  <2> QED BY <1>17, <1>18, <2>1, <2>2, OffCalm
<1>20. Unqueued(off, X, E, t)
  <2>1. Flagged(k.msts, k.wsts) BY <1>9 DEF Calm, Linked, MFlagged
  <2>2. "TMR" \notin k.msts[t] BY <1>5, <1>10, <2>1, FlagFacts
  <2> QED BY <1>16, <1>18, <2>2 DEF Unqueued
<1>21. PICK b2 : b2 = bpri' OBVIOUS
<1>22. Restarted(b2, t) /\ bpri' \in [Task -> 1..MaxPri] /\ act' \in [Task -> 0..MaxAct]
       BY <1>1, <1>4, <1>21, RestartsFacts
<1>23. PICK s : s = StartedAnew(off, t) OBVIOUS
<1>24. Calm(s, {}, {}, NONE, mtxatr, stime, b2)
  <2>1. X \subseteq {t} /\ E \subseteq {t} /\ off.lockmtx[t] = <<>> BY <1>7, <1>10, <1>16, <1>18
  <2> QED BY <1>4, <1>19, <1>20, <1>22, <1>23, <2>1, StartedAnewFacts
<1>25. PICK r : r = [s EXCEPT !.ctcb = NONE, !.rdsp = FALSE] OBVIOUS
<1>26. Calm(r, {}, {}, NONE, mtxatr, stime, b2) /\ r.ctcb = NONE /\ r.rdsp = FALSE
  <2>1. Calm(s, E, E, NONE, mtxatr, stime, b2) BY <1>7, <1>24
  <2>2. Calm(r, E, E, NONE, mtxatr, stime, b2) /\ r.ctcb = NONE /\ r.rdsp = FALSE
    <3>1. AnyRun(r, s) BY <1>25 DEF AnyRun
    <3> QED BY <2>1, <3>1, CalmAnyRun
  <2> QED BY <1>7, <2>2
<1>27. Running(r, FALSE) BY <1>26 DEF Running
<1>28. Whole(r, {}, {}, mtxatr, stime, b2, FALSE) BY <1>26, <1>27, WholeIs
<1>29. Become(r) BY <1>2, <1>6, <1>11, <1>23, <1>25 DEF MExtTsk
<1>30. MTypes' BY <1>1, <1>4, <1>22 DEF MTypes
<1>31. Whole(r, {}, {}, mtxatr', stime', bpri', dsp') BY <1>1, <1>21, <1>28
<1> QED BY <1>29, <1>30, <1>31, Settles

(* A task to be terminated has left its queue, if it was on one.           *)
LeftAs(k, n, X, t) ==
    /\ Whole(k, X, {}, mtxatr, stime, bpri, dsp) /\ X \subseteq {t} /\ k.ctcb # t
    /\ k.msts[t] = n.msts[t] /\ k.wsts[t] = n.wsts[t]
    /\ t \notin X => "RDY" \notin k.msts[t] /\ \A m \in Mtx : ~Wants(k.msts, k.wsts, t, m)

(* _kernel_tertsk takes it off. *)
LEMMA TerminatedLeft ==
    ASSUME MIInv, NEW t \in Task, ctcb # t, NEW left,
           left = CASE Ready(t) -> [Now EXCEPT !.rdq[cpri[t]] = Unlink(@, t)]
                    [] WaitsForMtx(Now, t) -> Abandoned(Dequeued(Now, t), wsts[t])
                    [] OTHER -> Now
    PROVE  \E X : LeftAs(left, Now, X, t)
<1>1. PICK n : n = Now OBVIOUS
<1>2. /\ n \in Kernel /\ Whole(n, {}, {}, mtxatr, stime, bpri, dsp)
      /\ n.msts = msts /\ n.wsts = wsts /\ n.cpri = cpri /\ n.ctcb = ctcb
      BY <1>1, NowTyped, NowIs
<1>3. stime \in [Task -> Stamp] /\ bpri \in [Task -> 1..MaxPri] BY DEF MIInv, MTypes
<1>4. Calm(n, {}, {}, NONE, mtxatr, stime, bpri) /\ Running(n, dsp) BY <1>2, WholeIs
<1>5. Flagged(n.msts, n.wsts) BY <1>4 DEF Calm, Linked, MFlagged
<1>6. Ready(t) => ~WaitsForMtx(n, t)
  <2>1. "RDY" \in n.msts[t] => "WAI" \notin n.msts[t] BY <1>5, FlagFacts
  <2> QED BY <1>2, <2>1 DEF Ready, WaitsForMtx
<1>7. CASE Ready(t)
  <2>1. left = [n EXCEPT !.rdq[cpri[t]] = Unlink(@, t)] BY <1>1, <1>6, <1>7
  <2>2. PICK c \in 1..MaxPri : c = n.cpri[t] /\ c = cpri[t] BY <1>2, KernelFields
  <2>3. PICK q : q = [n.rdq EXCEPT ![c] = Unlink(@, t)] OBVIOUS
  <2>4. OffRdq(n.rdq, n.msts, n.cpri, {}) /\ Unlinked(q, n.rdq, n.cpri[t], t)
        BY <1>4, <2>2, <2>3 DEF Calm, Linked, Unlinked
  <2>5. n.rdq \in [1..MaxPri -> Seq(Task)] /\ n.cpri \in [Task -> 1..MaxPri] BY <1>2, KernelFields
  <2>6. q \in [1..MaxPri -> Seq(Task)] BY <2>4, <2>5, MRdqDrop
  <2>7. left = [n EXCEPT !.rdq = q] BY <1>2, <2>1, <2>2, <2>3 DEF Kernel
  <2>8. /\ left \in Kernel /\ left.rdq = q /\ left.msts = n.msts /\ left.wsts = n.wsts
        /\ SameTasks(left, n) /\ SameMtx(left, n) /\ left.cpri = n.cpri /\ left.mtxq = n.mtxq
        /\ left.timq = n.timq
        /\ left.ctcb = n.ctcb /\ left.pri = n.pri /\ left.rdsp = n.rdsp
        BY <1>2, <2>6, <2>7 DEF Kernel, SameTasks, SameMtx, SameChains
  <2>9. Off(left, n, t) BY <2>4, <2>8 DEF Off
  <2>10. "RDY" \in n.msts[t] BY <1>2, <1>7 DEF Ready
  <2>11. Calm(left, {t}, {}, NONE, mtxatr, stime, bpri) BY <1>4, <2>9, <2>10, OffCalm
  <2>12. Running(left, dsp)
    <3>1. ASSUME n.ctcb # NONE, ~n.rdsp PROVE n.pri = n.cpri[n.ctcb] /\ First(q, n.pri, n.ctcb)
      <4>1. n.pri = n.cpri[n.ctcb] /\ First(n.rdq, n.pri, n.ctcb) BY <1>4, <3>1 DEF Running
      <4>2. n.ctcb \in Task /\ n.ctcb # t BY <1>2, <3>1, KernelFields
      <4>3. PICK u, p : u = n.ctcb /\ p = n.pri OBVIOUS
      <4>4. p \in 1..MaxPri /\ First(n.rdq, p, u) /\ t # u BY <2>5, <4>1, <4>2, <4>3
      <4>5. \A i \in 1..MaxPri : Once(n.rdq[i]) BY <2>4 DEF OffRdq
      <4>6. Unlinked(q, n.rdq, c, t) BY <2>2, <2>4
      <4>7. First(q, p, u) BY <2>5, <4>4, <4>5, <4>6, FirstUnlink
      <4> QED BY <4>1, <4>3, <4>7
    <3> QED BY <1>4, <2>8, <3>1 DEF Running
  <2>13. Whole(left, {t}, {}, mtxatr, stime, bpri, dsp) BY <2>11, <2>12, WholeIs
  <2>14. PICK X : X = {t} OBVIOUS
  <2>15. Whole(left, X, {}, mtxatr, stime, bpri, dsp) /\ X \subseteq {t} /\ t \in X
         BY <2>13, <2>14
  <2>16. left.ctcb # t BY <1>2, <2>8
  <2>17. LeftAs(left, n, X, t) BY <2>8, <2>15, <2>16 DEF LeftAs
  <2> QED BY <1>1, <2>17
<1>8. CASE WaitsForMtx(n, t)
  <2>1. left = Abandoned(Dequeued(n, t), n.wsts[t]) BY <1>1, <1>2, <1>6, <1>8
  <2>2. SameTasks(left, n) /\ Whole(left, {t}, {}, mtxatr, stime, bpri, dsp)
        BY <1>2, <1>3, <1>8, <2>1, LeftFacts
  <2>3. "RDY" \notin left.msts[t]
    <3>1. "WAI" \in n.msts[t] BY <1>8 DEF WaitsForMtx
    <3>2. "RDY" \notin n.msts[t] BY <1>5, <3>1, FlagFacts
    <3> QED BY <2>2, <3>2 DEF SameTasks
  <2>4. left.ctcb # t
    <3>1. Running(left, dsp) BY <2>2, WholeIs
    <3> QED BY <2>3, <3>1, Constants DEF Running
  <2>5. PICK X : X = {t} OBVIOUS
  <2>6. Whole(left, X, {}, mtxatr, stime, bpri, dsp) /\ X \subseteq {t} /\ t \in X
        BY <2>2, <2>5
  <2>7. LeftAs(left, n, X, t) BY <2>2, <2>4, <2>6 DEF LeftAs, SameTasks
  <2> QED BY <1>1, <2>7
<1>9. CASE ~Ready(t) /\ ~WaitsForMtx(n, t)
  <2>1. left = n BY <1>1, <1>9
  <2>2. "RDY" \notin n.msts[t] /\ \A m \in Mtx : ~Wants(n.msts, n.wsts, t, m)
        BY <1>2, <1>9 DEF Ready, WaitsForMtx, Wants
  <2>3. PICK X : X = {} OBVIOUS
  <2>4. Whole(n, X, {}, mtxatr, stime, bpri, dsp) /\ X \subseteq {t} BY <1>2, <2>3
  <2>5. LeftAs(left, n, X, t) BY <1>2, <2>1, <2>2, <2>4 DEF LeftAs
  <2> QED BY <1>1, <2>5
<1> QED BY <1>7, <1>8, <1>9

(* ter_tsk. *)
LEMMA MTerTskStep ==
    ASSUME MIInv, NEW t \in Task, MTerTsk(t)
    PROVE  MIInv'
<1>1. /\ ctcb # NONE /\ ctcb # t /\ ~Dormant(t) /\ Restarts(t)
      /\ UNCHANGED <<wup, stime, dsp, systim, mtxatr>>
      BY DEF MTerTsk
<1>2. MTypes /\ stime \in [Task -> Stamp] /\ bpri \in [Task -> 1..MaxPri] BY DEF MIInv, MTypes
<1>3. PICK left : left = CASE Ready(t) -> [Now EXCEPT !.rdq[cpri[t]] = Unlink(@, t)]
                           [] WaitsForMtx(Now, t) -> Abandoned(Dequeued(Now, t), wsts[t])
                           [] OTHER -> Now
      OBVIOUS
<1>4. PICK off : off = IF Waits(t) THEN Untimed(left, t) ELSE left OBVIOUS
<1>5. PICK k : k = AllHandedOver(off, t) OBVIOUS
<1>6. PICK r : r = StartedAnew(k, t) OBVIOUS
<1>7. Become(r) BY <1>3, <1>4, <1>5, <1>6 DEF MTerTsk
<1>8. PICK X : LeftAs(left, Now, X, t) BY <1>1, <1>3, TerminatedLeft
<1>9. /\ Whole(left, X, {}, mtxatr, stime, bpri, dsp) /\ X \subseteq {t} /\ left.ctcb # t
      /\ left.msts[t] = msts[t] /\ left.wsts[t] = wsts[t]
      /\ t \notin X => "RDY" \notin left.msts[t] /\ \A m \in Mtx : ~Wants(left.msts, left.wsts, t, m)
      BY <1>8, NowIs DEF LeftAs
<1>10. Calm(left, X, {}, NONE, mtxatr, stime, bpri) /\ Running(left, dsp) BY <1>9, WholeIs
<1>11. PICK Y : Y = IF Waits(t) THEN {t} ELSE {} OBVIOUS
<1>12. /\ Whole(off, X, Y, mtxatr, stime, bpri, dsp) /\ off.ctcb = left.ctcb
       /\ off.msts = left.msts /\ off.wsts = left.wsts
  <2>1. CASE Waits(t)
    <3>1. off = Untimed(left, t) BY <1>4, <2>1
    <3>2. /\ Calm(off, X, {} \cup {t}, NONE, mtxatr, stime, bpri) /\ OnlyTimq(off, left)
          /\ Running(off, dsp)
          BY <1>2, <1>10, <3>1, UntimedCalm
    <3>3. {} \cup {t} = Y BY <1>11, <2>1
    <3>4. Calm(off, X, Y, NONE, mtxatr, stime, bpri) BY <3>2, <3>3
    <3> QED BY <3>2, <3>4, WholeIs DEF OnlyTimq, SameRun, SameTasks
  <2>2. CASE ~Waits(t) BY <1>4, <1>9, <1>11, <2>2
  <2> QED BY <2>1, <2>2
<1>13. Y \subseteq {t} BY <1>11
<1>14. Unburdened(k, off, t) /\ Part(k, X, Y, t, {}, mtxatr, stime, bpri, dsp)
       BY <1>2, <1>5, <1>9, <1>12, <1>13, AllHandedOverFacts
<1>15. Calm(k, X, Y, t, mtxatr, stime, bpri) /\ Running(k, dsp) BY <1>14, CalmAndRunning
<1>16. /\ k.lockmtx[t] = <<>> /\ k.msts[t] = msts[t] /\ k.wsts[t] = wsts[t]
       /\ k.ctcb \in {off.ctcb, NONE}
       BY <1>9, <1>12, <1>14 DEF Unburdened
<1>17. k.ctcb # t BY <1>9, <1>12, <1>16, Constants
<1>18. Unqueued(k, X, Y, t)
  <2>1. t \notin X => "RDY" \notin k.msts[t] /\ \A m \in Mtx : ~Wants(k.msts, k.wsts, t, m)
        BY <1>9, <1>16 DEF Wants
  <2>2. t \notin Y => "TMR" \notin k.msts[t]
    <3>1. t \notin Y => "WAI" \notin k.msts[t] BY <1>11, <1>16 DEF Waits
    <3>2. Flagged(k.msts, k.wsts) BY <1>15 DEF Calm, Linked, MFlagged
    <3> QED BY <3>1, <3>2, FlagFacts
  <2> QED BY <2>1, <2>2 DEF Unqueued
<1>19. PICK b2 : b2 = bpri' OBVIOUS
<1>20. Restarted(b2, t) /\ bpri' \in [Task -> 1..MaxPri] /\ act' \in [Task -> 0..MaxAct]
       BY <1>1, <1>2, <1>19, RestartsFacts
<1>21. Calm(r, {}, {}, NONE, mtxatr, stime, b2) /\ Running(r, dsp)
       BY <1>2, <1>6, <1>9, <1>13, <1>15, <1>16, <1>17, <1>18, <1>20, StartedAnewFacts
<1>22. Whole(r, {}, {}, mtxatr, stime, b2, dsp) BY <1>21, WholeIs
<1>23. MTypes' BY <1>1, <1>2, <1>20 DEF MTypes
<1>24. Whole(r, {}, {}, mtxatr', stime', bpri', dsp') BY <1>1, <1>19, <1>22
<1> QED BY <1>7, <1>23, <1>24, Settles

(* _kernel_sigtim, for one tick. *)
LEMMA MSigTimStep ==
    ASSUME MIInv, MSigTim
    PROVE  MIInv'
<1>1. PICK now, over : now = systim' /\ over = DueOf(timq, stime, systim') OBVIOUS
<1>2. /\ systim' = Advance(systim, Tick)
      /\ Become(AllTimedOut([Now EXCEPT !.timq = RestOf(@, stime, systim')],
                            DueOf(timq, stime, systim')))
      /\ UNCHANGED <<act, wup, stime, dsp, bpri, mtxatr>>
      BY DEF MSigTim
<1>3. stime \in [Task -> Stamp] /\ systim \in Stamp /\ bpri \in [Task -> 1..MaxPri]
      BY DEF MIInv, MTypes
<1>4. now \in Stamp BY <1>1, <1>2, <1>3, Constants, AdvanceExact
<1>5. PICK n : n = Now OBVIOUS
<1>6. n \in Kernel /\ Whole(n, {}, {}, mtxatr, stime, bpri, dsp) /\ n.msts = msts /\ n.timq = timq
      BY <1>5, NowTyped, NowIs
<1>7. /\ Calm(n, {}, {}, NONE, mtxatr, stime, bpri) /\ Running(n, dsp)
      BY <1>6, WholeIs
<1>8. PICK tq, st : tq = timq /\ st = stime OBVIOUS
<1>9. /\ tq \in Seq(Task) /\ st \in [Task -> Stamp] /\ Once(tq) /\ InTime(tq, st)
      /\ \A t \in Task : t \in ToSet(tq) <=> "TMR" \in n.msts[t]
  <2>1. OffTimq(n.timq, n.msts, stime, {}) BY <1>7 DEF Calm, Linked
  <2>2. n.timq \in Seq(Task) BY <1>6, KernelFields
  <2> QED BY <1>3, <1>6, <1>8, <2>1, <2>2 DEF OffTimq
<1>10. PICK rest : rest = RestOf(tq, st, now) OBVIOUS
<1>11. /\ over \in Seq(Task) /\ rest \in Seq(Task) /\ Once(over) /\ Once(rest)
       /\ InTime(rest, st)
       /\ \A t : t \in ToSet(over) <=> t \in ToSet(tq) /\ Value(st[t]) <= Value(now)
       /\ \A t : t \in ToSet(rest) <=> t \in ToSet(tq) /\ Value(st[t]) > Value(now)
       BY <1>1, <1>4, <1>8, <1>9, <1>10, DueFacts
<1>12. \A t \in Task : Value(st[t]) \in Nat BY <1>9, ValueType
<1>13. Value(now) \in Nat BY <1>4, ValueType
<1>14. PICK Y : Y = ToSet(over) OBVIOUS
<1>15. ASSUME NEW t \in Task PROVE t \in ToSet(rest) <=> t \notin Y /\ "TMR" \in n.msts[t]
  <2>1. Value(st[t]) <= Value(now) <=> ~(Value(st[t]) > Value(now)) BY <1>12, <1>13
  <2> QED BY <1>9, <1>11, <1>14, <2>1
<1>16. PICK k : k = [n EXCEPT !.timq = rest] OBVIOUS
<1>17. /\ k \in Kernel /\ SameTasks(k, n) /\ SameRun(k, n) /\ SameMtx(k, n) /\ k.cpri = n.cpri
       /\ k.rdq = n.rdq /\ k.mtxq = n.mtxq /\ k.timq = rest /\ k.msts = n.msts
       BY <1>6, <1>11, <1>16 DEF Kernel, SameTasks, SameRun, SameMtx, SameChains
<1>18. OnlyQueues(k, n) BY <1>17 DEF OnlyQueues
<1>19. /\ Running(k, dsp) /\ Backed(k, {}, mtxatr) /\ Offered(k, {}, mtxatr, {})
       /\ Inheriting(k, {NONE}, mtxatr, bpri)
       BY <1>6, <1>7, <1>18, QueuesKeep DEF Calm
<1>20. Linked(k, {}, Y, mtxatr, stime)
  <2>1. OffTimq(rest, n.msts, stime, Y) BY <1>8, <1>11, <1>15 DEF OffTimq
  <2>2. Linked(n, {}, {}, mtxatr, stime) BY <1>7 DEF Calm
  <2> QED BY <1>17, <2>1, <2>2 DEF Linked, SameTasks
<1>21. Chained(k.lockmtx, k.owner, NONE, {}) BY <1>7, <1>17 DEF Calm, SameMtx, SameChains
<1>22. Calm(k, {}, Y, NONE, mtxatr, stime, bpri)
       BY <1>17, <1>19, <1>20, <1>21 DEF Calm
<1>23. Whole(k, {}, Y, mtxatr, stime, bpri, dsp) BY <1>19, <1>22, WholeIs
<1>24. \A i \in 1..Len(over) : "TMR" \in k.msts[over[i]]
  <2>1. ToSet(over) = {over[i] : i \in 1..Len(over)} BY <1>11, ToSetFacts
  <2>2. \A i \in 1..Len(over) : over[i] \in Task /\ over[i] \in ToSet(tq) BY <1>11, <2>1
  <2> QED BY <1>9, <1>17, <2>2
<1>25. PICK r : r = AllTimedOut(k, over) OBVIOUS
<1>26. Whole(r, {}, {}, mtxatr, stime, bpri, dsp)
  <2>1. Whole(k, {}, ToSet(over), mtxatr, stime, bpri, dsp) BY <1>14, <1>23
  <2> QED BY <1>3, <1>11, <1>24, <1>25, <2>1, AllTimedOutFacts
<1>27. Become(r)
  <2>1. k = [Now EXCEPT !.timq = RestOf(@, stime, systim')]
    <3>1. rest = RestOf(n.timq, stime, systim') BY <1>1, <1>6, <1>8, <1>10
    <3> QED BY <1>5, <1>6, <1>16, <3>1 DEF Kernel
  <2> QED BY <1>1, <1>2, <1>25, <2>1
<1>28. MTypes' BY <1>1, <1>2, <1>4 DEF MIInv, MTypes
<1>29. Whole(r, {}, {}, mtxatr', stime', bpri', dsp') BY <1>2, <1>26
<1> QED BY <1>27, <1>28, <1>29, Settles

-----------------------------------------------------------------------------
(* CHG_PRI                                                                 *)

(* When all priorities are handed on, the state is whole again. *)
LEMMA HandedOnWhole ==
    ASSUME NEW k, NEW X \in SUBSET Task, NEW Y, NEW st, NEW b, Backed(k, X, mtxatr),
           Chained(k.lockmtx, k.owner, NONE, {}), NEW r, HandedOn(r, k, X, Y, st, {}, b)
    PROVE  Whole(r, X, Y, mtxatr, st, b, dsp)
<1>1. /\ r \in Kernel /\ SameTasks(r, k) /\ SameChains(r, k)
      /\ Linked(r, X, Y, mtxatr, st) /\ Running(r, dsp) /\ Offered(r, X, mtxatr, {})
      /\ Inheriting(r, {}, mtxatr, b)
      BY DEF HandedOn
<1>2. Backed(r, X, mtxatr) BY <1>1, BackedSame
<1>3. Chained(r.lockmtx, r.owner, NONE, {}) BY <1>1 DEF SameChains
<1>4. Inheriting(r, {NONE}, mtxatr, b) BY <1>1 DEF Inheriting
<1> QED BY <1>1, <1>2, <1>3, <1>4 DEF Whole, Part

(* chg_pri. *)
LEMMA MChgPriStep ==
    ASSUME MIInv, NEW t \in Task, NEW p \in 1..MaxPri, MChgPri(t, p)
    PROVE  MIInv'
<1>1. /\ ~Dormant(t) /\ bpri' = [bpri EXCEPT ![t] = p]
      /\ Become(Changed(Now, t, Least({p} \cup {mpri[h] : h \in {x \in Held(Now, t) :
                                     mtxatr[x] \in {"INHERIT", "CEILING"}}})))
      /\ UNCHANGED <<act, wup, stime, systim, dsp, mtxatr>>
      BY DEF MChgPri, others
<1>2. /\ bpri \in [Task -> 1..MaxPri] /\ MTypes BY DEF MIInv, MTypes
<1>3. PICK k, b : k = Now /\ b = [bpri EXCEPT ![t] = p] OBVIOUS
<1>4. /\ k \in Kernel /\ Linked(k, {}, {}, mtxatr, stime) /\ Running(k, dsp)
      /\ Chained(k.lockmtx, k.owner, NONE, {}) /\ Backed(k, {}, mtxatr)
      /\ Offered(k, {}, mtxatr, {}) /\ Inheriting(k, {NONE}, mtxatr, bpri)
      BY <1>3, NowTyped
<1>5. k.msts = msts /\ k.mpri = mpri BY <1>3, NowIs
<1>6. /\ b \in [Task -> 1..MaxPri] /\ b[t] = p /\ \A u \in Task \ {t} : b[u] = bpri[u]
      BY <1>2, <1>3
<1>7. PICK v : v = InheritedBy(k, mtxatr, b, t) OBVIOUS
<1>8. v = Least({p} \cup {mpri[h] : h \in {x \in Held(Now, t) :
                                     mtxatr[x] \in {"INHERIT", "CEILING"}}})
      BY <1>3, <1>5, <1>6, <1>7 DEF InheritedBy, Lifts
<1>9. PICK r : r = Changed(k, t, v) OBVIOUS
<1>10. Inheriting(k, {t}, mtxatr, b)
  <2>1. ASSUME NEW u \in Task, u # t, "DMT" \notin k.msts[u]
        PROVE  k.cpri[u] = InheritedBy(k, mtxatr, b, u)
    <3>1. k.cpri[u] = InheritedBy(k, mtxatr, bpri, u)
          BY <1>4, <2>1, Constants DEF Inheriting
    <3> QED BY <1>6, <2>1, <3>1 DEF InheritedBy
  <2> QED BY <2>1 DEF Inheriting
<1>11. "DMT" \notin k.msts[t]
  <2>1. Flagged(k.msts, k.wsts) BY <1>4 DEF Linked, MFlagged
  <2>2. "DMT" \in k.msts[t] => k.msts[t] = {"DMT"} BY <2>1, FlagFacts
  <2> QED BY <1>1, <1>5, <2>2 DEF Dormant
<1>12. PICK X, D : X = {} /\ D = {t} OBVIOUS
<1>13. Grounds(k, X, {}, b, D, NONE) BY <1>4, <1>6, <1>12 DEF Grounds
<1>14. HandedOn(r, k, X, {}, stime, {}, b)
       BY <1>4, <1>7, <1>9, <1>10, <1>11, <1>12, <1>13, ChangedFacts
<1>15. Whole(r, {}, {}, mtxatr, stime, b, dsp)
       BY <1>4, <1>12, <1>14, HandedOnWhole
<1>16. Become(r) BY <1>1, <1>3, <1>8, <1>9
<1>17. MTypes' BY <1>1, <1>2, <1>3, <1>6 DEF MTypes
<1>18. Whole(r, {}, {}, mtxatr', stime', bpri', dsp') BY <1>1, <1>3, <1>15
<1> QED BY <1>16, <1>17, <1>18, Settles

-----------------------------------------------------------------------------
(* UNL_MTX                                                                 *)

(* A mutex is taken out of a chain. *)
ChainCut(lm2, lm, t, m) == lm2 = [lm EXCEPT ![t] = Unlink(@, m)]

CutAs(lm2, lm, ow, t, m) ==
    /\ lm2 \in [Task -> Seq(Mtx)] /\ Chained(lm2, ow, t, {m})
    /\ ToSet(lm2[t]) = ToSet(lm[t]) \ {m}

LEMMA CutChained ==
    ASSUME NEW lm \in [Task -> Seq(Mtx)], NEW ow, Chained(lm, ow, NONE, {}), NEW t \in Task,
           NEW m \in Mtx, NEW lm2, ChainCut(lm2, lm, t, m)
    PROVE  CutAs(lm2, lm, ow, t, m)
<1>1. PICK s, q : s = lm[t] /\ s \in Seq(Mtx) /\ q = Unlink(s, m) OBVIOUS
<1>2. Once(s) BY <1>1 DEF Chained
<1>3. q \in Seq(Mtx) /\ ToSet(q) = ToSet(s) \ {m} /\ Once(q)
      BY <1>1, <1>2, RemoveFirstOnce DEF Unlink
<1>4. lm2 = [lm EXCEPT ![t] = q] BY <1>1 DEF ChainCut
<1>5. lm2[t] = q /\ \A u \in Task : u # t => lm2[u] = lm[u] BY <1>4
<1>6. \A u \in Task : Once(lm2[u]) BY <1>3, <1>5 DEF Chained
<1>7. ASSUME NEW u \in Task, NEW n \in Mtx, ~(u = t /\ n \in {m})
      PROVE  n \in ToSet(lm2[u]) <=> ow[n] = u
  <2>1. n \in ToSet(lm[u]) <=> ow[n] = u BY DEF Chained
  <2> QED BY <1>1, <1>3, <1>5, <1>7, <2>1
<1>8. Chained(lm2, ow, t, {m}) BY <1>6, <1>7 DEF Chained
<1> QED BY <1>1, <1>3, <1>4, <1>5, <1>8 DEF CutAs

(* A task that holds less than it did is to be no more urgent. *)
Keeps(r, k, t) == \A h \in Mtx : h \in Held(r, t) => h \in Held(k, t) /\ r.mpri[h] = k.mpri[h]

(* A task that gives up a mutex inherits no more than before. *)
LEMMA KeepsLess ==
    ASSUME NEW k \in Kernel, NEW r \in Kernel, NEW at, NEW b \in [Task -> 1..MaxPri],
           NEW t \in Task, Keeps(r, k, t)
    PROVE  InheritedBy(k, at, b, t) <= InheritedBy(r, at, b, t)
<1>1. PICK v, w : v = InheritedBy(k, at, b, t) /\ w = InheritedBy(r, at, b, t) OBVIOUS
<1>2. /\ v <= b[t] /\ \A m \in Mtx : Raises(k, at, t, m) => v <= k.mpri[m]
      BY <1>1, InheritedFacts
<1>3. w = b[t] \/ \E m \in Mtx : Raises(r, at, t, m) /\ w = r.mpri[m]
      BY <1>1, InheritedFacts
<1>4. CASE w = b[t] BY <1>1, <1>2, <1>4
<1>5. ASSUME NEW m \in Mtx, Raises(r, at, t, m), w = r.mpri[m] PROVE v <= w
  <2>1. Raises(k, at, t, m) /\ r.mpri[m] = k.mpri[m] BY <1>5 DEF Raises, Keeps
  <2> QED BY <1>2, <1>5, <2>1
<1> QED BY <1>1, <1>3, <1>4, <1>5

(* The running task has given up a mutex: its priority is still to be lowered. *)
GivenUp(r, k, t, m) ==
    /\ Calm(r, {}, {}, t, mtxatr, stime, bpri) /\ Running(r, dsp)
    /\ r.pri = k.pri /\ r.ctcb \in {t, NONE} /\ r.msts[t] = k.msts[t] /\ r.cpri[t] = k.cpri[t]
    /\ Keeps(r, k, t)

LEMMA GivenUpFacts ==
    ASSUME MIInv, NEW t \in Task, NEW m \in Mtx, ctcb = t, owner[m] = t, NEW r,
           r = HandedOver([Now EXCEPT !.lockmtx[t] = Unlink(@, m)], m)
    PROVE  GivenUp(r, Now, t, m)
<1>1. PICK k, M, E : k = Now /\ M = {m} /\ E = {} OBVIOUS
<1>2. /\ k \in Kernel /\ Part(k, E, E, NONE, E, mtxatr, stime, bpri, dsp)
      /\ Chained(k.lockmtx, k.owner, NONE, E)
      BY <1>1, NowTyped DEF Whole
<1>3. stime \in [Task -> Stamp] /\ bpri \in [Task -> 1..MaxPri] BY DEF MIInv, MTypes
<1>4. Part(k, E, E, t, E, mtxatr, stime, bpri, dsp)
  <2>1. /\ Linked(k, E, E, mtxatr, stime) /\ Running(k, dsp) /\ Backed(k, E, mtxatr)
        /\ Offered(k, E, mtxatr, {}) /\ Inheriting(k, {NONE}, mtxatr, bpri) /\ E \subseteq Task
        BY <1>2 DEF Part
  <2>2. Chained(k.lockmtx, k.owner, t, E) BY <1>1, <1>2 DEF Chained
  <2>3. Inheriting(k, {t}, mtxatr, bpri) BY <2>1, Constants DEF Inheriting
  <2> QED BY <1>2, <2>1, <2>2, <2>3 DEF Part
<1>5. PICK q : q = Unlink(k.lockmtx[t], m) OBVIOUS
<1>6. PICK lm2 : lm2 = [k.lockmtx EXCEPT ![t] = q] OBVIOUS
<1>7. k.lockmtx \in [Task -> Seq(Mtx)] /\ k.owner \in [Mtx -> Task \cup {NONE}]
      BY <1>2, KernelFields
<1>8. ChainCut(lm2, k.lockmtx, t, m) BY <1>5, <1>6 DEF ChainCut
<1>9. /\ lm2 \in [Task -> Seq(Mtx)] /\ Chained(lm2, k.owner, t, {m})
      /\ ToSet(lm2[t]) = ToSet(k.lockmtx[t]) \ {m}
  <2>1. Chained(k.lockmtx, k.owner, NONE, {}) BY <1>1, <1>2
  <2>2. CutAs(lm2, k.lockmtx, k.owner, t, m) BY <1>7, <1>8, <2>1, CutChained
  <2> QED BY <2>2 DEF CutAs
<1>10. lm2[t] = q /\ q \in Seq(Mtx) BY <1>6, <1>7, <1>9
<1>11. PICK g : g = [k EXCEPT !.lockmtx[t] = q] OBVIOUS
<1>12. OnlyChain(g, k, t, q) BY <1>2, <1>10, <1>11, ChainIs
<1>13. /\ g \in Kernel /\ g.owner = k.owner /\ g.lockmtx = lm2 /\ g.mpri = k.mpri
       /\ g.msts = k.msts /\ g.cpri = k.cpri /\ g.ctcb = k.ctcb /\ g.pri = k.pri
       BY <1>6, <1>12 DEF OnlyChain, SameTasks, SameRun
<1>14. Chained(g.lockmtx, g.owner, t, M) BY <1>1, <1>9, <1>13
<1>15. Part(g, E, E, t, M, mtxatr, stime, bpri, dsp) BY <1>4, <1>12, <1>14, ChainKeeps
<1>16. r = HandedOver(g, m) BY <1>1, <1>5, <1>11
<1>17. m \in M /\ g.owner[m] = t /\ E \subseteq {t} BY <1>1, <1>13, NowIs
<1>18. HandedAs(r, g, t, m) /\ Part(r, E, E, t, M, mtxatr, stime, bpri, dsp)
       BY <1>3, <1>15, <1>16, <1>17, HandedOverFacts
<1>19. /\ r.lockmtx[t] = g.lockmtx[t] /\ r.msts[t] = g.msts[t]
       /\ r.cpri[t] = g.cpri[t] /\ r.pri = g.pri /\ r.ctcb \in {g.ctcb, NONE}
       /\ r.owner[m] # t /\ \A n \in Mtx : n # m => r.mpri[n] = g.mpri[n]
       BY <1>18 DEF HandedAs
<1>20. /\ r \in Kernel /\ Linked(r, E, E, mtxatr, stime) /\ Running(r, dsp)
       /\ Chained(r.lockmtx, r.owner, t, M) /\ Backed(r, E, mtxatr)
       /\ Offered(r, E, mtxatr, {}) /\ Inheriting(r, {t}, mtxatr, bpri)
       BY <1>18 DEF Part
<1>21. ToSet(r.lockmtx[t]) = ToSet(k.lockmtx[t]) \ {m} BY <1>9, <1>13, <1>19
<1>22. Chained(r.lockmtx, r.owner, t, {})
  <2>1. m \in ToSet(r.lockmtx[t]) <=> r.owner[m] = t BY <1>19, <1>21
  <2>2. \A u \in Task, n \in Mtx : ~(u = t /\ n = m) =>
             (n \in ToSet(r.lockmtx[u]) <=> r.owner[n] = u)
        BY <1>1, <1>20 DEF Chained
  <2>3. \A u \in Task : Once(r.lockmtx[u]) BY <1>20 DEF Chained
  <2>4. \A u \in Task, n \in Mtx : n \in ToSet(r.lockmtx[u]) <=> r.owner[n] = u
        BY <2>1, <2>2
  <2> QED BY <2>3, <2>4 DEF Chained
<1>23. Keeps(r, k, t)
  <2>1. Held(r, t) = ToSet(r.lockmtx[t]) /\ Held(k, t) = ToSet(k.lockmtx[t])
        BY <1>2, <1>20, HeldFacts
  <2> QED BY <1>13, <1>19, <1>21, <2>1 DEF Keeps
<1>24. Calm(r, E, E, t, mtxatr, stime, bpri)
  <2>1. E \subseteq Task BY <1>1
  <2> QED BY <1>20, <1>22, <2>1 DEF Calm
<1>25. k.ctcb = t BY <1>1, NowIs
<1> QED BY <1>1, <1>13, <1>19, <1>20, <1>23, <1>24, <1>25 DEF GivenUp

(* A task that waits for no mutex gets the priority it is to have. *)
LEMMA MovedCalm ==
    ASSUME bpri \in [Task -> 1..MaxPri], NEW k, NEW t \in Task, NEW st,
           Calm(k, {}, {}, t, mtxatr, st, bpri), \A h \in Mtx : ~Wants(k.msts, k.wsts, t, h),
           NEW p, p = InheritedBy(k, mtxatr, bpri, t), NEW r, r = Moved(k, t, p)
    PROVE  /\ MovedAs(r, k, t, p) /\ FirstsMoved(r, k, t, p)
           /\ Calm(r, {}, {}, NONE, mtxatr, st, bpri)
<1>1. PICK E : E = {} OBVIOUS
<1>2. /\ k \in Kernel /\ Linked(k, E, E, mtxatr, st)
      /\ Chained(k.lockmtx, k.owner, t, {}) /\ Backed(k, E, mtxatr)
      /\ Offered(k, E, mtxatr, {}) /\ Inheriting(k, {t}, mtxatr, bpri)
      BY <1>1 DEF Calm
<1>3. p \in 1..MaxPri BY <1>2, InheritedFacts
<1>4. k.cpri \in [Task -> 1..MaxPri] BY <1>2, KernelFields
<1>5. t \notin E BY <1>1
<1>6. MovedAs(r, k, t, p) /\ FirstsMoved(r, k, t, p) /\ Linked(r, E, E, mtxatr, st)
      BY <1>2, <1>3, <1>5, MovedFacts
<1>7. /\ r \in Kernel /\ r.msts = k.msts /\ r.wsts = k.wsts /\ r.lockmtx = k.lockmtx
      /\ r.owner = k.owner /\ r.mpri = k.mpri /\ r.cpri = [k.cpri EXCEPT ![t] = p]
      BY <1>6 DEF MovedAs, SameTasks, SameMtx, SameChains
<1>8. r.cpri[t] = p /\ \A u \in Task : u # t => r.cpri[u] = k.cpri[u] BY <1>4, <1>7
<1>9. Backed(r, E, mtxatr) BY <1>2, <1>7 DEF Backed
<1>10. Offered(r, E, mtxatr, {})
  <2>1. ASSUME NEW h \in Mtx, mtxatr[h] = "INHERIT" PROVE OfferedAt(r, E, {}, h)
    <3>1. OfferedAt(k, E, {}, h) BY <1>2, <2>1 DEF Offered
    <3>2. \A u \in Task : Wants(k.msts, k.wsts, u, h) => r.cpri[u] = k.cpri[u] BY <1>8
    <3> QED BY <1>7, <3>1, <3>2 DEF OfferedAt
  <2> QED BY <2>1 DEF Offered
<1>11. Inheriting(r, {NONE}, mtxatr, bpri)
  <2>1. ASSUME NEW u \in Task, "DMT" \notin r.msts[u]
        PROVE  r.cpri[u] = InheritedBy(r, mtxatr, bpri, u)
    <3>1. SameLifts(r, k, mtxatr, u) BY <1>7 DEF SameLifts
    <3>2. InheritedBy(r, mtxatr, bpri, u) = InheritedBy(k, mtxatr, bpri, u)
          BY <1>2, <1>7, <3>1, InheritedSame
    <3>3. CASE u = t BY <1>8, <3>2, <3>3
    <3>4. CASE u # t BY <1>2, <1>7, <1>8, <2>1, <3>2, <3>4 DEF Inheriting
    <3> QED BY <3>3, <3>4
  <2> QED BY <2>1 DEF Inheriting
<1>12. Chained(r.lockmtx, r.owner, NONE, {}) BY <1>2, <1>7 DEF Chained
<1>13. Calm(r, E, E, NONE, mtxatr, st, bpri)
       BY <1>1, <1>6, <1>7, <1>9, <1>10, <1>11, <1>12 DEF Calm
<1> QED BY <1>1, <1>6, <1>13

(* It gets the priority it is to have, *)
Lowered(r, k, t, p) ==
    /\ Calm(r, {}, {}, NONE, mtxatr, stime, bpri)
    /\ r.pri = k.pri /\ r.ctcb \in {t, NONE} /\ r.msts[t] = k.msts[t] /\ r.cpri[t] = p
    /\ Running(r, dsp) \/ (k.pri < p /\ r.rdsp = k.rdsp /\ r.ctcb = k.ctcb)

LEMMA LoweredFacts ==
    ASSUME MTypes, NEW n, NEW k, NEW t \in Task, NEW m \in Mtx, GivenUp(k, n, t, m),
           n \in Kernel, "RDY" \in n.msts[t], n.cpri[t] = InheritedBy(n, mtxatr, bpri, t),
           NEW p, p = InheritedBy(k, mtxatr, bpri, t),
           NEW r, r = IF k.cpri[t] # p THEN Moved(k, t, p) ELSE k
    PROVE  Lowered(r, k, t, p)
<1>1. /\ Calm(k, {}, {}, t, mtxatr, stime, bpri) /\ Running(k, dsp)
      /\ k.ctcb \in {t, NONE} /\ k.msts[t] = n.msts[t] /\ k.cpri[t] = n.cpri[t]
      /\ Keeps(k, n, t)
      BY DEF GivenUp
<1>2. bpri \in [Task -> 1..MaxPri] BY DEF MTypes
<1>3. PICK E : E = {} OBVIOUS
<1>4. /\ k \in Kernel /\ Linked(k, E, E, mtxatr, stime)
      /\ Chained(k.lockmtx, k.owner, t, {}) /\ Backed(k, E, mtxatr)
      /\ Offered(k, E, mtxatr, {}) /\ Inheriting(k, {t}, mtxatr, bpri)
      BY <1>1, <1>3 DEF Calm
<1>5. p \in 1..MaxPri BY <1>2, <1>4, InheritedFacts
<1>6. k.cpri[t] <= p BY <1>1, <1>2, <1>4, KeepsLess
<1>7. k.cpri \in [Task -> 1..MaxPri] /\ k.pri \in 1..(MaxPri + 1) BY <1>4, KernelFields
<1>8. Chained(k.lockmtx, k.owner, NONE, {}) BY <1>4 DEF Chained
<1>9. CASE k.cpri[t] = p
  <2>1. r = k BY <1>9
  <2>2. Inheriting(k, {NONE}, mtxatr, bpri) BY <1>4, <1>9, Constants DEF Inheriting
  <2>3. Calm(k, E, E, NONE, mtxatr, stime, bpri) BY <1>3, <1>4, <1>8, <2>2 DEF Calm
  <2> QED BY <1>1, <1>3, <1>9, <2>1, <2>3 DEF Lowered
<1>10. CASE k.cpri[t] # p
  <2>1. r = Moved(k, t, p) BY <1>10
  <2>2. \A w \in Mtx : ~Wants(k.msts, k.wsts, t, w)
    <3>1. Flagged(k.msts, k.wsts) BY <1>4 DEF Linked, MFlagged
    <3>2. "WAI" \notin k.msts[t] BY <1>1, <3>1, FlagFacts
    <3> QED BY <3>2 DEF Wants
  <2>3. MovedAs(r, k, t, p) /\ Calm(r, {}, {}, NONE, mtxatr, stime, bpri)
        BY <1>1, <1>2, <2>1, <2>2, MovedCalm
  <2>4. /\ r.msts = k.msts /\ r.cpri = [k.cpri EXCEPT ![t] = p]
        /\ r.ctcb = k.ctcb /\ r.pri = k.pri /\ r.rdsp = k.rdsp
        BY <2>3 DEF MovedAs, SameTasks, SameRun
  <2>5. r.cpri[t] = p BY <1>7, <2>4
  <2>6. Running(r, dsp) \/ k.pri < p
    <3>1. SUFFICES ASSUME ~(k.pri < p) PROVE Running(r, dsp) OBVIOUS
    <3>2. /\ k.ctcb # NONE => "RDY" \in k.msts[k.ctcb]
          /\ dsp => k.ctcb # NONE /\ (k.rdsp => dsp)
          /\ k.rdsp => dsp
          /\ k.ctcb # NONE /\ ~k.rdsp => k.pri = k.cpri[k.ctcb]
          BY <1>1 DEF Running
    <3>3. k.ctcb # NONE => k.rdsp
      <4>1. k.cpri[t] < p BY <1>5, <1>6, <1>7, <1>10
      <4>2. k.ctcb # NONE => k.ctcb = t BY <1>1
      <4> QED BY <1>5, <1>7, <3>1, <3>2, <4>1, <4>2
    <3> QED BY <2>4, <3>2, <3>3 DEF Running
  <2> QED BY <1>1, <2>3, <2>4, <2>5, <2>6 DEF Lowered
<1> QED BY <1>9, <1>10

(* and asks for a dispatch, if it may not go on. *)
LEMMA AsksCalm ==
    ASSUME NEW k, NEW st, Calm(k, {}, {}, NONE, mtxatr, st, bpri),
           k.ctcb # NONE => "RDY" \in k.msts[k.ctcb], dsp => k.ctcb # NONE, k.rdsp => dsp,
           NEW r, r = Asks(k)
    PROVE  Whole(r, {}, {}, mtxatr, st, bpri, dsp)
<1>1. PICK E : E = {} OBVIOUS
<1>2. /\ k \in Kernel /\ Linked(k, E, E, mtxatr, st)
      /\ Chained(k.lockmtx, k.owner, NONE, {}) /\ Backed(k, E, mtxatr)
      /\ Offered(k, E, mtxatr, {}) /\ Inheriting(k, {NONE}, mtxatr, bpri)
      BY <1>1 DEF Calm
<1>3. AskedAs(r, k) BY <1>2, AsksFacts
<1>4. /\ r \in Kernel /\ r.msts = k.msts /\ r.wsts = k.wsts /\ r.lockmtx = k.lockmtx
      /\ r.owner = k.owner /\ r.mpri = k.mpri /\ r.cpri = k.cpri
      /\ r.rdq = k.rdq /\ r.mtxq = k.mtxq /\ r.timq = k.timq
      BY <1>3 DEF AskedAs, SameTasks, SameMtx, SameChains
<1>5. /\ Linked(r, E, E, mtxatr, st) /\ Backed(r, E, mtxatr)
      BY <1>2, <1>4 DEF Linked, Backed
<1>6. Offered(r, E, mtxatr, {}) BY <1>2, <1>4 DEF Offered, OfferedAt
<1>7. Inheriting(r, {NONE}, mtxatr, bpri)
      BY <1>2, <1>4 DEF Inheriting, InheritedBy, Lifts, Held
<1>8. Calm(r, E, E, NONE, mtxatr, st, bpri)
      BY <1>1, <1>2, <1>4, <1>5, <1>6, <1>7 DEF Calm
<1>9. CASE dsp
  <2>1. r.rdsp = TRUE /\ r.ctcb = k.ctcb BY <1>3, <1>9 DEF AskedAs
  <2>2. Running(r, dsp) BY <1>4, <1>9, <2>1 DEF Running
  <2> QED BY <1>1, <1>8, <2>2, WholeIs
<1>10. CASE ~dsp
  <2>1. r.ctcb = NONE /\ r.rdsp = k.rdsp BY <1>3, <1>10 DEF AskedAs
  <2>2. Running(r, dsp) BY <1>10, <2>1 DEF Running
  <2> QED BY <1>1, <1>8, <2>2, WholeIs
<1> QED BY <1>9, <1>10

(* unl_mtx. *)
LEMMA MUnlMtxStep ==
    ASSUME MIInv, NEW t \in Task, NEW m \in Mtx, UnlMtx(t, m)
    PROVE  MIInv'
<1>1. PICK n, k : n = Now /\ k = HandedOver([Now EXCEPT !.lockmtx[t] = Unlink(@, m)], m) OBVIOUS
<1>2. PICK p : p = Inherited(k, t) OBVIOUS
<1>3. PICK g : g = IF k.cpri[t] # p THEN Moved(k, t, p) ELSE k OBVIOUS
<1>4. PICK r : r = IF pri < p THEN Asks(g) ELSE g OBVIOUS
<1>5. /\ ctcb = t /\ owner[m] = t
      /\ UNCHANGED <<act, wup, stime, systim, dsp, bpri, mtxatr>>
      BY DEF UnlMtx, others
<1>6. Become(r) BY <1>1, <1>2, <1>3, <1>4 DEF UnlMtx
<1>7. MTypes BY DEF MIInv
<1>8. /\ n \in Kernel /\ Running(n, dsp) /\ Inheriting(n, {NONE}, mtxatr, bpri)
      /\ n.msts = msts /\ n.cpri = cpri /\ n.ctcb = t /\ n.pri = pri
      /\ Linked(n, {}, {}, mtxatr, stime)
      BY <1>1, <1>5, NowTyped, NowIs
<1>9. "RDY" \in n.msts[t] BY <1>8, Constants DEF Running
<1>10. n.cpri[t] = InheritedBy(n, mtxatr, bpri, t)
  <2>1. Flagged(n.msts, n.wsts) BY <1>8 DEF Linked, MFlagged
  <2>2. "DMT" \notin n.msts[t] BY <1>9, <2>1, FlagFacts
  <2> QED BY <1>8, <2>2, Constants DEF Inheriting
<1>11. GivenUp(k, n, t, m) BY <1>1, <1>5, GivenUpFacts
<1>12. p = InheritedBy(k, mtxatr, bpri, t) BY <1>2, InheritedNow
<1>13. Lowered(g, k, t, p) BY <1>3, <1>7, <1>8, <1>9, <1>10, <1>11, <1>12, LoweredFacts
<1>14. k.pri = pri /\ Running(k, dsp) /\ k.msts[t] = n.msts[t] BY <1>8, <1>11 DEF GivenUp
<1>15. /\ Calm(g, {}, {}, NONE, mtxatr, stime, bpri)
       /\ g.pri = pri /\ g.ctcb \in {t, NONE} /\ g.msts[t] = n.msts[t] /\ g.cpri[t] = p
       /\ Running(g, dsp) \/ (pri < p /\ g.rdsp = k.rdsp /\ g.ctcb = k.ctcb)
       BY <1>13, <1>14 DEF Lowered
<1>16. ASSUME ~(pri < p) PROVE Whole(r, {}, {}, mtxatr, stime, bpri, dsp)
  <2>1. r = g BY <1>4, <1>16
  <2>2. Running(r, dsp) BY <1>15, <1>16, <2>1
  <2>3. Whole(r, {}, {}, mtxatr, stime, bpri, dsp) BY <1>15, <2>1, <2>2, WholeIs
  <2> QED BY <2>3
<1>17. ASSUME pri < p PROVE Whole(r, {}, {}, mtxatr, stime, bpri, dsp)
  <2>1. r = Asks(g) BY <1>4, <1>17
  <2>2. g.ctcb # NONE => "RDY" \in g.msts[g.ctcb] BY <1>9, <1>15
  <2>3. (dsp => g.ctcb # NONE) /\ (g.rdsp => dsp) BY <1>14, <1>15 DEF Running
  <2> QED BY <1>15, <2>1, <2>2, <2>3, AsksCalm
<1>18. Whole(r, {}, {}, mtxatr, stime, bpri, dsp) BY <1>16, <1>17
<1>19. MTypes' BY <1>5, <1>7 DEF MTypes
<1>20. Whole(r, {}, {}, mtxatr', stime', bpri', dsp') BY <1>5, <1>18
<1> QED BY <1>6, <1>19, <1>20, Settles

-----------------------------------------------------------------------------
(* DEL_MTX                                                                 *)

(* A mutex is in no chain any more, and nobody waits for it. *)
Unused(k, m) ==
    /\ k \in Kernel /\ Linked(k, {}, {}, mtxatr, stime) /\ Running(k, dsp)
    /\ \A t \in Task : Once(k.lockmtx[t]) /\ m \notin ToSet(k.lockmtx[t])
    /\ \A t \in Task, h \in Mtx : h # m => (h \in ToSet(k.lockmtx[t]) <=> k.owner[h] = t)
    /\ Backed(k, {}, mtxatr) /\ Offered(k, {}, mtxatr, {m}) /\ Inheriting(k, {}, mtxatr, bpri)
    /\ Unwanted(k, m)

LEMMA UnusedFacts ==
    ASSUME MTypes, NEW k, NEW m \in Mtx, Losing(k, {}, {}, m, stime), Unwanted(k, m),
           NEW o, o = k.owner[m],
           NEW r, r = IF o = NONE THEN k ELSE Checked([k EXCEPT !.lockmtx[o] = Unlink(@, m)], o)
    PROVE  Unused(r, m)
<1>1. PICK E, M : E = {} /\ M = {m} OBVIOUS
<1>2. /\ k \in Kernel /\ Linked(k, E, E, mtxatr, stime) /\ Running(k, dsp)
      /\ Chained(k.lockmtx, k.owner, NONE, {}) /\ Backed(k, E, mtxatr)
      /\ Offered(k, E, mtxatr, M) /\ Inheriting(k, {NONE}, mtxatr, bpri)
      BY <1>1 DEF Losing
<1>3. k.lockmtx \in [Task -> Seq(Mtx)] /\ k.owner \in [Mtx -> Task \cup {NONE}]
      BY <1>2, KernelFields
<1>4. /\ \A t \in Task : Once(k.lockmtx[t])
      /\ \A t \in Task, h \in Mtx : h \in ToSet(k.lockmtx[t]) <=> k.owner[h] = t
      BY <1>2 DEF Chained
<1>5. ASSUME o = NONE PROVE Unused(r, m)
  <2>1. r = k BY <1>5
  <2>2. \A t \in Task : m \notin ToSet(k.lockmtx[t])
    <3>1. k.owner[m] = NONE /\ \A t \in Task : t # NONE BY <1>5, Constants
    <3> QED BY <1>4, <3>1
  <2>3. Inheriting(k, {}, mtxatr, bpri) BY <1>2, Constants DEF Inheriting
  <2> QED BY <1>1, <1>2, <1>4, <2>1, <2>2, <2>3 DEF Unused
<1>6. ASSUME o # NONE PROVE Unused(r, m)
  <2>1. o \in Task BY <1>3, <1>6
  <2>2. PICK q : q = Unlink(k.lockmtx[o], m) OBVIOUS
  <2>3. PICK lm2 : lm2 = [k.lockmtx EXCEPT ![o] = q] OBVIOUS
  <2>4. ChainCut(lm2, k.lockmtx, o, m) BY <2>2, <2>3 DEF ChainCut
  <2>5. CutAs(lm2, k.lockmtx, k.owner, o, m) BY <1>2, <1>3, <2>1, <2>4, CutChained
  <2>6. /\ lm2 \in [Task -> Seq(Mtx)] /\ Chained(lm2, k.owner, o, M)
        /\ ToSet(lm2[o]) = ToSet(k.lockmtx[o]) \ {m}
        BY <1>1, <2>5 DEF CutAs
  <2>7. q \in Seq(Mtx) /\ \A t \in Task : t # o => lm2[t] = k.lockmtx[t]
        BY <1>3, <2>1, <2>3, <2>6
  <2>8. PICK g : g = [k EXCEPT !.lockmtx[o] = q] OBVIOUS
  <2>9. OnlyChain(g, k, o, q) BY <1>2, <2>1, <2>7, <2>8, ChainIs
  <2>10. /\ g \in Kernel /\ g.msts = k.msts /\ g.wsts = k.wsts /\ g.owner = k.owner
         /\ g.mpri = k.mpri /\ g.cpri = k.cpri /\ g.rdq = k.rdq /\ g.mtxq = k.mtxq
         /\ g.timq = k.timq /\ g.ctcb = k.ctcb /\ g.pri = k.pri /\ g.rdsp = k.rdsp
         /\ g.lockmtx = lm2
         BY <2>3, <2>9 DEF OnlyChain, SameTasks, SameRun
  <2>11. Linked(g, E, E, mtxatr, stime) /\ Running(g, dsp)
         BY <1>2, <2>10 DEF Linked, Running
  <2>12. Backed(g, E, mtxatr) BY <1>2, <2>10 DEF Backed
  <2>13. Offered(g, E, mtxatr, M) BY <1>2, <2>10 DEF Offered, OfferedAt
  <2>14. Inheriting(g, {o}, mtxatr, bpri)
    <3>1. ASSUME NEW t \in Task, t # o, "DMT" \notin g.msts[t]
          PROVE  g.cpri[t] = InheritedBy(g, mtxatr, bpri, t)
      <4>1. g.lockmtx[t] = k.lockmtx[t] BY <2>7, <2>10, <3>1
      <4>2. SameLifts(g, k, mtxatr, t) BY <2>10, <4>1 DEF SameLifts
      <4>3. InheritedBy(g, mtxatr, bpri, t) = InheritedBy(k, mtxatr, bpri, t)
            BY <1>2, <2>10, <4>2, InheritedSame
      <4> QED BY <1>2, <2>10, <3>1, <4>3, Constants DEF Inheriting
    <3> QED BY <3>1 DEF Inheriting
  <2>15. PICK p : p = InheritedBy(g, mtxatr, bpri, o) OBVIOUS
  <2>16. r = Changed(g, o, p)
    <3>1. r = Checked(g, o) BY <1>6, <2>2, <2>8
    <3> QED BY <2>15, <3>1, InheritedNow DEF Checked
  <2>17. Grounds(g, E, M, bpri, E, o)
    <3>1. /\ E \subseteq Task /\ bpri \in [Task -> 1..MaxPri] BY <1>1 DEF MTypes
    <3>2. Chained(g.lockmtx, g.owner, o, M) BY <2>6, <2>10
    <3>3. \A h \in M \cap Mtx, u \in Task \ E : ~Wants(g.msts, g.wsts, u, h)
          BY <1>1, <2>10 DEF Unwanted
    <3> QED BY <2>10, <2>12, <3>1, <3>2, <3>3 DEF Grounds
  <2>18. "DMT" \notin g.msts[o] BY <1>6, <2>10, <2>12 DEF Backed
  <2>19. HandedOn(r, g, E, E, stime, M, bpri)
         BY <1>1, <2>1, <2>11, <2>13, <2>14, <2>15, <2>16, <2>17, <2>18, ChangedFacts
  <2>20. /\ r \in Kernel /\ SameTasks(r, g) /\ SameChains(r, g)
         /\ Linked(r, E, E, mtxatr, stime) /\ Running(r, dsp) /\ Offered(r, E, mtxatr, M)
         /\ Inheriting(r, {}, mtxatr, bpri)
         BY <2>19 DEF HandedOn
  <2>21. Backed(r, E, mtxatr) BY <2>12, <2>20, BackedSame
  <2>22. /\ r.lockmtx = lm2 /\ r.owner = k.owner /\ r.msts = k.msts /\ r.wsts = k.wsts
         BY <2>10, <2>20 DEF SameTasks, SameChains
  <2>23. \A t \in Task : Once(lm2[t]) BY <2>6 DEF Chained
  <2>24. \A t \in Task : m \notin ToSet(lm2[t])
    <3>1. ASSUME NEW t \in Task PROVE m \notin ToSet(lm2[t])
      <4>1. CASE t = o BY <2>6, <4>1
      <4>2. CASE t # o BY <1>4, <2>7, <4>2
      <4> QED BY <4>1, <4>2
    <3> QED BY <3>1
  <2>25. \A t \in Task, h \in Mtx : h # m => (h \in ToSet(lm2[t]) <=> k.owner[h] = t)
         BY <1>1, <2>6 DEF Chained
  <2>26. Unwanted(r, m) BY <2>22 DEF Unwanted
  <2>27. /\ Linked(r, {}, {}, mtxatr, stime) /\ Backed(r, {}, mtxatr)
         /\ Offered(r, {}, mtxatr, {m})
         BY <1>1, <2>20, <2>21
  <2>28. /\ \A t \in Task : Once(r.lockmtx[t]) /\ m \notin ToSet(r.lockmtx[t])
         /\ \A t \in Task, h \in Mtx : h # m => (h \in ToSet(r.lockmtx[t]) <=> r.owner[h] = t)
    <3>1. \A t \in Task : Once(r.lockmtx[t]) /\ m \notin ToSet(r.lockmtx[t])
          BY <2>22, <2>23, <2>24
    <3>2. \A t \in Task, h \in Mtx : h # m => (h \in ToSet(r.lockmtx[t]) <=> r.owner[h] = t)
          BY <2>22, <2>25
    <3> QED BY <3>1, <3>2
  <2> QED BY <2>20, <2>26, <2>27, <2>28 DEF Unused
<1> QED BY <1>5, <1>6

(* It no longer exists. *)
LEMMA NoLonger ==
    ASSUME MTypes, NEW k, NEW m \in Mtx, Unused(k, m),
           NEW at, at = [mtxatr EXCEPT ![m] = NONE], NEW r, r = [k EXCEPT !.owner[m] = NONE]
    PROVE  Whole(r, {}, {}, at, stime, bpri, dsp)
<1>1. PICK E : E = {} OBVIOUS
<1>2. /\ k \in Kernel /\ Linked(k, E, E, mtxatr, stime) /\ Running(k, dsp)
      /\ Backed(k, E, mtxatr) /\ Offered(k, E, mtxatr, {m}) /\ Inheriting(k, E, mtxatr, bpri)
      /\ \A t \in Task : Once(k.lockmtx[t]) /\ m \notin ToSet(k.lockmtx[t])
      /\ \A t \in Task, h \in Mtx : h # m => (h \in ToSet(k.lockmtx[t]) <=> k.owner[h] = t)
      /\ \A u \in Task : ~Wants(k.msts, k.wsts, u, m)
      BY <1>1 DEF Unused, Unwanted
<1>3. PICK ow : ow = [k.owner EXCEPT ![m] = NONE] OBVIOUS
<1>4. k.owner \in [Mtx -> Task \cup {NONE}] BY <1>2, KernelFields
<1>5. /\ ow \in [Mtx -> Task \cup {NONE}] /\ ow[m] = NONE
      /\ \A h \in Mtx : h # m => ow[h] = k.owner[h]
      BY <1>3, <1>4
<1>6. r = [k EXCEPT !.owner = ow] BY <1>3
<1>7. /\ r \in Kernel /\ r.msts = k.msts /\ r.wsts = k.wsts /\ r.owner = ow
      /\ r.mpri = k.mpri /\ r.cpri = k.cpri /\ r.rdq = k.rdq /\ r.mtxq = k.mtxq
      /\ r.timq = k.timq /\ r.ctcb = k.ctcb /\ r.pri = k.pri /\ r.rdsp = k.rdsp
      /\ r.lockmtx = k.lockmtx
  <2>1. k \in Kernel BY <1>2
  <2>2. r \in Kernel /\ r.owner = ow BY <1>5, <1>6, <2>1 DEF Kernel
  <2>3. /\ r.msts = k.msts /\ r.wsts = k.wsts /\ r.mpri = k.mpri /\ r.cpri = k.cpri
        /\ r.rdq = k.rdq /\ r.mtxq = k.mtxq /\ r.timq = k.timq /\ r.ctcb = k.ctcb
        /\ r.pri = k.pri /\ r.rdsp = k.rdsp /\ r.lockmtx = k.lockmtx
        BY <1>6, <2>1 DEF Kernel
  <2> QED BY <2>2, <2>3
<1>8. at[m] = NONE /\ \A h \in Mtx : h # m => at[h] = mtxatr[h] BY DEF MTypes
<1>9. Linked(r, E, E, at, stime)
  <2>1. /\ MFlagged(k.msts, k.wsts, mtxatr) /\ OffRdq(k.rdq, k.msts, k.cpri, E)
        /\ OffMtxq(k.mtxq, k.msts, k.wsts, k.cpri, mtxatr, E)
        /\ OffTimq(k.timq, k.msts, stime, E)
        BY <1>2 DEF Linked
  <2>2. MFlagged(k.msts, k.wsts, at) BY <1>2, <1>8, <2>1 DEF MFlagged
  <2>3. OffMtxq(k.mtxq, k.msts, k.wsts, k.cpri, at, E)
    <3>1. ASSUME NEW h \in Mtx, NEW u \in Task, Wants(k.msts, k.wsts, u, h)
          PROVE  Side(h, u, at, k.cpri) = Side(h, u, mtxatr, k.cpri)
          BY <1>2, <1>8, <3>1 DEF Side
    <3>2. ASSUME NEW h \in Mtx, NEW p \in 0..MaxPri
          PROVE  /\ Once(k.mtxq[h][p])
                 /\ \A u \in Task : u \in ToSet(k.mtxq[h][p]) <=>
                       u \notin E /\ Wants(k.msts, k.wsts, u, h) /\ p = Side(h, u, mtxatr, k.cpri)
          BY <2>1 DEF OffMtxq
    <3>3. ASSUME NEW h \in Mtx, NEW p \in 0..MaxPri, NEW u \in Task
          PROVE  u \in ToSet(k.mtxq[h][p]) <=>
                    u \notin E /\ Wants(k.msts, k.wsts, u, h) /\ p = Side(h, u, at, k.cpri)
      <4>1. u \in ToSet(k.mtxq[h][p]) <=>
               u \notin E /\ Wants(k.msts, k.wsts, u, h) /\ p = Side(h, u, mtxatr, k.cpri)
            BY <3>2
      <4>2. CASE Wants(k.msts, k.wsts, u, h)
        <5>1. Side(h, u, at, k.cpri) = Side(h, u, mtxatr, k.cpri) BY <3>1, <4>2
        <5> QED BY <4>1, <5>1
      <4>3. CASE ~Wants(k.msts, k.wsts, u, h) BY <4>1, <4>3
      <4> QED BY <4>2, <4>3
    <3> QED BY <3>2, <3>3 DEF OffMtxq
  <2> QED BY <1>7, <2>1, <2>2, <2>3 DEF Linked
<1>10. Running(r, dsp) BY <1>2, <1>7 DEF Running
<1>11. Chained(r.lockmtx, r.owner, NONE, {})
  <2>1. ASSUME NEW t \in Task, NEW h \in Mtx
        PROVE  h \in ToSet(r.lockmtx[t]) <=> r.owner[h] = t
    <3>1. CASE h = m BY <1>2, <1>5, <1>7, <3>1, Constants
    <3>2. CASE h # m BY <1>2, <1>5, <1>7, <3>2
    <3> QED BY <3>1, <3>2
  <2> QED BY <1>2, <1>7, <2>1 DEF Chained
<1>12. Backed(r, E, at)
  <2>1. ASSUME NEW h \in Mtx, r.owner[h] # NONE
        PROVE  at[h] # NONE /\ "DMT" \notin r.msts[r.owner[h]]
    <3>1. h # m /\ k.owner[h] = r.owner[h] BY <1>5, <1>7, <2>1
    <3> QED BY <1>2, <1>7, <1>8, <2>1, <3>1 DEF Backed
  <2>2. ASSUME NEW t \in Task \ E, NEW h \in Mtx, Wants(r.msts, r.wsts, t, h)
        PROVE  r.owner[h] # NONE
    <3>1. Wants(k.msts, k.wsts, t, h) /\ h # m BY <1>2, <1>7, <2>2
    <3> QED BY <1>2, <1>5, <1>7, <3>1 DEF Backed
  <2>3. ASSUME NEW t \in Task, NEW n \in Mtx, NEW h \in Mtx,
               Wants(r.msts, r.wsts, t, n), r.owner[h] = t
        PROVE  Rank[h] < Rank[n]
    <3>1. h # m BY <1>5, <1>7, <2>3, Constants
    <3> QED BY <1>2, <1>5, <1>7, <2>3, <3>1 DEF Backed
  <2> QED BY <2>1, <2>2, <2>3 DEF Backed
<1>13. Offered(r, E, at, {})
  <2>1. ASSUME NEW h \in Mtx, at[h] = "INHERIT" PROVE OfferedAt(r, E, {}, h)
    <3>1. h # m /\ mtxatr[h] = "INHERIT" BY <1>8, <2>1, MConstants
    <3>2. OfferedAt(k, E, {m}, h) BY <1>2, <3>1 DEF Offered
    <3> QED BY <1>7, <3>1, <3>2 DEF OfferedAt
  <2> QED BY <2>1 DEF Offered
<1>14. Inheriting(r, {NONE}, at, bpri)
  <2>1. ASSUME NEW t \in Task PROVE Lifts(r, at, t) = Lifts(k, mtxatr, t)
    <3>1. Held(r, t) = Held(k, t) BY <1>7 DEF Held
    <3>2. Held(k, t) \subseteq Mtx /\ m \notin Held(k, t) BY <1>2, HeldFacts
    <3>3. \A h \in Held(k, t) : at[h] = mtxatr[h] BY <1>8, <3>2
    <3> QED BY <1>7, <3>1, <3>3 DEF Lifts
  <2> QED BY <1>1, <1>2, <1>7, <2>1 DEF Inheriting, InheritedBy
<1>15. Whole(r, E, E, at, stime, bpri, dsp)
  <2>1. E \subseteq Task BY <1>1
  <2> QED BY <1>7, <1>9, <1>10, <1>11, <1>12, <1>13, <1>14, <2>1 DEF Whole, Part
<1> QED BY <1>1, <1>15

(* del_mtx. *)
LEMMA MDelMtxStep ==
    ASSUME MIInv, NEW m \in Mtx, DelMtx(m)
    PROVE  MIInv'
<1>1. PICK n, k : n = Now /\ k = AllReleased(Now, m) OBVIOUS
<1>2. PICK o : o = k.owner[m] OBVIOUS
<1>3. PICK g : g = IF o = NONE THEN k ELSE Checked([k EXCEPT !.lockmtx[o] = Unlink(@, m)], o)
      OBVIOUS
<1>4. PICK r : r = [g EXCEPT !.owner[m] = NONE] OBVIOUS
<1>5. PICK at : at = [mtxatr EXCEPT ![m] = NONE] OBVIOUS
<1>6. /\ mtxatr' = at /\ UNCHANGED <<act, wup, stime, systim, dsp, bpri>>
      BY <1>5 DEF DelMtx, others
<1>7. Become(r) BY <1>1, <1>2, <1>3, <1>4 DEF DelMtx
<1>8. MTypes /\ stime \in [Task -> Stamp] BY DEF MIInv, MTypes
<1>9. Losing(n, {}, {}, m, stime) BY <1>1, NowTyped, WholeLosing
<1>10. Losing(k, {}, {}, m, stime) /\ Unwanted(k, m)
       BY <1>1, <1>8, <1>9, AllReleasedFacts
<1>11. Unused(g, m) BY <1>2, <1>3, <1>8, <1>10, UnusedFacts
<1>12. Whole(r, {}, {}, at, stime, bpri, dsp) BY <1>4, <1>5, <1>8, <1>11, NoLonger
<1>13. at \in [Mtx -> {"FIFO", "TPRI", "INHERIT", "CEILING", NONE}] BY <1>5, <1>8 DEF MTypes
<1>14. MTypes' BY <1>6, <1>8, <1>13 DEF MTypes
<1>15. Whole(r, {}, {}, mtxatr', stime', bpri', dsp') BY <1>6, <1>12
<1> QED BY <1>7, <1>14, <1>15, Settles

-----------------------------------------------------------------------------
(* LOC_MTX                                                                 *)

(* The running task takes a mutex that is free. *)
Takes(r, k, t, m) ==
    /\ r \in Kernel /\ SameTasks(r, k) /\ SameRun(r, k)
    /\ r.cpri = k.cpri /\ r.rdq = k.rdq /\ r.mtxq = k.mtxq /\ r.timq = k.timq /\ r.mpri = k.mpri
    /\ r.owner = [k.owner EXCEPT ![m] = t]
    /\ r.lockmtx = [k.lockmtx EXCEPT ![t] = <<m>> \o k.lockmtx[t]]

LEMMA TakesIs ==
    ASSUME NEW k \in Kernel, NEW t \in Task, NEW m \in Mtx,
           NEW r, r = [k EXCEPT !.owner[m] = t, !.lockmtx[t] = <<m>> \o @]
    PROVE  Takes(r, k, t, m)
<1>1. k.owner \in [Mtx -> Task \cup {NONE}] /\ k.lockmtx \in [Task -> Seq(Mtx)] BY KernelFields
<1>2. PICK ow, lm : /\ ow = [k.owner EXCEPT ![m] = t]
                    /\ lm = [k.lockmtx EXCEPT ![t] = <<m>> \o k.lockmtx[t]]
      OBVIOUS
<1>3. lm \in [Task -> Seq(Mtx)]
  <2>1. PICK s : s = k.lockmtx[t] /\ s \in Seq(Mtx) BY <1>1
  <2>2. <<m>> \o s \in Seq(Mtx) BY <2>1
  <2> QED BY <1>1, <1>2, <2>1, <2>2
<1>4. ow \in [Mtx -> Task \cup {NONE}] BY <1>1, <1>2
<1>5. r = [k EXCEPT !.owner = ow, !.lockmtx = lm] BY <1>2
<1> QED BY <1>2, <1>3, <1>4, <1>5 DEF Takes, Kernel, SameTasks, SameRun

Alight(k, t, m) ==
    /\ Calm(k, {}, {}, NONE, mtxatr, stime, bpri) /\ Running(k, dsp)
    /\ k.ctcb = t /\ mtxatr[m] # NONE /\ k.owner[m] = NONE

(* What its priority is then to be. *)
Topped(k, t, m) ==
    IF mtxatr[m] = "CEILING" /\ k.cpri[t] > k.mpri[m] THEN k.mpri[m] ELSE k.cpri[t]

TakenAs(r, k, t, m) ==
    /\ r \in Kernel /\ Linked(r, {}, {}, mtxatr, stime) /\ Running(r, dsp)
    /\ Chained(r.lockmtx, r.owner, NONE, {}) /\ Backed(r, {}, mtxatr)
    /\ Offered(r, {}, mtxatr, {}) /\ Inheriting(r, {t}, mtxatr, bpri)
    /\ Topped(k, t, m) = InheritedBy(r, mtxatr, bpri, t)
    /\ \A h \in Mtx : ~Wants(r.msts, r.wsts, t, h)

LEMMA TakenFacts ==
    ASSUME bpri \in [Task -> 1..MaxPri], NEW k, NEW t \in Task, NEW m \in Mtx, Alight(k, t, m),
           NEW r, Takes(r, k, t, m)
    PROVE  TakenAs(r, k, t, m)
<1>1. PICK E : E = {} OBVIOUS
<1>2. /\ k \in Kernel /\ Linked(k, E, E, mtxatr, stime) /\ Running(k, dsp)
      /\ Chained(k.lockmtx, k.owner, NONE, {}) /\ Backed(k, E, mtxatr)
      /\ Offered(k, E, mtxatr, {}) /\ Inheriting(k, {NONE}, mtxatr, bpri)
      /\ k.ctcb = t /\ mtxatr[m] # NONE /\ k.owner[m] = NONE
      BY <1>1 DEF Alight, Calm
<1>3. /\ r \in Kernel /\ r.msts = k.msts /\ r.wsts = k.wsts /\ r.mpri = k.mpri
      /\ r.cpri = k.cpri /\ r.rdq = k.rdq /\ r.mtxq = k.mtxq /\ r.timq = k.timq
      /\ r.ctcb = k.ctcb /\ r.pri = k.pri /\ r.rdsp = k.rdsp
      /\ r.owner = [k.owner EXCEPT ![m] = t]
      /\ r.lockmtx = [k.lockmtx EXCEPT ![t] = <<m>> \o k.lockmtx[t]]
      BY DEF Takes, SameTasks, SameRun
<1>4. /\ k.owner \in [Mtx -> Task \cup {NONE}] /\ k.lockmtx \in [Task -> Seq(Mtx)]
      /\ k.mpri \in [Mtx -> 1..TMAX_TPRI] /\ k.cpri \in [Task -> 1..MaxPri]
      BY <1>2, KernelFields
<1>5. /\ r.owner[m] = t /\ \A h \in Mtx : h # m => r.owner[h] = k.owner[h]
      /\ r.lockmtx[t] = <<m>> \o k.lockmtx[t]
      /\ \A u \in Task : u # t => r.lockmtx[u] = k.lockmtx[u]
      BY <1>3, <1>4
<1>6. t # NONE /\ "RDY" \in k.msts[t] BY <1>2, Constants DEF Running
<1>7. "DMT" \notin k.msts[t] /\ \A h \in Mtx : ~Wants(k.msts, k.wsts, t, h)
  <2>1. Flagged(k.msts, k.wsts) BY <1>2 DEF Linked, MFlagged
  <2>2. "WAI" \notin k.msts[t] /\ "DMT" \notin k.msts[t] BY <1>6, <2>1, FlagFacts
  <2> QED BY <2>2 DEF Wants
<1>8. \A u \in Task : m \notin Held(k, u)
      BY <1>2, <1>6, NotHeld, Constants
<1>9. \A u \in Task \ E : ~Wants(k.msts, k.wsts, u, m) BY <1>2 DEF Backed
<1>10. Linked(r, E, E, mtxatr, stime) /\ Running(r, dsp) BY <1>2, <1>3 DEF Linked, Running
<1>11. Chained(r.lockmtx, r.owner, NONE, {})
  <2>1. PICK s : s = k.lockmtx[t] /\ s \in Seq(Mtx) BY <1>4
  <2>2. PICK one : one = <<m>> OBVIOUS
  <2>3. one \in Seq(Mtx) /\ ToSet(one) = {m} /\ Once(one) BY <2>2, Alone
  <2>4. Once(s) BY <1>2, <2>1 DEF Chained
  <2>5. m \notin ToSet(s) BY <1>2, <1>8, <2>1, HeldFacts
  <2>6. ToSet(one) \cap ToSet(s) = {} BY <2>3, <2>5
  <2>7. ToSet(one \o s) = ToSet(one) \cup ToSet(s) /\ Once(one \o s)
        BY <2>1, <2>3, <2>4, <2>6, ConcatOnce
  <2>8. PICK q : q = one \o s OBVIOUS
  <2>9. r.lockmtx[t] = q /\ ToSet(q) = {m} \cup ToSet(s) /\ Once(q)
        BY <1>5, <2>1, <2>2, <2>3, <2>7, <2>8
  <2>10. \A u \in Task : Once(r.lockmtx[u]) BY <1>2, <1>5, <2>9 DEF Chained
  <2>11. ASSUME NEW u \in Task, NEW h \in Mtx
         PROVE  h \in ToSet(r.lockmtx[u]) <=> r.owner[h] = u
    <3>1. h \in ToSet(k.lockmtx[u]) <=> k.owner[h] = u BY <1>2 DEF Chained
    <3>2. u # NONE BY Constants
    <3>3. CASE u = t
      <4>1. CASE h = m BY <1>5, <2>9, <3>3, <4>1
      <4>2. CASE h # m BY <1>5, <2>1, <2>9, <3>1, <3>3, <4>2
      <4> QED BY <4>1, <4>2
    <3>4. CASE u # t
      <4>1. r.lockmtx[u] = k.lockmtx[u] BY <1>5, <3>4
      <4>2. CASE h = m BY <1>2, <1>5, <3>1, <3>2, <3>4, <4>1, <4>2
      <4>3. CASE h # m BY <1>5, <3>1, <4>1, <4>3
      <4> QED BY <4>2, <4>3
    <3> QED BY <3>3, <3>4
  <2> QED BY <2>10, <2>11 DEF Chained
<1>12. Backed(r, E, mtxatr)
  <2>1. ASSUME NEW h \in Mtx, r.owner[h] # NONE
        PROVE  mtxatr[h] # NONE /\ "DMT" \notin r.msts[r.owner[h]]
    <3>1. CASE h = m BY <1>2, <1>3, <1>5, <1>7, <3>1
    <3>2. CASE h # m BY <1>2, <1>3, <1>5, <2>1, <3>2 DEF Backed
    <3> QED BY <3>1, <3>2
  <2>2. ASSUME NEW u \in Task \ E, NEW h \in Mtx, Wants(r.msts, r.wsts, u, h)
        PROVE  r.owner[h] # NONE
    <3>1. h # m BY <1>3, <1>9, <2>2
    <3> QED BY <1>2, <1>3, <1>5, <2>2, <3>1 DEF Backed
  <2>3. ASSUME NEW u \in Task, NEW n \in Mtx, NEW h \in Mtx,
               Wants(r.msts, r.wsts, u, n), r.owner[h] = u
        PROVE  Rank[h] < Rank[n]
    <3>1. u # t BY <1>3, <1>7, <2>3
    <3>2. h # m BY <1>5, <2>3, <3>1
    <3> QED BY <1>2, <1>3, <1>5, <2>3, <3>2 DEF Backed
  <2> QED BY <2>1, <2>2, <2>3 DEF Backed
<1>13. Offered(r, E, mtxatr, {}) BY <1>2, <1>3 DEF Offered, OfferedAt
<1>14. Inheriting(r, {t}, mtxatr, bpri)
  <2>1. ASSUME NEW u \in Task, u # t, "DMT" \notin r.msts[u]
        PROVE  r.cpri[u] = InheritedBy(r, mtxatr, bpri, u)
    <3>1. SameLifts(r, k, mtxatr, u) BY <1>3, <1>5, <2>1 DEF SameLifts
    <3>2. InheritedBy(r, mtxatr, bpri, u) = InheritedBy(k, mtxatr, bpri, u)
          BY <1>2, <1>3, <3>1, InheritedSame
    <3> QED BY <1>2, <1>3, <2>1, <3>2, Constants DEF Inheriting
  <2> QED BY <2>1 DEF Inheriting
<1>15. Topped(k, t, m) = InheritedBy(r, mtxatr, bpri, t)
  <2>1. PICK v, c, u : v = k.mpri[m] /\ c = Topped(k, t, m) /\ u = NONE OBVIOUS
  <2>2. k.cpri[t] = InheritedBy(k, mtxatr, bpri, t) BY <1>2, <1>6, <1>7 DEF Inheriting
  <2>3. mtxatr[m] = "INHERIT" => v = TMAX_TPRI
        BY <1>2, <1>9, <2>1 DEF Offered, OfferedAt
  <2>4. Lifted(k, m, t, u, v, c) BY <2>1, <2>3 DEF Lifted, Topped
  <2>5. Gets(r, k, t, m, v)
    <3>1. k.mpri = [k.mpri EXCEPT ![m] = v] BY <1>4, <2>1
    <3> QED BY <1>3, <1>5, <3>1 DEF Gets
  <2> QED BY <1>2, <1>8, <2>1, <2>2, <2>4, <2>5, GotInherits
<1>16. \A h \in Mtx : ~Wants(r.msts, r.wsts, t, h) BY <1>3, <1>7
<1> QED BY <1>1, <1>3, <1>10, <1>11, <1>12, <1>13, <1>14, <1>15, <1>16 DEF TakenAs

(* A ceiling above its priority is taken on at once. *)
LEMMA ToppedFacts ==
    ASSUME MTypes, NEW k, NEW t \in Task, NEW m \in Mtx, Alight(k, t, m),
           NEW g, Takes(g, k, t, m), NEW v, v = k.mpri[m],
           NEW r, r = IF mtxatr[m] = "CEILING" /\ k.cpri[t] > v
                      THEN [Moved(g, t, v) EXCEPT !.pri = v] ELSE g
    PROVE  Whole(r, {}, {}, mtxatr, stime, bpri, dsp)
<1>1. bpri \in [Task -> 1..MaxPri] BY DEF MTypes
<1>2. TakenAs(g, k, t, m) BY <1>1, TakenFacts
<1>3. /\ g \in Kernel /\ Linked(g, {}, {}, mtxatr, stime) /\ Running(g, dsp)
      /\ Chained(g.lockmtx, g.owner, NONE, {}) /\ Backed(g, {}, mtxatr)
      /\ Offered(g, {}, mtxatr, {}) /\ Inheriting(g, {t}, mtxatr, bpri)
      /\ Topped(k, t, m) = InheritedBy(g, mtxatr, bpri, t)
      /\ \A h \in Mtx : ~Wants(g.msts, g.wsts, t, h)
      BY <1>2 DEF TakenAs
<1>4. /\ g.ctcb = t /\ g.cpri = k.cpri /\ g.pri = k.pri /\ g.rdsp = k.rdsp /\ g.msts = k.msts
      /\ k \in Kernel /\ "RDY" \in g.msts[t] /\ t # NONE
  <2>1. /\ g.ctcb = t /\ g.cpri = k.cpri /\ g.pri = k.pri /\ g.rdsp = k.rdsp
        /\ g.msts = k.msts /\ k \in Kernel
        BY DEF Alight, Calm, Takes, SameRun, SameTasks
  <2> QED BY <1>3, <2>1, Constants DEF Running
<1>5. ASSUME ~(mtxatr[m] = "CEILING" /\ k.cpri[t] > v)
      PROVE  Whole(r, {}, {}, mtxatr, stime, bpri, dsp)
  <2>1. r = g BY <1>5
  <2>2. g.cpri[t] = InheritedBy(g, mtxatr, bpri, t) BY <1>3, <1>4, <1>5 DEF Topped
  <2>3. Inheriting(g, {NONE}, mtxatr, bpri) BY <1>3, <2>2 DEF Inheriting
  <2> QED BY <1>3, <2>1, <2>3 DEF Whole, Part
<1>6. ASSUME mtxatr[m] = "CEILING" /\ k.cpri[t] > v
      PROVE  Whole(r, {}, {}, mtxatr, stime, bpri, dsp)
  <2>1. v = InheritedBy(g, mtxatr, bpri, t) BY <1>3, <1>6 DEF Topped
  <2>2. PICK h : h = Moved(g, t, v) OBVIOUS
  <2>3. r = [h EXCEPT !.pri = v] BY <1>6, <2>2
  <2>4. Chained(g.lockmtx, g.owner, t, {}) BY <1>3 DEF Chained
  <2>5. Calm(g, {}, {}, t, mtxatr, stime, bpri) BY <1>3, <2>4 DEF Calm
  <2>6. /\ MovedAs(h, g, t, v) /\ FirstsMoved(h, g, t, v)
        /\ Calm(h, {}, {}, NONE, mtxatr, stime, bpri)
        BY <1>1, <1>3, <2>1, <2>2, <2>5, MovedCalm
  <2>7. v \in 1..MaxPri /\ g.cpri \in [Task -> 1..MaxPri] /\ g.pri \in 1..(MaxPri + 1)
    <3>1. InheritedBy(g, mtxatr, bpri, t) \in 1..MaxPri BY <1>1, <1>3, InheritedFacts
    <3> QED BY <1>3, <2>1, <3>1, KernelFields
  <2>8. /\ h \in Kernel /\ h.cpri = [g.cpri EXCEPT ![t] = v] /\ h.msts = g.msts
        /\ h.ctcb = g.ctcb /\ h.pri = g.pri /\ h.rdsp = g.rdsp
        BY <2>6 DEF MovedAs, SameTasks, SameRun
  <2>9. /\ r \in Kernel /\ r.msts = h.msts /\ r.wsts = h.wsts /\ r.owner = h.owner
        /\ r.mpri = h.mpri /\ r.cpri = h.cpri /\ r.rdq = h.rdq /\ r.mtxq = h.mtxq
        /\ r.timq = h.timq /\ r.ctcb = h.ctcb /\ r.pri = v /\ r.rdsp = h.rdsp
        /\ r.lockmtx = h.lockmtx
    <3>1. v \in 1..(MaxPri + 1) BY <2>7, MConstants
    <3> QED BY <2>3, <2>8, <3>1 DEF Kernel
  <2>10. Calm(r, {}, {}, NONE, mtxatr, stime, bpri)
    <3>1. PICK E : E = {} OBVIOUS
    <3>2. /\ Linked(h, E, E, mtxatr, stime)
          /\ Chained(h.lockmtx, h.owner, NONE, {}) /\ Backed(h, E, mtxatr)
          /\ Offered(h, E, mtxatr, {}) /\ Inheriting(h, {NONE}, mtxatr, bpri)
          BY <2>6, <3>1 DEF Calm
    <3>3. Linked(r, E, E, mtxatr, stime) BY <2>9, <3>2 DEF Linked
    <3>4. Backed(r, E, mtxatr) BY <2>9, <3>2 DEF Backed
    <3>5. Offered(r, E, mtxatr, {}) BY <2>9, <3>2 DEF Offered, OfferedAt
    <3>6. Inheriting(r, {NONE}, mtxatr, bpri)
          BY <2>9, <3>2 DEF Inheriting, InheritedBy, Lifts, Held
    <3>7. Calm(r, E, E, NONE, mtxatr, stime, bpri)
          BY <2>9, <3>1, <3>2, <3>3, <3>4, <3>5, <3>6 DEF Calm
    <3> QED BY <3>1, <3>7
  <2>11. Running(r, dsp)
    <3>1. /\ r.ctcb = t /\ "RDY" \in r.msts[t] /\ r.cpri[t] = v
          BY <1>4, <2>7, <2>8, <2>9
    <3>2. g.rdsp => dsp BY <1>3 DEF Running
    <3>3. ~g.rdsp => First(r.rdq, v, t)
      <4>1. SUFFICES ASSUME ~g.rdsp PROVE First(h.rdq, v, t) BY <2>9
      <4>2. g.pri = g.cpri[t] /\ First(g.rdq, g.pri, t) BY <1>3, <1>4, <4>1 DEF Running
      <4>3. g.cpri[t] > v /\ g.cpri[t] \in 1..MaxPri BY <1>4, <1>6, <2>7
      <4> QED BY <1>4, <2>6, <4>2, <4>3 DEF FirstsMoved
    <3> QED BY <1>4, <2>8, <2>9, <3>1, <3>2, <3>3 DEF Running
  <2> QED BY <2>10, <2>11, WholeIs
<1> QED BY <1>5, <1>6

(* loc_mtx of a mutex that is free. *)
LEMMA MLocFree ==
    ASSUME MIInv, NEW t \in Task, NEW m \in Mtx, NEW d, LocMtx(t, m, d), owner[m] = NONE
    PROVE  MIInv'
<1>1. PICK n, g, v : /\ n = Now /\ v = mpri[m]
                     /\ g = [Now EXCEPT !.owner[m] = t, !.lockmtx[t] = <<m>> \o @]
      OBVIOUS
<1>2. PICK r : r = IF mtxatr[m] = "CEILING" /\ cpri[t] > v
                   THEN [Moved(g, t, v) EXCEPT !.pri = v] ELSE g
      OBVIOUS
<1>3. /\ ctcb = t /\ mtxatr[m] # NONE /\ stime' = stime
      /\ UNCHANGED <<act, wup, systim, dsp, bpri, mtxatr>>
      BY DEF LocMtx
<1>4. Become(r)
  <2>1. Become(IF mtxatr[m] = "CEILING" /\ cpri[t] > mpri[m]
               THEN [Moved(g, t, mpri[m]) EXCEPT !.pri = mpri[m]] ELSE g)
        BY <1>1 DEF LocMtx
  <2> QED BY <1>1, <1>2, <2>1
<1>5. MTypes BY DEF MIInv
<1>6. /\ n \in Kernel /\ Whole(n, {}, {}, mtxatr, stime, bpri, dsp)
      /\ n.ctcb = t /\ n.owner[m] = NONE /\ n.cpri = cpri /\ v = n.mpri[m]
      BY <1>1, <1>3, NowTyped, NowIs
<1>7. Alight(n, t, m) BY <1>3, <1>6, WholeIs DEF Alight
<1>8. Takes(g, n, t, m) BY <1>1, <1>6, TakesIs
<1>9. Whole(r, {}, {}, mtxatr, stime, bpri, dsp) BY <1>2, <1>5, <1>6, <1>7, <1>8, ToppedFacts
<1>10. MTypes' BY <1>3, <1>5 DEF MTypes
<1>11. Whole(r, {}, {}, mtxatr', stime', bpri', dsp') BY <1>3, <1>9
<1> QED BY <1>4, <1>10, <1>11, Settles

(* The running task waits for a mutex others own: it enters the queues.    *)
Entered(r, k, t, m, tq) ==
    /\ r \in Kernel /\ SameTasks(r, k) /\ SameRun(r, k) /\ SameMtx(r, k)
    /\ r.cpri = k.cpri /\ r.rdq = k.rdq /\ r.timq = tq
    /\ Enqueued(r.mtxq, k.mtxq, m, Side(m, t, mtxatr, k.cpri), t)

(* The timer queue, with t on it or not. *)
Clocked(tq2, tq, ms, st2, st, t) ==
    \/ tq2 = tq /\ st2 = st /\ "TMR" \notin ms[t]
    \/ /\ tq2 = EnqTim(tq, st2, t) /\ "TMR" \in ms[t]
       /\ st2 \in [Task -> Stamp] /\ \A u \in Task \ {t} : st2[u] = st[u]

LEMMA ClockedFacts ==
    ASSUME NEW tq \in Seq(Task), NEW ms, NEW st \in [Task -> Stamp], NEW t \in Task,
           OffTimq(tq, ms, st, {t}), NEW tq2, NEW st2, Clocked(tq2, tq, ms, st2, st, t)
    PROVE  tq2 \in Seq(Task) /\ OffTimq(tq2, ms, st2, {})
<1>1. /\ Once(tq) /\ InTime(tq, st)
      /\ \A u \in Task : u \in ToSet(tq) <=> u # t /\ "TMR" \in ms[u]
      BY DEF OffTimq
<1>2. CASE tq2 = tq /\ st2 = st /\ "TMR" \notin ms[t] BY <1>1, <1>2 DEF OffTimq
<1>3. CASE ~(tq2 = tq /\ st2 = st /\ "TMR" \notin ms[t])
  <2>1. /\ tq2 = EnqTim(tq, st2, t) /\ "TMR" \in ms[t]
        /\ st2 \in [Task -> Stamp] /\ \A u \in Task \ {t} : st2[u] = st[u]
        BY <1>3 DEF Clocked
  <2>2. t \notin ToSet(tq) /\ ToSet(tq) \subseteq Task BY <1>1, ToSetFacts
  <2>3. InTime(tq, st2)
    <3>1. \A u \in ToSet(tq) : st[u] = st2[u] BY <2>1, <2>2
    <3> QED BY <1>1, <3>1, InTimeKept
  <2>4. /\ tq2 \in Seq(Task) /\ ToSet(tq2) = ToSet(tq) \cup {t}
        /\ Once(tq2) /\ InTime(tq2, st2)
        BY <1>1, <2>1, <2>2, <2>3, EnqTimFacts
  <2>5. \A u \in Task : u \in ToSet(tq2) <=> u \notin {} /\ "TMR" \in ms[u]
        BY <1>1, <2>1, <2>4
  <2> QED BY <2>4, <2>5 DEF OffTimq
<1> QED BY <1>2, <1>3

(* Everything is as it is to be, but that m may not pass on t's priority. *)
WaitingAs(r, k, st2, t, m) ==
    /\ r \in Kernel /\ Linked(r, {}, {}, mtxatr, st2)
    /\ Chained(r.lockmtx, r.owner, NONE, {}) /\ Backed(r, {}, mtxatr)
    /\ \A h \in Mtx : h # m /\ mtxatr[h] = "INHERIT" => OfferedAt(r, {}, {}, h)
    /\ \A u \in Task \ {t} : Wants(r.msts, r.wsts, u, m) /\ mtxatr[m] = "INHERIT"
           => r.mpri[m] <= r.cpri[u]
    /\ Inheriting(r, {NONE}, mtxatr, bpri)
    /\ r.owner = k.owner /\ r.mpri = k.mpri /\ r.cpri = k.cpri
    /\ Wants(r.msts, r.wsts, t, m)

LEMMA EnteredFacts ==
    ASSUME NEW k, NEW t \in Task, NEW m \in Mtx, NEW st \in [Task -> Stamp],
           Calm(k, {t}, {t}, NONE, mtxatr, st, bpri), Wants(k.msts, k.wsts, t, m),
           k.owner[m] # NONE, NEW st2, NEW tq2, Clocked(tq2, k.timq, k.msts, st2, st, t),
           NEW r, Entered(r, k, t, m, tq2)
    PROVE  WaitingAs(r, k, st2, t, m)
<1>1. PICK E, X : E = {} /\ X = {t} OBVIOUS
<1>2. /\ k \in Kernel /\ Linked(k, X, X, mtxatr, st)
      /\ Chained(k.lockmtx, k.owner, NONE, {}) /\ Backed(k, X, mtxatr)
      /\ Offered(k, X, mtxatr, {}) /\ Inheriting(k, {NONE}, mtxatr, bpri)
      BY <1>1 DEF Calm
<1>3. /\ r \in Kernel /\ r.msts = k.msts /\ r.wsts = k.wsts /\ r.mpri = k.mpri
      /\ r.cpri = k.cpri /\ r.rdq = k.rdq /\ r.timq = tq2
      /\ r.lockmtx = k.lockmtx /\ r.owner = k.owner
      /\ Enqueued(r.mtxq, k.mtxq, m, Side(m, t, mtxatr, k.cpri), t)
      BY DEF Entered, SameTasks, SameRun, SameMtx, SameChains
<1>4. /\ k.mtxq \in [Mtx -> [0..MaxPri -> Seq(Task)]] /\ k.cpri \in [Task -> 1..MaxPri]
      /\ k.timq \in Seq(Task)
      BY <1>2, KernelFields
<1>5. /\ MFlagged(k.msts, k.wsts, mtxatr) /\ OffRdq(k.rdq, k.msts, k.cpri, X)
      /\ OffMtxq(k.mtxq, k.msts, k.wsts, k.cpri, mtxatr, X)
      /\ OffTimq(k.timq, k.msts, st, X)
      BY <1>2 DEF Linked
<1>6. \A h \in Mtx : Wants(k.msts, k.wsts, t, h) <=> h = m BY DEF Wants
<1>7. "RDY" \notin k.msts[t]
  <2>1. Flagged(k.msts, k.wsts) /\ "WAI" \in k.msts[t] BY <1>5 DEF MFlagged, Wants
  <2> QED BY <2>1, FlagFacts
<1>8. Linked(r, E, E, mtxatr, st2)
  <2>1. OffTimq(tq2, k.msts, st2, E)
    <3>1. OffTimq(k.timq, k.msts, st, {t}) BY <1>1, <1>5
    <3>2. OffTimq(tq2, k.msts, st2, {}) BY <1>4, <3>1, ClockedFacts
    <3> QED BY <1>1, <3>2
  <2>2. OffRdq(k.rdq, k.msts, k.cpri, E)
    <3>1. \A u \in Task :
             /\ u \notin E /\ "RDY" \in k.msts[u] <=> u \notin X /\ "RDY" \in k.msts[u]
             /\ u \notin X /\ "RDY" \in k.msts[u] => k.cpri[u] = k.cpri[u]
          BY <1>1, <1>7
    <3> QED BY <1>5, <3>1, MRdqStay
  <2>3. OffMtxq(r.mtxq, k.msts, k.wsts, k.cpri, mtxatr, E)
    <3>1. E \cup {t} = X /\ t \notin E BY <1>1
    <3>2. OffMtxq(k.mtxq, k.msts, k.wsts, k.cpri, mtxatr, E \cup {t}) BY <1>5, <3>1
    <3>3. Wait(k.msts, k.wsts, k.cpri, k.msts, k.wsts, k.cpri, t) BY DEF Wait
    <3>4. PICK p : p = Side(m, t, mtxatr, k.cpri) OBVIOUS
    <3>5. Enqueued(r.mtxq, k.mtxq, m, p, t) BY <1>3, <3>4
    <3> QED BY <1>4, <3>1, <3>2, <3>3, <3>4, <3>5, MtxqEnter
  <2> QED BY <1>3, <1>5, <2>1, <2>2, <2>3 DEF Linked
<1>9. Backed(r, E, mtxatr)
  <2>1. \A h \in Mtx : Wants(k.msts, k.wsts, t, h) => k.owner[h] # NONE BY <1>6
  <2>2. \A u \in Task, h \in Mtx : Wants(k.msts, k.wsts, u, h) => k.owner[h] # NONE
        BY <1>1, <1>2, <2>1 DEF Backed
  <2> QED BY <1>2, <1>3, <2>2 DEF Backed
<1>10. ASSUME NEW h \in Mtx, h # m, mtxatr[h] = "INHERIT" PROVE OfferedAt(r, E, {}, h)
  <2>1. OfferedAt(k, X, {}, h) /\ ~Wants(k.msts, k.wsts, t, h) BY <1>2, <1>6, <1>10 DEF Offered
  <2> QED BY <1>1, <1>3, <2>1 DEF OfferedAt
<1>11. ASSUME NEW u \in Task \ {t}, Wants(r.msts, r.wsts, u, m), mtxatr[m] = "INHERIT"
       PROVE  r.mpri[m] <= r.cpri[u]
       BY <1>1, <1>2, <1>3, <1>11 DEF Offered, OfferedAt
<1>12. Inheriting(r, {NONE}, mtxatr, bpri)
       BY <1>2, <1>3 DEF Inheriting, InheritedBy, Lifts, Held
<1> QED BY <1>1, <1>2, <1>3, <1>8, <1>9, <1>10, <1>11, <1>12 DEF WaitingAs

(* The owner inherits t's priority. *)
Lift(k, t, m, o) ==
    LET lift == [k EXCEPT !.mpri[m] = k.cpri[t]] IN
    IF k.cpri[o] > k.cpri[t] THEN Changed(lift, o, k.cpri[t]) ELSE lift

LEMMA LiftFacts ==
    ASSUME MTypes, NEW n, NEW k, NEW st2, NEW t \in Task, NEW m \in Mtx,
           WaitingAs(k, n, st2, t, m), Running(k, dsp), mtxatr[m] = "INHERIT",
           k.mpri[m] > k.cpri[t], NEW o, o = k.owner[m], o # NONE, NEW r, r = Lift(k, t, m, o)
    PROVE  Whole(r, {}, {}, mtxatr, st2, bpri, dsp)
<1>1. PICK E : E = {} OBVIOUS
<1>2. /\ k \in Kernel /\ Linked(k, E, E, mtxatr, st2)
      /\ Chained(k.lockmtx, k.owner, NONE, {}) /\ Backed(k, E, mtxatr)
      /\ \A h \in Mtx : h # m /\ mtxatr[h] = "INHERIT" => OfferedAt(k, E, {}, h)
      /\ \A u \in Task \ {t} : Wants(k.msts, k.wsts, u, m) => k.mpri[m] <= k.cpri[u]
      /\ Inheriting(k, {NONE}, mtxatr, bpri) /\ Wants(k.msts, k.wsts, t, m)
      BY <1>1 DEF WaitingAs
<1>3. /\ k.owner \in [Mtx -> Task \cup {NONE}] /\ k.mpri \in [Mtx -> 1..TMAX_TPRI]
      /\ k.cpri \in [Task -> 1..MaxPri]
      BY <1>2, KernelFields
<1>4. o \in Task BY <1>3
<1>5. bpri \in [Task -> 1..MaxPri] BY DEF MTypes
<1>6. PICK v \in 1..MaxPri : v = k.cpri[t] BY <1>3
<1>7. v \in 1..TMAX_TPRI /\ v < k.mpri[m] BY <1>3, <1>6, MConstants
<1>8. PICK l : l = [k EXCEPT !.mpri[m] = v] OBVIOUS
<1>9. OnlyMpri(l, k, m, v) BY <1>2, <1>7, <1>8, MpriFacts
<1>10. /\ l \in Kernel /\ SameTasks(l, k) /\ SameChains(l, k) /\ l.cpri = k.cpri
       /\ l.mpri = [k.mpri EXCEPT ![m] = v]
       /\ l.msts = k.msts /\ l.wsts = k.wsts /\ l.owner = k.owner /\ l.lockmtx = k.lockmtx
       BY <1>9 DEF OnlyMpri, SameTasks, SameChains
<1>11. l.mpri[m] = v /\ \A h \in Mtx : h # m => l.mpri[h] = k.mpri[h] BY <1>3, <1>10
<1>12. Linked(l, E, E, mtxatr, st2) /\ Running(l, dsp) BY <1>2, <1>9, MpriKeeps
<1>13. Backed(l, E, mtxatr) /\ Chained(l.lockmtx, l.owner, NONE, {})
       BY <1>2, <1>10, BackedSame
<1>14. Offered(l, E, mtxatr, {})
  <2>1. ASSUME NEW h \in Mtx, mtxatr[h] = "INHERIT" PROVE OfferedAt(l, E, {}, h)
    <3>1. CASE h = m
      <4>1. ASSUME NEW u \in Task, Wants(k.msts, k.wsts, u, m) PROVE v <= k.cpri[u]
        <5>1. CASE u = t BY <1>6, <5>1
        <5>2. CASE u # t
          <6>1. k.mpri[m] <= k.cpri[u] BY <1>2, <4>1, <5>2
          <6>2. k.mpri[m] \in Nat /\ k.cpri[u] \in Nat /\ v \in Nat BY <1>3, <1>6, MConstants
          <6> QED BY <1>7, <6>1, <6>2
        <5> QED BY <5>1, <5>2
      <4> QED BY <1>1, <1>2, <1>10, <1>11, <3>1, <4>1 DEF OfferedAt
    <3>2. CASE h # m BY <1>2, <1>10, <1>11, <2>1, <3>2 DEF OfferedAt
    <3> QED BY <3>1, <3>2
  <2> QED BY <2>1 DEF Offered
<1>15. ASSUME NEW u \in Task, u # o PROVE InheritedBy(l, mtxatr, bpri, u) = InheritedBy(k, mtxatr, bpri, u)
  <2>1. m \notin Held(k, u)
    <3>1. u # NONE /\ k.owner[m] # u BY <1>15, Constants
    <3> QED BY <1>2, <3>1, NotHeld
  <2> QED BY <1>2, <1>5, <1>7, <1>9, <2>1, InheritedUp
<1>16. Inheriting(l, {o}, mtxatr, bpri)
  <2>1. ASSUME NEW u \in Task, u # o, "DMT" \notin l.msts[u]
        PROVE  l.cpri[u] = InheritedBy(l, mtxatr, bpri, u)
    <3>1. k.cpri[u] = InheritedBy(k, mtxatr, bpri, u)
          BY <1>2, <1>10, <2>1, Constants DEF Inheriting
    <3> QED BY <1>10, <1>15, <2>1, <3>1
  <2> QED BY <2>1 DEF Inheriting
<1>17. "DMT" \notin l.msts[o] BY <1>10, <1>13 DEF Backed
<1>18. k.cpri[o] = InheritedBy(k, mtxatr, bpri, o)
       BY <1>2, <1>4, <1>10, <1>17, Constants DEF Inheriting
<1>19. m \in Held(k, o) BY <1>2, <1>4, HeldFacts DEF Chained
<1>20. PICK w \in 1..MaxPri : w = k.cpri[o] BY <1>3, <1>4
<1>21. /\ w > v => InheritedBy(l, mtxatr, bpri, o) = v
       /\ w <= v => InheritedBy(l, mtxatr, bpri, o) = w
       BY <1>2, <1>4, <1>5, <1>7, <1>9, <1>18, <1>19, <1>20, InheritedUp
<1>22. ASSUME w > v PROVE Whole(r, {}, {}, mtxatr, st2, bpri, dsp)
  <2>1. r = Changed(l, o, v) BY <1>6, <1>8, <1>20, <1>22 DEF Lift
  <2>2. v = InheritedBy(l, mtxatr, bpri, o) BY <1>21, <1>22
  <2>3. E \subseteq Task BY <1>1
  <2>4. Grounds(l, E, E, bpri, E, NONE)
    <3>1. Chained(l.lockmtx, l.owner, NONE, E) BY <1>1, <1>13
    <3> QED BY <1>1, <1>5, <1>10, <1>13, <2>3, <3>1 DEF Grounds
  <2>5. Offered(l, E, mtxatr, E) BY <1>1, <1>14
  <2>6. HandedOn(r, l, E, E, st2, E, bpri)
        BY <1>1, <1>4, <1>12, <1>16, <1>17, <2>1, <2>2, <2>4, <2>5, ChangedFacts
  <2>7. HandedOn(r, l, E, E, st2, {}, bpri) BY <1>1, <2>6
  <2>8. Whole(r, E, E, mtxatr, st2, bpri, dsp) BY <1>13, <2>3, <2>7, HandedOnWhole
  <2> QED BY <1>1, <2>8
<1>23. ASSUME ~(w > v) PROVE Whole(r, {}, {}, mtxatr, st2, bpri, dsp)
  <2>1. r = l BY <1>6, <1>8, <1>20, <1>23 DEF Lift
  <2>2. l.cpri[o] = InheritedBy(l, mtxatr, bpri, o)
    <3>1. w <= v BY <1>23
    <3> QED BY <1>10, <1>20, <1>21, <3>1
  <2>3. Inheriting(l, {NONE}, mtxatr, bpri) BY <1>16, <2>2 DEF Inheriting
  <2>4. E \subseteq Task BY <1>1
  <2>5. Whole(l, E, E, mtxatr, st2, bpri, dsp)
        BY <1>10, <1>12, <1>13, <1>14, <2>3, <2>4 DEF Whole, Part
  <2> QED BY <1>1, <2>1, <2>5
<1> QED BY <1>22, <1>23

(* The owner is urgent enough. *)
LEMMA NotLifted ==
    ASSUME NEW n, NEW k, NEW st2, NEW t \in Task, NEW m \in Mtx,
           WaitingAs(k, n, st2, t, m), Running(k, dsp),
           ~(mtxatr[m] = "INHERIT" /\ k.mpri[m] > k.cpri[t])
    PROVE  Whole(k, {}, {}, mtxatr, st2, bpri, dsp)
<1>1. PICK E : E = {} OBVIOUS
<1>2. /\ k \in Kernel /\ Linked(k, E, E, mtxatr, st2)
      /\ Chained(k.lockmtx, k.owner, NONE, {}) /\ Backed(k, E, mtxatr)
      /\ \A h \in Mtx : h # m /\ mtxatr[h] = "INHERIT" => OfferedAt(k, E, {}, h)
      /\ \A u \in Task \ {t} : Wants(k.msts, k.wsts, u, m) /\ mtxatr[m] = "INHERIT"
            => k.mpri[m] <= k.cpri[u]
      /\ Inheriting(k, {NONE}, mtxatr, bpri) /\ Wants(k.msts, k.wsts, t, m)
      BY <1>1 DEF WaitingAs
<1>3. k.mpri[m] \in Nat /\ k.cpri[t] \in Nat BY <1>2, KernelFields, MConstants
<1>4. mtxatr[m] = "INHERIT" => OfferedAt(k, E, {}, m)
  <2>1. SUFFICES ASSUME mtxatr[m] = "INHERIT" PROVE OfferedAt(k, E, {}, m) OBVIOUS
  <2>2. k.mpri[m] <= k.cpri[t] BY <1>3, <2>1
  <2>3. \A u \in Task : Wants(k.msts, k.wsts, u, m) => k.mpri[m] <= k.cpri[u]
        BY <1>2, <2>1, <2>2
  <2> QED BY <1>1, <1>2, <2>3 DEF OfferedAt
<1>5. Offered(k, E, mtxatr, {}) BY <1>2, <1>4 DEF Offered
<1>6. Whole(k, E, E, mtxatr, st2, bpri, dsp)
  <2>1. E \subseteq Task BY <1>1
  <2> QED BY <1>2, <1>5, <2>1 DEF Whole, Part
<1> QED BY <1>1, <1>6

(* What _kernel_locmtx_1 makes of the caller and its queues.               *)
WaitFlags(m, d) == {"WAI"} \cup (IF mtxatr[m] = "FIFO" THEN {"FIFO"} ELSE {})
                           \cup (IF d = FEVR THEN {} ELSE {"TMR"})

LEMMA WaitFlagsFacts ==
    ASSUME NEW m, NEW d, NEW f, f = WaitFlags(m, d)
    PROVE  /\ f \in SUBSET Flags /\ "WAI" \in f /\ "DMT" \notin f /\ "RDY" \notin f
           /\ ("FIFO" \in f <=> mtxatr[m] = "FIFO") /\ ("TMR" \in f <=> d # FEVR)
BY DEF WaitFlags, Flags

(* Callers lock mutexes in an order: those t holds come before m. *)
LEMMA BeforeAll ==
    ASSUME LockOrder, NEW k \in Kernel, Chained(k.lockmtx, k.owner, NONE, {}),
           NEW t \in Task, NEW m \in Mtx, k.owner[m] # t,
           \A h \in Held(k, t) : Rank[h] <= Rank[m]
    PROVE  \A h \in Mtx : k.owner[h] = t => Rank[h] < Rank[m]
<1>1. ASSUME NEW h \in Mtx, k.owner[h] = t PROVE Rank[h] < Rank[m]
  <2>1. h # m BY <1>1
  <2>2. h \in Held(k, t)
    <3>1. t # NONE BY Constants
    <3> QED BY <1>1, <3>1, HeldFacts DEF Chained
  <2>3. Rank[h] <= Rank[m] BY <2>2
  <2>4. Rank[h] # Rank[m] BY <2>1 DEF LockOrder
  <2>5. Rank[h] \in Nat /\ Rank[m] \in Nat BY MConstants
  <2> QED BY <2>3, <2>4, <2>5
<1> QED BY <1>1

(* The caller has left the ready queue. *)
Halted(k, t, m, f) ==
    [k EXCEPT !.rdq[k.cpri[t]] = Unlink(@, t), !.msts[t] = f, !.wsts[t] = m, !.ctcb = NONE]

LEMMA HaltedFacts ==
    ASSUME NEW k \in Kernel, OffRdq(k.rdq, k.msts, k.cpri, {}), NEW t \in Task, NEW m \in Mtx,
           NEW f \in SUBSET Flags, NEW r, r = Halted(k, t, m, f)
    PROVE  Blocked(r, k, t, f, m)
<1>1. /\ k.msts \in [Task -> SUBSET Flags] /\ k.wsts \in [Task -> Why]
      /\ k.cpri \in [Task -> 1..MaxPri] /\ k.rdq \in [1..MaxPri -> Seq(Task)]
      BY KernelFields
<1>2. PICK ms, ws, rq :
         /\ ms = [k.msts EXCEPT ![t] = f] /\ ws = [k.wsts EXCEPT ![t] = m]
         /\ rq = [k.rdq EXCEPT ![k.cpri[t]] = Unlink(@, t)]
      OBVIOUS
<1>3. ms \in [Task -> SUBSET Flags] BY <1>1, <1>2
<1>4. ws \in [Task -> Why] BY <1>1, <1>2 DEF Why
<1>5. rq \in [1..MaxPri -> Seq(Task)]
  <2>1. Unlinked(rq, k.rdq, k.cpri[t], t) BY <1>2 DEF Unlinked
  <2> QED BY <1>1, <2>1, MRdqDrop
<1>6. r = [k EXCEPT !.rdq = rq, !.msts = ms, !.wsts = ws, !.ctcb = NONE]
      BY <1>2 DEF Halted
<1>7. /\ r \in Kernel /\ r.rdq = rq /\ r.msts = ms /\ r.wsts = ws /\ r.ctcb = NONE
      /\ r.rdsp = k.rdsp /\ SameMtx(r, k) /\ r.cpri = k.cpri /\ r.mtxq = k.mtxq
      /\ r.timq = k.timq
      BY <1>3, <1>4, <1>5, <1>6 DEF Kernel, SameMtx, SameChains
<1> QED BY <1>2, <1>7 DEF Blocked, Unlinked

(* It is on the queue of the mutex, and on the timer queue if it may time out. *)
InLine(k, t, m, way, tq) == [k EXCEPT !.mtxq[m][way] = Append(@, t), !.timq = tq]

LEMMA InLineFacts ==
    ASSUME NEW k \in Kernel, NEW t \in Task, NEW m \in Mtx, NEW tq \in Seq(Task),
           NEW way, way = Side(m, t, mtxatr, k.cpri), NEW r, r = InLine(k, t, m, way, tq)
    PROVE  Entered(r, k, t, m, tq)
<1>1. k.cpri \in [Task -> 1..MaxPri] /\ k.mtxq \in [Mtx -> [0..MaxPri -> Seq(Task)]]
      BY KernelFields
<1>2. way \in 0..MaxPri
  <2>1. k.cpri[t] \in 0..MaxPri /\ 0 \in 0..MaxPri BY <1>1, MConstants
  <2> QED BY <2>1 DEF Side
<1>3. PICK mq : mq = [k.mtxq EXCEPT ![m][way] = Append(@, t)] OBVIOUS
<1>4. mq \in [Mtx -> [0..MaxPri -> Seq(Task)]]
  <2>1. PICK side, q : side = k.mtxq[m] /\ q = side[way] OBVIOUS
  <2>2. side \in [0..MaxPri -> Seq(Task)] /\ q \in Seq(Task) BY <1>1, <1>2, <2>1
  <2>3. PICK q2 : q2 = Append(q, t) OBVIOUS
  <2>4. q2 \in Seq(Task) BY <2>2, <2>3
  <2>5. PICK side2 : side2 = [side EXCEPT ![way] = q2] OBVIOUS
  <2>6. side2 \in [0..MaxPri -> Seq(Task)] BY <2>2, <2>4, <2>5
  <2>7. mq = [k.mtxq EXCEPT ![m] = side2] BY <1>1, <1>3, <2>1, <2>3, <2>5
  <2> QED BY <1>1, <2>6, <2>7
<1>5. r = [k EXCEPT !.mtxq = mq, !.timq = tq] BY <1>3 DEF InLine
<1>6. /\ r \in Kernel /\ SameTasks(r, k) /\ SameRun(r, k) /\ SameMtx(r, k)
      /\ r.cpri = k.cpri /\ r.rdq = k.rdq /\ r.timq = tq /\ r.mtxq = mq
      BY <1>4, <1>5 DEF Kernel, SameTasks, SameRun, SameMtx, SameChains
<1>7. Enqueued(r.mtxq, k.mtxq, m, way, t) BY <1>3, <1>6 DEF Enqueued
<1> QED BY <1>6, <1>7 DEF Entered

(* Two updates in a row are one. *)
LEMMA TwiceUpdated ==
    ASSUME NEW k \in Kernel, NEW rq, NEW mq, NEW ws, NEW ms1, NEW ms, NEW tq, NEW off,
           off = [k EXCEPT !.rdq = rq, !.mtxq = mq, !.wsts = ws, !.ctcb = NONE, !.msts = ms1],
           NEW r, r = [off EXCEPT !.msts = ms, !.timq = tq]
    PROVE  r = [k EXCEPT !.rdq = rq, !.mtxq = mq, !.wsts = ws, !.ctcb = NONE, !.msts = ms,
                         !.timq = tq]
<1>1. PICK g : g = [k EXCEPT !.rdq = rq, !.mtxq = mq, !.wsts = ws, !.ctcb = NONE, !.msts = ms,
                             !.timq = tq]
      OBVIOUS
<1>2. r = [msts |-> ms, wsts |-> ws, cpri |-> k.cpri, rdq |-> rq, timq |-> tq,
           ctcb |-> NONE, pri |-> k.pri, rdsp |-> k.rdsp, lockmtx |-> k.lockmtx,
           owner |-> k.owner, mpri |-> k.mpri, mtxq |-> mq]
      BY DEF Kernel
<1>3. g = [msts |-> ms, wsts |-> ws, cpri |-> k.cpri, rdq |-> rq, timq |-> tq,
           ctcb |-> NONE, pri |-> k.pri, rdsp |-> k.rdsp, lockmtx |-> k.lockmtx,
           owner |-> k.owner, mpri |-> k.mpri, mtxq |-> mq]
      BY <1>1 DEF Kernel
<1> QED BY <1>1, <1>2, <1>3

(* The steps _kernel_locmtx_1 takes there. *)
OffAndIn(off, k, t, m, way) ==
    off = [k EXCEPT !.rdq[k.cpri[t]] = Unlink(@, t),
                    !.mtxq[m][way] = Append(@, t), !.wsts[t] = m, !.ctcb = NONE,
                    !.msts[t] = {"WAI"} \cup (IF Fifo(m) THEN {"FIFO"} ELSE {})]

TimerOf(tq, tq1, st, t, d) == tq = IF d = FEVR THEN tq1 ELSE EnqTim(tq1, st, t)

InTimer(r, off, st, t, d) ==
    r = IF d = FEVR THEN off
        ELSE [off EXCEPT !.msts[t] = @ \cup {"TMR"}, !.timq = EnqTim(@, st, t)]

LEMMA InLineIs ==
    ASSUME NEW k \in Kernel, NEW t \in Task, NEW m \in Mtx, NEW d, NEW way, NEW tq, NEW st2,
           NEW off, OffAndIn(off, k, t, m, way), TimerOf(tq, k.timq, st2, t, d),
           NEW r, InTimer(r, off, st2, t, d)
    PROVE  r = InLine(Halted(k, t, m, WaitFlags(m, d)), t, m, way, tq)
<1>1. PICK e, f : /\ e = {"WAI"} \cup (IF Fifo(m) THEN {"FIFO"} ELSE {})
                  /\ f = WaitFlags(m, d)
      OBVIOUS
<1>2. f = IF d = FEVR THEN e ELSE e \cup {"TMR"} BY <1>1 DEF WaitFlags, Fifo
<1>3. PICK ms1, ms, ws, rq, mq :
         /\ ms1 = [k.msts EXCEPT ![t] = e] /\ ms = [k.msts EXCEPT ![t] = f]
         /\ ws = [k.wsts EXCEPT ![t] = m] /\ rq = [k.rdq EXCEPT ![k.cpri[t]] = Unlink(@, t)]
         /\ mq = [k.mtxq EXCEPT ![m][way] = Append(@, t)]
      OBVIOUS
<1>4. off = [k EXCEPT !.rdq = rq, !.mtxq = mq, !.wsts = ws, !.ctcb = NONE, !.msts = ms1]
      BY <1>1, <1>3 DEF OffAndIn
<1>5. InLine(Halted(k, t, m, f), t, m, way, tq)
        = [k EXCEPT !.rdq = rq, !.mtxq = mq, !.wsts = ws, !.ctcb = NONE, !.msts = ms, !.timq = tq]
  <2>1. Halted(k, t, m, f) = [k EXCEPT !.rdq = rq, !.msts = ms, !.wsts = ws, !.ctcb = NONE]
        BY <1>3 DEF Halted
  <2> QED BY <1>3, <2>1 DEF InLine, Kernel
<1>6. k.msts \in [Task -> SUBSET Flags] BY KernelFields
<1>7. PICK g : g = [k EXCEPT !.rdq = rq, !.mtxq = mq, !.wsts = ws, !.ctcb = NONE, !.msts = ms,
                             !.timq = tq]
      OBVIOUS
<1>8. r = g
  <2>1. off = [msts |-> ms1, wsts |-> ws, cpri |-> k.cpri, rdq |-> rq, timq |-> k.timq,
               ctcb |-> NONE, pri |-> k.pri, rdsp |-> k.rdsp, lockmtx |-> k.lockmtx,
               owner |-> k.owner, mpri |-> k.mpri, mtxq |-> mq]
        BY <1>4 DEF Kernel
  <2>2. g = [msts |-> ms, wsts |-> ws, cpri |-> k.cpri, rdq |-> rq, timq |-> tq,
             ctcb |-> NONE, pri |-> k.pri, rdsp |-> k.rdsp, lockmtx |-> k.lockmtx,
             owner |-> k.owner, mpri |-> k.mpri, mtxq |-> mq]
        BY <1>7 DEF Kernel
  <2>3. CASE d = FEVR
    <3>1. ms1 = ms /\ tq = k.timq /\ r = off
          BY <1>2, <1>3, <2>3 DEF TimerOf, InTimer
    <3> QED BY <2>1, <2>2, <3>1
  <2>4. CASE d # FEVR
    <3>1. PICK ms2, tq2 : /\ ms2 = [off.msts EXCEPT ![t] = @ \cup {"TMR"}]
                          /\ tq2 = EnqTim(off.timq, st2, t)
          OBVIOUS
    <3>2. off.msts = ms1 /\ off.timq = k.timq BY <1>4 DEF Kernel
    <3>3. ms2 = ms BY <1>2, <1>3, <1>6, <2>4, <3>1, <3>2
    <3>4. tq2 = tq BY <2>4, <3>1, <3>2 DEF TimerOf
    <3>5. r = [off EXCEPT !.msts[t] = @ \cup {"TMR"}, !.timq = EnqTim(@, st2, t)]
          BY <2>4 DEF InTimer
    <3>6. r = [off EXCEPT !.msts = ms2, !.timq = tq2] BY <2>1, <3>1, <3>5
    <3>7. r = [off EXCEPT !.msts = ms, !.timq = tq] BY <3>3, <3>4, <3>6
    <3> QED BY <1>4, <1>7, <3>7, TwiceUpdated
  <2> QED BY <2>3, <2>4
<1> QED BY <1>1, <1>5, <1>7, <1>8

(* It waits, and a mutex that passes priorities on takes its own.          *)
LEMMA MLocWait ==
    ASSUME LockOrder, MIInv, NEW t \in Task, NEW m \in Mtx, NEW d \in Timeout \cup {0},
           LocMtx(t, m, d), owner[m] # NONE
    PROVE  MIInv'
<1>1. PICK n, st2, way, off :
         /\ n = Now /\ st2 = stime' /\ way = IF Fifo(m) THEN 0 ELSE cpri[t]
         /\ off = [Now EXCEPT !.rdq[cpri[t]] = Unlink(@, t),
                              !.mtxq[m][way] = Append(@, t),
                              !.wsts[t] = m, !.ctcb = NONE,
                              !.msts[t] = {"WAI"} \cup (IF Fifo(m) THEN {"FIFO"} ELSE {})]
      OBVIOUS
<1>2. PICK k : k = IF d = FEVR THEN off
                   ELSE [off EXCEPT !.msts[t] = @ \cup {"TMR"}, !.timq = EnqTim(@, st2, t)]
      OBVIOUS
<1>3. PICK r : r = IF mtxatr[m] = "INHERIT" /\ mpri[m] > cpri[t]
                   THEN LET lift == [k EXCEPT !.mpri[m] = cpri[t]] IN
                        IF cpri[owner[m]] > cpri[t]
                        THEN Changed(lift, owner[m], cpri[t]) ELSE lift
                   ELSE k
      OBVIOUS
<1>4. /\ ctcb = t /\ mtxatr[m] # NONE /\ owner[m] # t /\ ~dsp /\ d # 0
      /\ \A h \in Held(Now, t) : Rank[h] <= Rank[m]
      /\ UNCHANGED <<act, wup, systim, dsp, bpri, mtxatr>>
      /\ IF d = FEVR THEN stime' = stime
         ELSE stime' = [stime EXCEPT ![t] = Advance(systim, d)]
      BY DEF LocMtx
<1>5. Become(r)
  <2> DEFINE side == IF Fifo(m) THEN 0 ELSE cpri[t]
             out == [Now EXCEPT !.rdq[cpri[t]] = Unlink(@, t),
                                !.mtxq[m][side] = Append(@, t),
                                !.wsts[t] = m, !.ctcb = NONE,
                                !.msts[t] = {"WAI"} \cup (IF Fifo(m) THEN {"FIFO"} ELSE {})]
             in == IF d = FEVR THEN out
                   ELSE [out EXCEPT !.msts[t] = @ \cup {"TMR"}, !.timq = EnqTim(@, stime', t)]
             up == [in EXCEPT !.mpri[m] = cpri[t]]
             last == IF mtxatr[m] = "INHERIT" /\ mpri[m] > cpri[t]
                     THEN IF cpri[owner[m]] > cpri[t]
                          THEN Changed(up, owner[m], cpri[t]) ELSE up
                     ELSE in
  <2>1. Become(last) BY DEF LocMtx
  <2>2. out = off BY <1>1
  <2> HIDE DEF side, out
  <2>3. in = k BY <1>1, <1>2, <2>2
  <2> HIDE DEF in
  <2>4. last = r BY <1>3, <2>3
  <2> HIDE DEF last
  <2> QED BY <2>1, <2>4
<1>6. MTypes BY DEF MIInv
<1>7. /\ n \in Kernel /\ Whole(n, {}, {}, mtxatr, stime, bpri, dsp)
      /\ n.ctcb = t /\ n.owner = owner /\ n.cpri = cpri /\ n.mpri = mpri
      /\ n.lockmtx = lockmtx
      BY <1>1, <1>4, NowTyped, NowIs
<1>8. /\ Calm(n, {}, {}, NONE, mtxatr, stime, bpri) /\ Running(n, dsp)
      /\ Chained(n.lockmtx, n.owner, NONE, {}) /\ OffRdq(n.rdq, n.msts, n.cpri, {})
      BY <1>7, WholeIs DEF Calm, Linked
<1>9. /\ n.msts \in [Task -> SUBSET Flags] /\ n.wsts \in [Task -> Why]
      /\ n.cpri \in [Task -> 1..MaxPri]
      BY <1>7, KernelFields
<1>10. PICK f : f = WaitFlags(m, d) OBVIOUS
<1>11. /\ f \in SUBSET Flags /\ "WAI" \in f /\ "DMT" \notin f /\ "RDY" \notin f
       /\ ("FIFO" \in f <=> mtxatr[m] = "FIFO") /\ ("TMR" \in f <=> d # FEVR)
       BY <1>10, WaitFlagsFacts
<1>12. PICK h : h = Halted(n, t, m, f) OBVIOUS
<1>13. Blocked(h, n, t, f, m) BY <1>7, <1>8, <1>11, <1>12, HaltedFacts
<1>14. MayWait(n, t, f, m, mtxatr)
  <2>1. n.owner[m] # t /\ \A g \in Held(n, t) : Rank[g] <= Rank[m] BY <1>1, <1>4, <1>7
  <2>2. \A g \in Mtx : n.owner[g] = t => Rank[g] < Rank[m] BY <1>7, <1>8, <2>1, BeforeAll
  <2>3. m # NONE /\ m \notin Sem BY MConstants
  <2> QED BY <1>4, <1>11, <2>2, <2>3 DEF MayWait
<1>15. "RDY" \in n.msts[t] /\ ~n.rdsp BY <1>4, <1>7, <1>8, Constants DEF Running
<1>16. Calm(h, {t}, {t}, NONE, mtxatr, stime, bpri) BY <1>8, <1>13, <1>14, <1>15, BlockedFacts
<1>17. /\ h \in Kernel /\ h.msts[t] = f /\ h.wsts[t] = m /\ h.cpri = n.cpri /\ h.mpri = n.mpri
       /\ h.owner = n.owner /\ h.timq = n.timq /\ h.ctcb = NONE /\ h.rdsp = n.rdsp
       BY <1>9, <1>13 DEF Blocked, SameMtx, SameChains
<1>18. PICK tq : tq = IF d = FEVR THEN n.timq ELSE EnqTim(n.timq, st2, t) OBVIOUS
<1>19. stime \in [Task -> Stamp] /\ systim \in Stamp BY <1>6 DEF MTypes
<1>20. st2 \in [Task -> Stamp] /\ Clocked(tq, h.timq, h.msts, st2, stime, t)
  <2>1. CASE d = FEVR
    <3>1. st2 = stime /\ tq = h.timq BY <1>1, <1>4, <1>17, <1>18, <2>1
    <3>2. "TMR" \notin h.msts[t] BY <1>11, <1>17, <2>1
    <3> QED BY <1>19, <3>1, <3>2 DEF Clocked
  <2>2. CASE d # FEVR
    <3>1. d \in Timeouts BY <1>4, <2>2 DEF Timeout
    <3>2. PICK s : s = Advance(systim, d) OBVIOUS
    <3>3. s \in Stamp BY <1>19, <3>1, <3>2, Constants, AdvanceExact
    <3>4. st2 = [stime EXCEPT ![t] = s] BY <1>1, <1>4, <2>2, <3>2
    <3>5. st2 \in [Task -> Stamp] /\ \A u \in Task \ {t} : st2[u] = stime[u]
          BY <1>19, <3>3, <3>4
    <3>6. tq = EnqTim(h.timq, st2, t) /\ "TMR" \in h.msts[t] BY <1>11, <1>17, <1>18, <2>2
    <3> QED BY <3>5, <3>6 DEF Clocked
  <2> QED BY <2>1, <2>2
<1>21. tq \in Seq(Task)
  <2>1. OffTimq(h.timq, h.msts, stime, {t}) BY <1>16 DEF Calm, Linked
  <2>2. h.timq \in Seq(Task) BY <1>17, KernelFields
  <2> QED BY <1>19, <1>20, <2>1, <2>2, ClockedFacts
<1>22. k = InLine(h, t, m, way, tq)
  <2>1. OffAndIn(off, n, t, m, way) BY <1>1, <1>7 DEF OffAndIn
  <2>2. InTimer(k, off, st2, t, d) BY <1>2 DEF InTimer
  <2>3. TimerOf(tq, n.timq, st2, t, d) BY <1>18 DEF TimerOf
  <2>4. k = InLine(Halted(n, t, m, WaitFlags(m, d)), t, m, way, tq)
        BY <1>7, <2>1, <2>2, <2>3, InLineIs
  <2> QED BY <1>10, <1>12, <2>4
<1>23. Entered(k, h, t, m, tq)
  <2>1. way = Side(m, t, mtxatr, h.cpri) BY <1>1, <1>7, <1>17 DEF Side, Fifo
  <2> QED BY <1>17, <1>21, <1>22, <2>1, InLineFacts
<1>24. WaitingAs(k, h, st2, t, m)
  <2>1. Wants(h.msts, h.wsts, t, m) BY <1>11, <1>17 DEF Wants
  <2>2. h.owner[m] # NONE BY <1>7, <1>17
  <2> QED BY <1>16, <1>19, <1>20, <1>23, <2>1, <2>2, EnteredFacts
<1>25. k.owner = owner /\ k.mpri = mpri /\ k.cpri = cpri BY <1>7, <1>17, <1>24 DEF WaitingAs
<1>26. Running(k, dsp)
  <2>1. k.ctcb = NONE /\ k.rdsp = FALSE
    <3>1. n.rdsp \in BOOLEAN BY <1>7, KernelFields
    <3> QED BY <1>15, <1>17, <1>23, <3>1 DEF Entered, SameRun
  <2> QED BY <1>4, <2>1 DEF Running
<1>27. Whole(r, {}, {}, mtxatr, st2, bpri, dsp)
  <2>1. CASE mtxatr[m] = "INHERIT" /\ mpri[m] > cpri[t]
    <3>1. PICK o : o = k.owner[m] OBVIOUS
    <3>2. o # NONE /\ o = owner[m] BY <1>25, <3>1
    <3>3. r = Lift(k, t, m, o) BY <1>3, <1>25, <2>1, <3>2 DEF Lift
    <3>4. k.mpri[m] > k.cpri[t] /\ mtxatr[m] = "INHERIT" BY <1>25, <2>1
    <3> QED BY <1>6, <1>24, <1>26, <3>1, <3>2, <3>3, <3>4, LiftFacts
  <2>2. CASE ~(mtxatr[m] = "INHERIT" /\ mpri[m] > cpri[t])
    <3>1. r = k BY <1>3, <2>2
    <3>2. ~(mtxatr[m] = "INHERIT" /\ k.mpri[m] > k.cpri[t]) BY <1>25, <2>2
    <3> QED BY <1>24, <1>26, <3>1, <3>2, NotLifted
  <2> QED BY <2>1, <2>2
<1>28. MTypes' BY <1>1, <1>4, <1>6, <1>20 DEF MTypes
<1>29. Whole(r, {}, {}, mtxatr', stime', bpri', dsp') BY <1>1, <1>4, <1>27
<1> QED BY <1>5, <1>28, <1>29, Settles

(* loc_mtx, ploc_mtx and tloc_mtx. *)
LEMMA MLocMtxStep ==
    ASSUME LockOrder, MIInv, NEW t \in Task, NEW m \in Mtx, NEW d \in Timeout \cup {0},
           LocMtx(t, m, d)
    PROVE  MIInv'
BY MLocFree, MLocWait

-----------------------------------------------------------------------------
(* THE INVARIANT                                                           *)

(* Every step keeps the invariant. *)
LEMMA MNextHolds ==
    ASSUME LockOrder, MIInv, [MNext]_mvars
    PROVE  MIInv'
<1>1. ASSUME NEW m \in Mtx, NEW a \in Attr[m], CreMtx(m, a) PROVE MIInv'
      BY <1>1, MCreMtxStep
<1>2. ASSUME NEW m \in Mtx, DelMtx(m) PROVE MIInv' BY <1>2, MDelMtxStep
<1>3. ASSUME NEW t \in Task, NEW m \in Mtx, UnlMtx(t, m) PROVE MIInv' BY <1>3, MUnlMtxStep
<1>4. ASSUME NEW t \in Task, NEW m \in Mtx, NEW d \in Timeout \cup {0}, LocMtx(t, m, d)
      PROVE  MIInv'
      BY <1>4, MLocMtxStep
<1>5. ASSUME NEW t \in Task, MActTsk(t) \/ MTerTsk(t) \/ MExtTsk(t) \/ MRelWai(t) PROVE MIInv'
  <2>1. CASE MActTsk(t) BY <2>1, MActTskStep
  <2>2. CASE MTerTsk(t) BY <2>2, MTerTskStep
  <2>3. CASE MExtTsk(t) BY <2>3, MExtTskStep
  <2>4. CASE MRelWai(t) BY <2>4, MRelWaiStep
  <2> QED BY <1>5, <2>1, <2>2, <2>3, <2>4
<1>6. ASSUME NEW t \in Task, NEW p \in 1..MaxPri, MChgPri(t, p) PROVE MIInv'
      BY <1>6, MChgPriStep
<1>7. CASE MSigTim BY <1>7, MSigTimStep
<1>8. ASSUME NEW t \in Task, SlpTsk(t, FEVR) \/ WupTsk(t), UNCHANGED mtxvars PROVE MIInv'
      BY <1>8, MSlpTskStep, MWupTskStep
<1>9. CASE (DisDsp \/ EnaDsp \/ Dispatch) /\ UNCHANGED mtxvars
      BY <1>9, MDspStep, MDispatchStep
<1>10. CASE UNCHANGED mvars BY <1>10, MStutter
<1> QED BY <1>1, <1>2, <1>3, <1>4, <1>5, <1>6, <1>7, <1>8, <1>9, <1>10 DEF MNext

(* MIInv holds in every reachable state. *)
THEOREM MInvariance ==
    ASSUME LockOrder
    PROVE  MSpec => []MIInv
<1>1. MInit => MIInv BY MInitHolds
<1>2. MIInv /\ [MNext]_mvars => MIInv' BY MNextHolds
<1> QED BY <1>1, <1>2, PTL DEF MSpec

(* The variables of the mutexes keep their types. *)
THEOREM MutexTypes ==
    ASSUME LockOrder
    PROVE  MSpec => []MTypeOK
<1>1. MIInv => MTypeOK
  <2> SUFFICES ASSUME MIInv PROVE MTypeOK OBVIOUS
  <2>1. MTypes BY DEF MIInv
  <2> QED BY <2>1, NowTyped DEF MTypes, MTypeOK
<1> QED BY <1>1, MInvariance, PTL

(* How often a queue without repetitions holds x. *)
LEMMA TimesIs ==
    ASSUME NEW T, NEW q \in Seq(T), Once(q), NEW x
    PROVE  Times(q, x) = IF x \in ToSet(q) THEN 1 ELSE 0
<1>1. ToSet(q) = {q[i] : i \in 1..Len(q)} BY ToSetFacts
<1>2. PICK I : I = {i \in 1..Len(q) : q[i] = x} OBVIOUS
<1>3. Times(q, x) = Cardinality(I) BY <1>2 DEF Times
<1>4. CASE x \in ToSet(q)
  <2>1. PICK j \in 1..Len(q) : q[j] = x BY <1>1, <1>4
  <2>2. I = {j} BY <1>2, <2>1 DEF Once
  <2> QED BY <1>3, <1>4, <2>2, FS_Singleton
<1>5. CASE x \notin ToSet(q)
  <2>1. I = {} BY <1>1, <1>2, <1>5
  <2> QED BY <1>3, <1>5, <2>1, FS_EmptySet
<1> QED BY <1>4, <1>5

(* The wait queues of a mutex hold the tasks that wait for it. *)
LEMMA WaitersWant ==
    ASSUME MIInv, NEW m \in Mtx
    PROVE  Waiters(Now, m) = {t \in Task : Wants(msts, wsts, t, m)}
<1>1. /\ OffMtxq(mtxq, msts, wsts, cpri, mtxatr, {})
      /\ mtxq \in [Mtx -> [0..MaxPri -> Seq(Task)]] /\ cpri \in [Task -> 1..MaxPri]
      BY NowTyped, NowIs DEF Linked
<1>2. ASSUME NEW p \in 0..MaxPri
      PROVE  /\ mtxq[m][p] \in Seq(Task)
             /\ ToSet(mtxq[m][p]) = {mtxq[m][p][i] : i \in 1..Len(mtxq[m][p])}
             /\ ToSet(mtxq[m][p]) \subseteq Task
             /\ \A t \in Task : t \in ToSet(mtxq[m][p]) <=>
                   Wants(msts, wsts, t, m) /\ p = Side(m, t, mtxatr, cpri)
  <2>1. mtxq[m][p] \in Seq(Task) BY <1>1
  <2>2. \A t \in Task : t \in ToSet(mtxq[m][p]) <=>
           t \notin {} /\ Wants(msts, wsts, t, m) /\ p = Side(m, t, mtxatr, cpri)
        BY <1>1 DEF OffMtxq
  <2> QED BY <2>1, <2>2, ToSetFacts
<1>3. ASSUME NEW t
      PROVE  t \in Waiters(Now, m) <=> \E p \in 0..MaxPri : t \in ToSet(mtxq[m][p])
  <2>1. t \in Waiters(Now, m) <=> \E p \in 0..MaxPri :
           \E i \in 1..Len(mtxq[m][p]) : t = mtxq[m][p][i]
    <3>1. t \in Waiters(Now, m) <=> \E p \in 0..MaxPri :
             \E i \in 1..Len(Now.mtxq[m][p]) : t = Now.mtxq[m][p][i]
          BY DEF Waiters
    <3>2. Now.mtxq = mtxq BY NowIs
    <3> QED BY <3>1, <3>2
  <2>2. ASSUME NEW p \in 0..MaxPri
        PROVE  t \in ToSet(mtxq[m][p]) <=>
                 \E i \in 1..Len(mtxq[m][p]) : t = mtxq[m][p][i]
    <3>1. ToSet(mtxq[m][p]) = {mtxq[m][p][i] : i \in 1..Len(mtxq[m][p])} BY <1>2
    <3> QED BY ONLY <3>1
  <2> QED BY <2>1, <2>2
<1>4. ASSUME NEW t \in Task PROVE Side(m, t, mtxatr, cpri) \in 0..MaxPri
  <2>1. cpri[t] \in 1..MaxPri BY <1>1
  <2> QED BY <2>1, MConstants DEF Side
<1>5. ASSUME NEW t \in Waiters(Now, m) PROVE t \in Task /\ Wants(msts, wsts, t, m)
  <2>1. PICK p \in 0..MaxPri : t \in ToSet(mtxq[m][p]) BY <1>3, <1>5
  <2> QED BY <1>2, <2>1
<1>6. ASSUME NEW t \in Task, Wants(msts, wsts, t, m) PROVE t \in Waiters(Now, m)
  <2>1. PICK p \in 0..MaxPri : p = Side(m, t, mtxatr, cpri) BY <1>4
  <2>2. t \in ToSet(mtxq[m][p]) BY <1>2, <1>6, <2>1
  <2> QED BY <1>3, <2>1, <2>2
<1> QED BY <1>5, <1>6

(* OwnersMatchChains follows from the invariant. *)
LEMMA OwnersMatchInv ==
    ASSUME MIInv
    PROVE  OwnersMatchChains
<1>1. /\ Chained(lockmtx, owner, NONE, {}) /\ Backed(Now, {}, mtxatr) /\ Now \in Kernel
      /\ lockmtx \in [Task -> Seq(Mtx)]
      BY NowTyped, NowIs
<1>2. ASSUME NEW t \in Task, NEW m \in Mtx
      PROVE  Times(lockmtx[t], m) = IF owner[m] = t THEN 1 ELSE 0
  <2>1. lockmtx[t] \in Seq(Mtx) /\ Once(lockmtx[t]) /\ (m \in ToSet(lockmtx[t]) <=> owner[m] = t)
        BY <1>1 DEF Chained
  <2>2. Times(lockmtx[t], m) = IF m \in ToSet(lockmtx[t]) THEN 1 ELSE 0 BY <2>1, TimesIs
  <2> QED BY <2>1, <2>2
<1>3. ASSUME NEW m \in Mtx, owner[m] = NONE PROVE Waiters(Now, m) = {}
  <2>1. \A t \in Task : ~Wants(msts, wsts, t, m) BY <1>1, <1>3, NowIs DEF Backed
  <2> QED BY <2>1, WaitersWant
<1>4. ASSUME NEW t \in Task, Dormant(t) PROVE lockmtx[t] = <<>>
  <2>1. SUFFICES ASSUME lockmtx[t] # <<>> PROVE FALSE OBVIOUS
  <2>2. PICK q : q = lockmtx[t] OBVIOUS
  <2>3. q \in Seq(Mtx) /\ q # <<>> BY <1>1, <2>1, <2>2
  <2>4. PICK m : m = q[1] OBVIOUS
  <2>5. m \in Mtx /\ m \in ToSet(q)
    <3>1. 1 \in 1..Len(q) /\ ToSet(q) = {q[i] : i \in 1..Len(q)} /\ ToSet(q) \subseteq Mtx
          BY <2>3, ToSetFacts
    <3> QED BY <2>4, <3>1
  <2>6. owner[m] = t BY <1>1, <2>2, <2>5 DEF Chained
  <2>7. "DMT" \notin msts[t] BY <1>1, <2>5, <2>6, NowIs, Constants DEF Backed
  <2> QED BY <1>4, <2>7 DEF Dormant
<1> QED BY <1>2, <1>3, <1>4 DEF OwnersMatchChains

(* A mutex has one owner, whose chain holds it once; nobody waits for one  *)
(* without an owner; a task that has ended owns none.                      *)
THEOREM OwnersMatch ==
    ASSUME LockOrder
    PROVE  MSpec => []OwnersMatchChains
<1>1. MIInv => OwnersMatchChains BY OwnersMatchInv
<1> QED BY <1>1, MInvariance, PTL

(* WaitersMatchState follows from it. *)
LEMMA WaitersMatchInv ==
    ASSUME MIInv
    PROVE  WaitersMatchState
<1> SUFFICES ASSUME NEW t \in Task
             PROVE  /\ \A p \in 1..MaxPri :
                          Times(rdq[p], t) = IF Ready(t) /\ cpri[t] = p THEN 1 ELSE 0
                    /\ \A m \in Mtx, p \in 0..MaxPri :
                          Times(mtxq[m][p], t) =
                              IF WaitsForMtx(Now, t) /\ wsts[t] = m
                                 /\ p = (IF Fifo(m) THEN 0 ELSE cpri[t])
                              THEN 1 ELSE 0
                    /\ Times(timq, t) = IF "TMR" \in msts[t] THEN 1 ELSE 0
    BY DEF WaitersMatchState
<1>1. PICK E : E = {} OBVIOUS
<1>2. /\ OffRdq(rdq, msts, cpri, E) /\ OffTimq(timq, msts, stime, E)
      /\ OffMtxq(mtxq, msts, wsts, cpri, mtxatr, E)
      /\ rdq \in [1..MaxPri -> Seq(Task)] /\ timq \in Seq(Task)
      /\ mtxq \in [Mtx -> [0..MaxPri -> Seq(Task)]]
      BY <1>1, NowTyped, NowIs DEF Linked
<1>3. ASSUME NEW p \in 1..MaxPri
      PROVE  Times(rdq[p], t) = IF Ready(t) /\ cpri[t] = p THEN 1 ELSE 0
  <2>1. /\ rdq[p] \in Seq(Task) /\ Once(rdq[p])
        /\ t \in ToSet(rdq[p]) <=> Ready(t) /\ cpri[t] = p
        BY <1>1, <1>2 DEF OffRdq, Ready
  <2>2. Times(rdq[p], t) = IF t \in ToSet(rdq[p]) THEN 1 ELSE 0 BY <2>1, TimesIs
  <2> QED BY <2>1, <2>2
<1>4. ASSUME NEW m \in Mtx, NEW p \in 0..MaxPri
      PROVE  Times(mtxq[m][p], t) =
                 IF WaitsForMtx(Now, t) /\ wsts[t] = m /\ p = (IF Fifo(m) THEN 0 ELSE cpri[t])
                 THEN 1 ELSE 0
  <2>1. PICK q : q = mtxq[m][p] OBVIOUS
  <2>2. q \in Seq(Task) BY <1>2, <2>1
  <2>3. /\ Once(q)
        /\ t \in ToSet(q) <=> Wants(msts, wsts, t, m) /\ p = Side(m, t, mtxatr, cpri)
        BY <1>1, <1>2, <2>1 DEF OffMtxq
  <2>4. Times(q, t) = IF t \in ToSet(q) THEN 1 ELSE 0 BY <2>2, <2>3, TimesIs
  <2>5. Wants(msts, wsts, t, m) <=> WaitsForMtx(Now, t) /\ wsts[t] = m
        BY NowIs DEF Wants, WaitsForMtx
  <2>6. Side(m, t, mtxatr, cpri) = IF Fifo(m) THEN 0 ELSE cpri[t] BY DEF Side, Fifo
  <2> QED BY <2>1, <2>3, <2>4, <2>5, <2>6
<1>5. Times(timq, t) = IF "TMR" \in msts[t] THEN 1 ELSE 0
  <2>1. Once(timq) /\ (t \in ToSet(timq) <=> "TMR" \in msts[t]) BY <1>1, <1>2 DEF OffTimq
  <2>2. Times(timq, t) = IF t \in ToSet(timq) THEN 1 ELSE 0 BY <1>2, <2>1, TimesIs
  <2> QED BY <2>1, <2>2
<1> QED BY <1>3, <1>4, <1>5

(* A task is linked where its flags, the mutex it waits for and its        *)
(* current priority say, once, and nowhere else.                           *)
THEOREM WaitersMatch ==
    ASSUME LockOrder
    PROVE  MSpec => []WaitersMatchState
<1>1. MIInv => WaitersMatchState BY WaitersMatchInv
<1> QED BY <1>1, MInvariance, PTL

(* What a task inherits, and from where. *)
LEMMA InheritsInv ==
    ASSUME MIInv, NEW t \in Task, ~Dormant(t)
    PROVE  /\ cpri[t] <= bpri[t] /\ cpri[t] \in 1..MaxPri
           /\ \A m \in Mtx : Raises(Now, mtxatr, t, m) => cpri[t] <= mpri[m]
           /\ \/ cpri[t] = bpri[t]
              \/ \E m \in Mtx : Raises(Now, mtxatr, t, m) /\ cpri[t] = mpri[m]
<1>1. /\ Now \in Kernel /\ Inheriting(Now, {NONE}, mtxatr, bpri)
      /\ Flagged(msts, wsts) /\ bpri \in [Task -> 1..MaxPri]
      BY NowTyped, NowIs DEF Linked, MFlagged, MIInv, MTypes
<1>2. "DMT" \notin msts[t] BY <1>1, FlagFacts DEF Dormant
<1>3. cpri[t] = InheritedBy(Now, mtxatr, bpri, t)
  <2>1. t \in Task \ {NONE} BY Constants
  <2> QED BY <1>1, <1>2, <2>1, NowIs DEF Inheriting
<1>4. /\ InheritedBy(Now, mtxatr, bpri, t) \in 1..MaxPri
      /\ InheritedBy(Now, mtxatr, bpri, t) <= bpri[t]
      /\ \A m \in Mtx : Raises(Now, mtxatr, t, m) =>
            InheritedBy(Now, mtxatr, bpri, t) <= Now.mpri[m]
      /\ \/ InheritedBy(Now, mtxatr, bpri, t) = bpri[t]
         \/ \E m \in Mtx : /\ Raises(Now, mtxatr, t, m)
                           /\ InheritedBy(Now, mtxatr, bpri, t) = Now.mpri[m]
      BY <1>1, InheritedFacts
<1>5. Now.mpri = mpri BY NowIs
<1> QED BY <1>3, <1>4, <1>5

(* NoInversion follows from it. *)
LEMMA NoInversionInv ==
    ASSUME MIInv
    PROVE  NoInversion
<1>1. /\ Now \in Kernel /\ Chained(lockmtx, owner, NONE, {}) /\ Backed(Now, {}, mtxatr)
      /\ Offered(Now, {}, mtxatr, {}) /\ cpri \in [Task -> 1..MaxPri]
      /\ mpri \in [Mtx -> 1..TMAX_TPRI] /\ owner \in [Mtx -> Task \cup {NONE}]
      BY NowTyped, NowIs
<1>2. ASSUME NEW m \in Mtx, owner[m] # NONE, mtxatr[m] \in {"INHERIT", "CEILING"}
      PROVE  owner[m] \in Task /\ cpri[owner[m]] <= mpri[m]
  <2>1. PICK o \in Task : o = owner[m] BY <1>1, <1>2
  <2>2. "DMT" \notin msts[o] BY <1>1, <1>2, <2>1, NowIs DEF Backed
  <2>3. ~Dormant(o) BY <2>2 DEF Dormant
  <2>4. m \in Held(Now, o)
    <3>1. m \in ToSet(lockmtx[o]) BY <1>1, <2>1, Constants DEF Chained
    <3> QED BY <1>1, <3>1, HeldFacts, NowIs
  <2>5. Raises(Now, mtxatr, o, m) BY <1>2, <2>4 DEF Raises
  <2> QED BY <2>1, <2>3, <2>5, InheritsInv
<1>3. ASSUME NEW m \in Mtx, owner[m] # NONE, mtxatr[m] = "INHERIT", NEW t \in Waiters(Now, m)
      PROVE  cpri[owner[m]] <= cpri[t]
  <2>1. t \in Task /\ Wants(msts, wsts, t, m) BY <1>3, WaitersWant
  <2>2. mpri[m] <= cpri[t] BY <1>1, <1>3, <2>1, NowIs DEF Offered, OfferedAt
  <2>3. owner[m] \in Task /\ cpri[owner[m]] <= mpri[m] BY <1>2, <1>3
  <2>4. /\ mpri[m] \in Nat /\ cpri[t] \in Nat /\ cpri[owner[m]] \in Nat
        BY <1>1, <2>1, <2>3, MConstants
  <2> QED BY <2>2, <2>3, <2>4
<1>4. ASSUME NEW t \in Task PROVE Dormant(t) \/ cpri[t] <= bpri[t] BY InheritsInv
<1> QED BY <1>2, <1>3, <1>4 DEF NoInversion

(* An owner is as urgent as each waiter of an inheriting mutex, and as the *)
(* ceiling of one with a ceiling; nobody is below its base priority.       *)
THEOREM NoInversions ==
    ASSUME LockOrder
    PROVE  MSpec => []NoInversion
<1>1. MIInv => NoInversion BY NoInversionInv
<1> QED BY <1>1, MInvariance, PTL

(* PriorityRestored follows from it. *)
LEMMA PriorityRestoredInv ==
    ASSUME MIInv
    PROVE  PriorityRestored
<1>1. /\ Now \in Kernel /\ Offered(Now, {}, mtxatr, {}) BY NowTyped
<1>2. ASSUME NEW t \in Task, ~Dormant(t), cpri[t] # bpri[t]
      PROVE  \E m \in Held(Now, t) :
                mtxatr[m] = "CEILING" \/ (mtxatr[m] = "INHERIT" /\ Waiters(Now, m) # {})
  <2>1. PICK m \in Mtx : Raises(Now, mtxatr, t, m) /\ cpri[t] = mpri[m] BY <1>2, InheritsInv
  <2>2. m \in Held(Now, t) /\ mtxatr[m] \in {"INHERIT", "CEILING"} BY <2>1 DEF Raises
  <2>3. ASSUME mtxatr[m] = "INHERIT", Waiters(Now, m) = {} PROVE FALSE
    <3>1. \A u \in Task : ~Wants(msts, wsts, u, m) BY <2>3, WaitersWant
    <3>2. mpri[m] = TMAX_TPRI BY <1>1, <2>3, <3>1, NowIs DEF Offered, OfferedAt
    <3>3. cpri[t] \in 1..MaxPri BY <1>2, InheritsInv
    <3> QED BY <2>1, <3>2, <3>3, MConstants
  <2> QED BY <2>2, <2>3
<1> QED BY <1>2 DEF PriorityRestored

(* A task that holds no mutex others want has its base priority again.     *)
THEOREM PrioritiesRestored ==
    ASSUME LockOrder
    PROVE  MSpec => []PriorityRestored
<1>1. MIInv => PriorityRestored BY PriorityRestoredInv
<1> QED BY <1>1, MInvariance, PTL

(* Whoever runs is the first of the most urgent ready tasks, after every   *)
(* service on a mutex too, unless a dispatch is put off.                   *)
THEOREM MostUrgentRunsOn ==
    ASSUME LockOrder
    PROVE  MSpec => []RunsMostUrgent
<1>1. ASSUME MIInv PROVE RunsMostUrgent
  <2>1. Running(Now, dsp) BY <1>1, NowTyped
  <2>2. Chosen BY <2>1, NowIs DEF Running, Chosen, Ready
  <2> QED BY <1>1, <2>2, NowTyped, ChosenRuns
<1> QED BY <1>1, MInvariance, PTL
=============================================================================
