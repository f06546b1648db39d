----------------------------- MODULE TaskSyncProofs -----------------------------
(***************************************************************************)
(* Proofs about the tasks, waits and timeouts of TaskSync, for any number  *)
(* of tasks, priorities and semaphores, any limits of the counters and any *)
(* word size.                                                              *)
(*                                                                         *)
(* The flags and the reason of the wait in a task control block are what   *)
(* every service unlinks the block by.  The inductive invariant therefore  *)
(* says which combinations of them there are (Flagged), and for each kind  *)
(* of queue that its members are exactly the tasks whose flags say so      *)
(* (OnRdq, OnSemq, OnTimq).  Each of these is stated for given flags and   *)
(* queues, so that a queue between two steps of a service, when a task has *)
(* left one (Off...) and not yet entered the next, can be spoken of too.   *)
(***************************************************************************)
EXTENDS TaskSync, QueueLemmas

(* The combinations of flags that occur. *)
Kind(f) ==
    \/ f \in {{"DMT"}, {"RDY"}, {"SUS"}}
    \/ "WAI" \in f /\ "DMT" \notin f /\ "RDY" \notin f

Flagged(ms, ws) == \A t \in Task :
    /\ Kind(ms[t])
    /\ "WAI" \in ms[t] => ws[t] # NONE
    /\ \A s \in Sem : "WAI" \in ms[t] /\ ws[t] = s =>
                        ("FIFO" \in ms[t] <=> SemAttr[s] = "FIFO")

(* The ready queues, with the tasks other than those of X on them. *)
OffRdq(rq, ms, cp, X) == \A p \in 1..MaxPri :
    /\ Once(rq[p])
    /\ \A t \in Task : t \in ToSet(rq[p]) <=> t \notin X /\ "RDY" \in ms[t] /\ cp[t] = p

OnRdq(rq, ms, cp) == OffRdq(rq, ms, cp, {})

(* The wait queue of s that t is on, and who is on it. *)
Way(s, t, cp) == IF SemAttr[s] = "FIFO" THEN 0 ELSE cp[t]

OffSemq(sq, ms, ws, cp, X) == \A s \in Sem, p \in 0..MaxPri :
    /\ Once(sq[s][p])
    /\ \A t \in Task : t \in ToSet(sq[s][p]) <=>
          t \notin X /\ "WAI" \in ms[t] /\ ws[t] = s /\ p = Way(s, t, cp)

OnSemq(sq, ms, ws, cp) == OffSemq(sq, ms, ws, cp, {})

(* The timer queue, in order of time. *)
OffTimq(tq, ms, st, X) ==
    /\ Once(tq) /\ InTime(tq, st)
    /\ \A t \in Task : t \in ToSet(tq) <=> t \notin X /\ "TMR" \in ms[t]

OnTimq(tq, ms, st) == OffTimq(tq, ms, st, {})

(* A timeout ends when the call that made it said. *)
Timed == \A t \in Task : "TMR" \in msts[t] => due[t] = Value(stime[t])

(* The task that runs is the first of its queue, and those of the higher   *)
(* priorities are empty; unless a dispatch has been deferred.              *)
First(rq, p, t) ==
    /\ rq[p] # <<>> /\ Head(rq[p]) = t
    /\ \A q \in 1..(p - 1) : rq[q] = <<>>

Chosen ==
    /\ ctcb # NONE => Ready(ctcb)
    /\ dsp => ctcb # NONE
    /\ rdsp => dsp
    /\ ctcb # NONE /\ ~rdsp => pri = cpri[ctcb] /\ First(rdq, pri, ctcb)

Queues == /\ OnRdq(rdq, msts, cpri) /\ OnSemq(semq, msts, wsts, cpri)
          /\ OnTimq(timq, msts, stime)

IInv == /\ TypeOK /\ Flagged(msts, wsts) /\ Queues /\ Timed /\ Chosen
        /\ SuspensionCounted /\ NoIdleResource

-----------------------------------------------------------------------------
LEMMA Constants ==
    /\ NONE \notin Task /\ NONE \notin {"SLP", "DLY"} /\ NONE \notin Sem /\ "SLP" \notin Sem /\ "DLY" \notin Sem
    /\ MaxPri \in Nat /\ MaxPri > 0 /\ Ipri \in [Task -> 1..MaxPri]
    /\ SemAttr \in [Sem -> {"FIFO", "TPRI"}]
    /\ \A s \in Sem : MaxSem[s] \in Nat /\ IsemCnt[s] \in Nat /\ IsemCnt[s] <= MaxSem[s]
    /\ MaxAct \in Nat /\ MaxWup \in Nat /\ MaxSus \in Nat
    /\ Tick \in UW /\ Tick \in Nat /\ Tick > 0
    /\ \A d \in Timeouts : d \in UW /\ d \in Nat /\ d > 0 /\ d + Tick \in UW /\ d + Tick \in Nat
    /\ FEVR \notin Timeouts
<1>1. UW \subseteq Nat /\ \A n \in Nat, m \in Nat : n + m \in UW => n \in UW BY WordFacts DEF UW
<1>2. Tick \in UW /\ Tick \in Nat /\ Tick > 0 BY <1>1, TaskSyncAssumption
<1>3. ASSUME NEW d \in Timeouts
      PROVE  d \in UW /\ d \in Nat /\ d > 0 /\ d + Tick \in UW /\ d + Tick \in Nat
  <2>1. d \in Nat \ {0} /\ d + Tick \in UW BY TaskSyncAssumption
  <2> QED BY <2>1, <1>1, <1>2
<1>4. ASSUME NEW s \in Sem PROVE MaxSem[s] \in Nat /\ IsemCnt[s] \in Nat /\ IsemCnt[s] <= MaxSem[s]
      BY TaskSyncAssumption
<1> QED BY <1>2, <1>3, <1>4, TaskSyncAssumption

(* What the flags of a task exclude. *)
LEMMA FlagFacts ==
    ASSUME NEW ms, NEW ws, Flagged(ms, ws), NEW t \in Task
    PROVE  /\ "RDY" \in ms[t] => ms[t] = {"RDY"}
           /\ "DMT" \in ms[t] => ms[t] = {"DMT"}
           /\ "TMR" \in ms[t] \/ "FIFO" \in ms[t] => "WAI" \in ms[t]
           /\ "WAI" \in ms[t] => "DMT" \notin ms[t] /\ "RDY" \notin ms[t] /\ ws[t] # NONE
           /\ "RDY" \notin ms[t] /\ "WAI" \notin ms[t] /\ "DMT" \notin ms[t] => ms[t] = {"SUS"}
           /\ \A s \in Sem : "WAI" \in ms[t] /\ ws[t] = s =>
                               ("FIFO" \in ms[t] <=> SemAttr[s] = "FIFO")
BY DEF Flagged, Kind

(* In a queue without repetitions an entry is once or not at all. *)
LEMMA TimesOnce ==
    ASSUME NEW q \in Seq(Task), Once(q), NEW t
    PROVE  Times(q, t) = IF t \in ToSet(q) THEN 1 ELSE 0
<1>0. ToSet(q) = {q[i] : i \in 1..Len(q)} BY ToSetFacts
<1> DEFINE I == {i \in 1..Len(q) : q[i] = t}
<1>1. CASE t \in ToSet(q)
  <2>1. PICK k \in 1..Len(q) : q[k] = t BY <1>0, <1>1
  <2>2. I = {k} BY <2>1 DEF Once
  <2>3. Cardinality(I) = 1 BY <2>2, FS_Singleton
  <2> QED BY <1>1, <2>3 DEF Times
<1>2. CASE t \notin ToSet(q)
  <2>1. I = {} BY <1>0, <1>2
  <2>2. Cardinality(I) = 0 BY <2>1, FS_EmptySet
  <2> QED BY <1>2, <2>2 DEF Times
<1> QED BY <1>1, <1>2

-----------------------------------------------------------------------------
(* THE READY QUEUES                                                        *)

(* A task is unlinked from the queue of priority p, or linked at its end. *)
Unlinked(r, rq, p, t) == r = [rq EXCEPT ![p] = Unlink(@, t)]
Appended(r, rq, p, t) == r = [rq EXCEPT ![p] = Append(@, t)]

LEMMA RdqDrop ==
    ASSUME NEW rq \in [1..MaxPri -> Seq(Task)], NEW ms, NEW cp \in [Task -> 1..MaxPri],
           NEW t \in Task, OnRdq(rq, ms, cp), NEW r, Unlinked(r, rq, cp[t], t)
    PROVE  r \in [1..MaxPri -> Seq(Task)] /\ OffRdq(r, ms, cp, {t})
<1>1. PICK p \in 1..MaxPri : p = cp[t] OBVIOUS
<1>2. r = [rq EXCEPT ![p] = Unlink(@, t)] BY <1>1 DEF Unlinked
<1>0. ASSUME NEW q \in 1..MaxPri
      PROVE  /\ Once(rq[q])
             /\ \A u \in Task : u \in ToSet(rq[q]) <=> "RDY" \in ms[u] /\ cp[u] = q
      BY DEF OnRdq, OffRdq
<1>3. /\ Unlink(rq[p], t) \in Seq(Task)
      /\ ToSet(Unlink(rq[p], t)) = ToSet(rq[p]) \ {t}
      /\ Once(Unlink(rq[p], t))
  <2>1. PICK q \in Seq(Task) : q = rq[p] /\ Once(q) BY <1>0
  <2> QED BY <2>1, RemoveFirstOnce DEF Unlink
<1>4. r \in [1..MaxPri -> Seq(Task)] BY <1>2, <1>3
<1>5. r[p] = Unlink(rq[p], t) /\ \A q \in 1..MaxPri : q # p => r[q] = rq[q] BY <1>2
<1>6. OffRdq(r, ms, cp, {t})
  <2>1. ASSUME NEW q \in 1..MaxPri
        PROVE  /\ Once(r[q])
               /\ \A u \in Task : u \in ToSet(r[q]) <=> u # t /\ "RDY" \in ms[u] /\ cp[u] = q
    <3>1. CASE q = p BY <1>0, <1>3, <1>5, <3>1
    <3>2. CASE q # p BY <1>0, <1>1, <1>5, <3>2
    <3> QED BY <3>1, <3>2
  <2> QED BY <2>1 DEF OffRdq
<1> QED BY <1>4, <1>6

(* A task that is not ready is on no ready queue. *)
LEMMA RdqNone ==
    ASSUME NEW rq, NEW ms, NEW cp, NEW t \in Task, OnRdq(rq, ms, cp), "RDY" \notin ms[t]
    PROVE  OffRdq(rq, ms, cp, {t})
BY DEF OnRdq, OffRdq

(* The task that has left the queues is no longer ready. *)
LEMMA RdqStay ==
    ASSUME NEW rq, NEW ms, NEW cp, NEW t \in Task, OffRdq(rq, ms, cp, {t}),
           NEW ms2, NEW cp2,
           \A u \in Task \ {t} : ("RDY" \in ms2[u] <=> "RDY" \in ms[u]) /\ cp2[u] = cp[u],
           "RDY" \notin ms2[t]
    PROVE  OnRdq(rq, ms2, cp2)
BY DEF OnRdq, OffRdq

(* It is linked again, at the end of a queue. *)
LEMMA RdqBack ==
    ASSUME NEW rq \in [1..MaxPri -> Seq(Task)], NEW ms, NEW cp, NEW t \in Task,
           OffRdq(rq, ms, cp, {t}), NEW ms2, NEW cp2 \in [Task -> 1..MaxPri],
           \A u \in Task \ {t} : ("RDY" \in ms2[u] <=> "RDY" \in ms[u]) /\ cp2[u] = cp[u],
           "RDY" \in ms2[t], NEW p \in 1..MaxPri, p = cp2[t], NEW r, Appended(r, rq, p, t)
    PROVE  r \in [1..MaxPri -> Seq(Task)] /\ OnRdq(r, ms2, cp2)
<1>2. r = [rq EXCEPT ![p] = Append(@, t)] BY DEF Appended
<1>3. /\ Append(rq[p], t) \in Seq(Task)
      /\ ToSet(Append(rq[p], t)) = ToSet(rq[p]) \cup {t}
      /\ Once(Append(rq[p], t))
      BY AppendOnce DEF OffRdq
<1>4. r \in [1..MaxPri -> Seq(Task)] BY <1>2, <1>3
<1>5. r[p] = Append(rq[p], t) /\ \A q \in 1..MaxPri : q # p => r[q] = rq[q] BY <1>2
<1>6. OnRdq(r, ms2, cp2)
  <2>1. ASSUME NEW q \in 1..MaxPri
        PROVE  /\ Once(r[q])
               /\ \A u \in Task : u \in ToSet(r[q]) <=> "RDY" \in ms2[u] /\ cp2[u] = q
    <3>1. /\ Once(rq[q])
          /\ \A u \in Task : u \in ToSet(rq[q]) <=> u # t /\ "RDY" \in ms[u] /\ cp[u] = q
          BY DEF OffRdq
    <3>2. CASE q = p BY <1>3, <1>5, <3>1, <3>2
    <3>3. CASE q # p BY <1>5, <3>1, <3>3
    <3> QED BY <3>2, <3>3
  <2> QED BY <2>1 DEF OnRdq, OffRdq
<1> QED BY <1>4, <1>6

(* _kernel_enqrdq, of all the tasks of ts: those of R are linked. *)
Joined(r, rq, ts, R, cp) ==
    r = [p \in 1..MaxPri |-> rq[p] \o Keep(ts, {t \in R : cp[t] = p})]

LEMMA RdqEnter ==
    ASSUME NEW rq \in [1..MaxPri -> Seq(Task)], NEW ms, NEW cp, OnRdq(rq, ms, cp),
           NEW ts \in Seq(Task), Once(ts), NEW R \in SUBSET ToSet(ts),
           \A t \in ToSet(ts) : "RDY" \notin ms[t],
           NEW ms2, \A t \in Task : "RDY" \in ms2[t] <=> "RDY" \in ms[t] \/ t \in R,
           NEW r, Joined(r, rq, ts, R, cp)
    PROVE  r \in [1..MaxPri -> Seq(Task)] /\ OnRdq(r, ms2, cp)
<1>1. ASSUME NEW p \in 1..MaxPri
      PROVE  /\ r[p] \in Seq(Task) /\ Once(r[p])
             /\ ToSet(r[p]) = ToSet(rq[p]) \cup {t \in R : cp[t] = p}
  <2>1. PICK S : S = {t \in R : cp[t] = p} OBVIOUS
  <2>2. PICK k : k = Keep(ts, S) OBVIOUS
  <2>3. k \in Seq(Task) /\ ToSet(k) = ToSet(ts) \cap S /\ Once(k) BY <2>2, KeepOnce
  <2>4. ToSet(k) = S BY <2>1, <2>3
  <2>5. rq[p] \in Seq(Task) /\ Once(rq[p]) BY DEF OnRdq, OffRdq
  <2>6. ToSet(rq[p]) \cap S = {}
    <3>1. ToSet(rq[p]) \subseteq Task BY <2>5, ToSetFacts
    <3> QED BY <3>1, <2>1 DEF OnRdq, OffRdq
  <2>7. /\ rq[p] \o k \in Seq(Task) /\ ToSet(rq[p] \o k) = ToSet(rq[p]) \cup S
        /\ Once(rq[p] \o k)
        BY <2>3, <2>4, <2>5, <2>6, ConcatOnce
  <2>8. r[p] = rq[p] \o k BY <2>1, <2>2 DEF Joined
  <2> QED BY <2>1, <2>7, <2>8
<1>2. r \in [1..MaxPri -> Seq(Task)] BY <1>1 DEF Joined
<1> QED BY <1>1, <1>2 DEF OnRdq, OffRdq

-----------------------------------------------------------------------------
(* THE WAIT QUEUES                                                         *)

(* deqtcb of the tasks of X, from whatever queues they are on. *)
Sifted(r, sq, ws, X) ==
    r = [s \in Sem |-> [p \in 0..MaxPri |->
            Keep(sq[s][p], {t \in Task : ~(t \in X /\ ws[t] = s)})]]

LEMMA SemqDrop ==
    ASSUME NEW sq \in [Sem -> [0..MaxPri -> Seq(Task)]], NEW ms, NEW ws, NEW cp, NEW X,
           OnSemq(sq, ms, ws, cp), NEW r, Sifted(r, sq, ws, X)
    PROVE  r \in [Sem -> [0..MaxPri -> Seq(Task)]] /\ OffSemq(r, ms, ws, cp, X)
<1>1. ASSUME NEW s \in Sem, NEW p \in 0..MaxPri
      PROVE  /\ r[s][p] \in Seq(Task) /\ Once(r[s][p])
             /\ ToSet(r[s][p]) = ToSet(sq[s][p]) \cap {t \in Task : ~(t \in X /\ ws[t] = s)}
  <2>1. PICK S : S = {t \in Task : ~(t \in X /\ ws[t] = s)} OBVIOUS
  <2>2. PICK q \in Seq(Task) : q = sq[s][p] OBVIOUS
  <2>3. Once(q) BY <2>2 DEF OnSemq, OffSemq
  <2>4. Keep(q, S) \in Seq(Task) /\ ToSet(Keep(q, S)) = ToSet(q) \cap S /\ Once(Keep(q, S))
        BY <2>3, KeepOnce
  <2>5. r[s][p] = Keep(q, S) BY <2>1, <2>2 DEF Sifted
  <2> QED BY <2>1, <2>2, <2>4, <2>5
<1>2. r \in [Sem -> [0..MaxPri -> Seq(Task)]] BY <1>1 DEF Sifted
<1>3. OffSemq(r, ms, ws, cp, X)
  <2>1. ASSUME NEW s \in Sem, NEW p \in 0..MaxPri
        PROVE  /\ Once(r[s][p])
               /\ \A t \in Task : t \in ToSet(r[s][p]) <=>
                     t \notin X /\ "WAI" \in ms[t] /\ ws[t] = s /\ p = Way(s, t, cp)
    <3>1. \A t \in Task : t \in ToSet(sq[s][p]) <=>
                     "WAI" \in ms[t] /\ ws[t] = s /\ p = Way(s, t, cp)
          BY DEF OnSemq, OffSemq
    <3>2. Once(r[s][p]) BY <1>1
    <3>3. ASSUME NEW t \in Task
          PROVE  t \in ToSet(r[s][p]) <=>
                   t \notin X /\ "WAI" \in ms[t] /\ ws[t] = s /\ p = Way(s, t, cp)
      <4>0. ToSet(r[s][p]) = ToSet(sq[s][p]) \cap {u \in Task : ~(u \in X /\ ws[u] = s)}
            BY <1>1
      <4>1. t \in ToSet(r[s][p]) <=> t \in ToSet(sq[s][p]) /\ ~(t \in X /\ ws[t] = s) BY <4>0
      <4> QED BY <3>1, <4>1
    <3> QED BY <3>2, <3>3
  <2> QED BY <2>1 DEF OffSemq
<1> QED BY <1>2, <1>3

(* The tasks of X wait for no semaphore any longer. *)
LEMMA SemqStay ==
    ASSUME NEW sq, NEW ms, NEW ws, NEW cp, NEW X, OffSemq(sq, ms, ws, cp, X),
           NEW ms2, NEW ws2, NEW cp2,
           \A t \in Task \ X : /\ "WAI" \in ms2[t] <=> "WAI" \in ms[t]
                               /\ "WAI" \in ms[t] => ws2[t] = ws[t] /\ cp2[t] = cp[t],
           \A t \in Task \cap X : "WAI" \in ms2[t] => ws2[t] \notin Sem
    PROVE  OnSemq(sq, ms2, ws2, cp2)
<1>1. ASSUME NEW s \in Sem, NEW p \in 0..MaxPri, NEW t \in Task
      PROVE  t \in ToSet(sq[s][p]) <=> "WAI" \in ms2[t] /\ ws2[t] = s /\ p = Way(s, t, cp2)
  BY DEF OffSemq, Way
<1> QED BY <1>1 DEF OnSemq, OffSemq

(* Tasks that wait for no semaphore are on no queue of one. *)
LEMMA SemqNone ==
    ASSUME NEW sq, NEW ms, NEW ws, NEW cp, NEW X, OnSemq(sq, ms, ws, cp),
           \A t \in Task \cap X : "WAI" \in ms[t] => ws[t] \notin Sem
    PROVE  OffSemq(sq, ms, ws, cp, X)
BY DEF OnSemq, OffSemq

LinkedAt(r, sq, s, p, t) == r = [sq EXCEPT ![s][p] = Append(@, t)]

(* A task begins to wait, or moves to the queue of its new priority. *)
LEMMA SemqEnter ==
    ASSUME NEW sq \in [Sem -> [0..MaxPri -> Seq(Task)]], NEW ms, NEW ws, NEW cp,
           NEW t \in Task, OffSemq(sq, ms, ws, cp, {t}),
           NEW ms2, NEW ws2, NEW cp2 \in [Task -> 1..MaxPri],
           \A u \in Task \ {t} : /\ "WAI" \in ms2[u] <=> "WAI" \in ms[u]
                                 /\ ws2[u] = ws[u] /\ cp2[u] = cp[u],
           NEW s \in Sem, "WAI" \in ms2[t], ws2[t] = s, NEW p, p = Way(s, t, cp2),
           NEW r, LinkedAt(r, sq, s, p, t)
    PROVE  r \in [Sem -> [0..MaxPri -> Seq(Task)]] /\ OnSemq(r, ms2, ws2, cp2)
<1>1. p \in 0..MaxPri BY Constants DEF Way
<1>2. PICK q \in Seq(Task) : q = sq[s][p] BY <1>1
<1>3. PICK a : a = Append(q, t) OBVIOUS
<1>4. t \notin ToSet(q) /\ Once(q) BY <1>1, <1>2 DEF OffSemq
<1>5. a \in Seq(Task) /\ ToSet(a) = ToSet(q) \cup {t} /\ Once(a) BY <1>3, <1>4, AppendOnce
<1>6. r = [sq EXCEPT ![s][p] = Append(@, t)] BY DEF LinkedAt
<1>7. r \in [Sem -> [0..MaxPri -> Seq(Task)]] BY <1>1, <1>2, <1>3, <1>5, <1>6
<1>8. r[s][p] = a /\ \A v \in Sem, k \in 0..MaxPri : ~(v = s /\ k = p) => r[v][k] = sq[v][k]
      BY <1>1, <1>2, <1>3, <1>6
<1>9. OnSemq(r, ms2, ws2, cp2)
  <2>1. ASSUME NEW v \in Sem, NEW k \in 0..MaxPri
        PROVE  /\ Once(r[v][k])
               /\ \A u \in Task : u \in ToSet(r[v][k]) <=>
                     "WAI" \in ms2[u] /\ ws2[u] = v /\ k = Way(v, u, cp2)
    <3>1. \A u \in Task \ {t} : Way(v, u, cp2) = Way(v, u, cp) BY DEF Way
    <3>4. /\ Once(sq[v][k])
          /\ \A u \in Task : u \in ToSet(sq[v][k]) <=>
                u # t /\ "WAI" \in ms[u] /\ ws[u] = v /\ k = Way(v, u, cp)
          BY DEF OffSemq
    <3>2. CASE v = s /\ k = p
      <4>1. Once(r[v][k]) BY <1>5, <1>8, <3>2
      <4>2. ASSUME NEW u \in Task
            PROVE  u \in ToSet(r[v][k]) <=> "WAI" \in ms2[u] /\ ws2[u] = v /\ k = Way(v, u, cp2)
        <5>1. CASE u = t BY <1>5, <1>8, <3>2, <5>1
        <5>2. CASE u # t
          <6>1. u \in ToSet(r[v][k]) <=> u \in ToSet(sq[v][k]) BY <1>2, <1>5, <1>8, <3>2, <5>2
          <6> QED BY <3>1, <3>4, <5>2, <6>1
        <5> QED BY <5>1, <5>2
      <4> QED BY <4>1, <4>2
    <3>3. CASE ~(v = s /\ k = p)
      <4>1. r[v][k] = sq[v][k] BY <1>8, <3>3
      <4>2. ASSUME NEW u \in Task
            PROVE  u \in ToSet(r[v][k]) <=> "WAI" \in ms2[u] /\ ws2[u] = v /\ k = Way(v, u, cp2)
        <5>1. CASE u = t BY <3>3, <3>4, <4>1, <5>1
        <5>2. CASE u # t BY <3>1, <3>4, <4>1, <5>2
        <5> QED BY <5>1, <5>2
      <4> QED BY <3>4, <4>1, <4>2
    <3> QED BY <3>2, <3>3
  <2> QED BY <2>1 DEF OnSemq, OffSemq
<1> QED BY <1>7, <1>9

-----------------------------------------------------------------------------
(* THE TIMER QUEUE                                                         *)

LEMMA TimqDrop ==
    ASSUME NEW tq \in Seq(Task), NEW ms, NEW st \in [Task -> Stamp], NEW t \in Task,
           OnTimq(tq, ms, st), NEW r, r = IF "TMR" \in ms[t] THEN Unlink(tq, t) ELSE tq
    PROVE  r \in Seq(Task) /\ OffTimq(r, ms, st, {t})
<1>1. Once(tq) /\ InTime(tq, st) BY DEF OnTimq, OffTimq
<1>2. /\ Unlink(tq, t) \in Seq(Task) /\ ToSet(Unlink(tq, t)) = ToSet(tq) \ {t}
      /\ Once(Unlink(tq, t)) /\ InTime(Unlink(tq, t), st)
      BY <1>1, UnlinkFacts
<1>3. CASE "TMR" \in ms[t] BY <1>2, <1>3 DEF OnTimq, OffTimq
<1>4. CASE "TMR" \notin ms[t] BY <1>4 DEF OnTimq, OffTimq
<1> QED BY <1>3, <1>4

LEMMA TimqStay ==
    ASSUME NEW tq, NEW ms, NEW st, NEW X, OffTimq(tq, ms, st, X), NEW ms2,
           \A t \in Task \ X : "TMR" \in ms2[t] <=> "TMR" \in ms[t],
           \A t \in Task \cap X : "TMR" \notin ms2[t]
    PROVE  OnTimq(tq, ms2, st)
BY DEF OnTimq, OffTimq

LEMMA TimqEnter ==
    ASSUME NEW tq \in Seq(Task), NEW ms, NEW st \in [Task -> Stamp], NEW t \in Task,
           OnTimq(tq, ms, st), "TMR" \notin ms[t], NEW ms2, NEW st2 \in [Task -> Stamp],
           \A u \in Task \ {t} : ("TMR" \in ms2[u] <=> "TMR" \in ms[u]) /\ st2[u] = st[u],
           "TMR" \in ms2[t]
    PROVE  EnqTim(tq, st2, t) \in Seq(Task) /\ OnTimq(EnqTim(tq, st2, t), ms2, st2)
<1>1. Once(tq) /\ InTime(tq, st) /\ t \notin ToSet(tq) BY DEF OnTimq, OffTimq
<1>2. InTime(tq, st2)
  <2>1. ToSet(tq) \subseteq Task BY ToSetFacts
  <2>2. \A u \in ToSet(tq) : st[u] = st2[u] BY <1>1, <2>1
  <2> QED BY <1>1, <2>2, InTimeKept
<1>3. /\ EnqTim(tq, st2, t) \in Seq(Task) /\ ToSet(EnqTim(tq, st2, t)) = ToSet(tq) \cup {t}
      /\ Once(EnqTim(tq, st2, t)) /\ InTime(EnqTim(tq, st2, t), st2)
      BY <1>1, <1>2, EnqTimFacts
<1> QED BY <1>3 DEF OnTimq, OffTimq

-----------------------------------------------------------------------------
(* WHO RUNS                                                                *)

(* Something is linked behind the first task. *)
LEMMA FirstAppend ==
    ASSUME NEW rq \in [1..MaxPri -> Seq(Task)], NEW p \in 1..MaxPri, NEW t, First(rq, p, t),
           NEW u \in Task, NEW k \in 1..MaxPri, ~(p > k), NEW r, Appended(r, rq, k, u)
    PROVE  First(r, p, t)
<1>1. r = [rq EXCEPT ![k] = Append(@, u)] BY DEF Appended
<1>2. \A q \in 1..(p - 1) : q \in 1..MaxPri /\ q # k BY Constants
<1>3. \A q \in 1..(p - 1) : r[q] = <<>> BY <1>1, <1>2 DEF First
<1>4. r[p] # <<>> /\ Head(r[p]) = t
  <2>1. CASE k = p
    <3>1. r[p] = Append(rq[p], u) /\ rq[p] \in Seq(Task) BY <1>1, <2>1
    <3> QED BY <3>1, AppendOnce DEF First
  <2>2. CASE k # p BY <1>1, <2>2 DEF First
  <2> QED BY <2>1, <2>2
<1> QED BY <1>1, <1>3, <1>4 DEF First

(* Another task is unlinked. *)
LEMMA FirstUnlink ==
    ASSUME NEW rq \in [1..MaxPri -> Seq(Task)], NEW p \in 1..MaxPri, NEW t, First(rq, p, t),
           \A q \in 1..MaxPri : Once(rq[q]),
           NEW u, u # t, NEW k \in 1..MaxPri, NEW r, Unlinked(r, rq, k, u)
    PROVE  First(r, p, t)
<1>1. r = [rq EXCEPT ![k] = Unlink(@, u)] BY DEF Unlinked
<1>2. ASSUME NEW q \in Seq(Task), q = <<>> PROVE Unlink(q, u) = <<>>
  <2>1. ToSet(q) = {} BY <1>2, ToSetFacts
  <2>2. Len(q) = 0 BY <1>2
  <2>3. \A i \in 1..Len(q) : FALSE BY <2>2
  <2>4. \/ RemoveFirst(q, u) = q
        \/ \E i \in 1..Len(q) : q[i] = u /\ RemoveFirst(q, u) = RemoveAt(q, i)
        BY RemoveFirstAt
  <2> QED BY <1>2, <2>3, <2>4 DEF Unlink
<1>3. ASSUME NEW q \in 1..(p - 1) PROVE r[q] = <<>>
  <2>0. q \in 1..MaxPri BY Constants
  <2>1. q \in 1..MaxPri /\ rq[q] = <<>> /\ rq[q] \in Seq(Task) BY <2>0 DEF First
  <2> QED BY <1>1, <1>2, <2>1
<1>4. ASSUME NEW q \in Seq(Task), q # <<>>, Head(q) = t
      PROVE  Unlink(q, u) # <<>> /\ Head(Unlink(q, u)) = t
  <2>1. CASE Unlink(q, u) = q BY <1>4, <2>1
  <2>2. ASSUME NEW i \in 1..Len(q), q[i] = u, Unlink(q, u) = RemoveAt(q, i)
        PROVE  Unlink(q, u) # <<>> /\ Head(Unlink(q, u)) = t
    <3>1. PICK s : s = RemoveAt(q, i) OBVIOUS
    <3>2. s \in Seq(Task) /\ Len(s) = Len(q) - 1
          /\ \A j \in 1..(Len(q) - 1) : s[j] = IF j < i THEN q[j] ELSE q[j + 1]
          BY <3>1, RemoveAtFacts
    <3>3. Len(q) \in Nat /\ q[1] = t BY <1>4, LenProperties
    <3>4. i # 1 BY <2>2, <3>3
    <3>5. 1 \in 1..(Len(q) - 1) /\ 1 < i BY <3>3, <3>4
    <3>6. s[1] = t /\ s # <<>> BY <3>2, <3>3, <3>5
    <3> QED BY <2>2, <3>1, <3>2, <3>6
  <2> QED BY <2>1, <2>2, RemoveFirstAt DEF Unlink
<1>5. r[p] # <<>> /\ Head(r[p]) = t
  <2>1. rq[p] \in Seq(Task) /\ rq[p] # <<>> /\ Head(rq[p]) = t BY DEF First
  <2>2. r[p] = rq[p] \/ r[p] = Unlink(rq[p], u) BY <1>1
  <2> QED BY <1>4, <2>1, <2>2
<1> QED BY <1>1, <1>3, <1>5 DEF First

(* None of the tasks that become ready is more urgent. *)
LEMMA FirstEnter ==
    ASSUME NEW rq \in [1..MaxPri -> Seq(Task)], NEW p \in 1..MaxPri, NEW t, First(rq, p, t),
           NEW ts \in Seq(Task), NEW R, NEW cp, \A u \in R : cp[u] \in Nat /\ ~(p > cp[u]),
           NEW r, Joined(r, rq, ts, R, cp)
    PROVE  First(r, p, t)
<1>1. ASSUME NEW q \in 1..(p - 1) PROVE r[q] = <<>>
  <2>1. q \in 1..MaxPri /\ rq[q] = <<>> BY Constants DEF First
  <2>2. {u \in R : cp[u] = q} = {} OBVIOUS
  <2>3. PICK k : k = Keep(ts, {}) OBVIOUS
  <2>4. k \in Seq(Task) /\ ToSet(k) = {} BY <2>3, KeepOnce
  <2>5. Len(k) \in Nat /\ ToSet(k) = {k[i] : i \in 1..Len(k)} BY <2>4, ToSetFacts, LenProperties
  <2>6. Len(k) = 0
    <3>1. Len(k) # 0 => k[1] \in ToSet(k) BY <2>5
    <3> QED BY <2>4, <3>1
  <2>7. k = <<>> BY <2>4, <2>6, EmptySeq
  <2>8. r[q] = rq[q] \o k BY <2>1, <2>2, <2>3 DEF Joined
  <2>9. <<>> \in Seq(Task) /\ <<>> \o <<>> = <<>> BY ConcatEmptySeq
  <2> QED BY <2>1, <2>7, <2>8, <2>9
<1>2. r[p] # <<>> /\ Head(r[p]) = t
  <2>1. PICK q \in Seq(Task) : q = rq[p] /\ q # <<>> /\ Head(q) = t BY DEF First
  <2>2. PICK k : k = Keep(ts, {u \in R : cp[u] = p}) OBVIOUS
  <2>3. k \in Seq(Task) BY <2>2, KeepOnce
  <2>4. PICK c : c = q \o k OBVIOUS
  <2>5. c \in Seq(Task) /\ Len(c) = Len(q) + Len(k)
        /\ \A i \in 1..(Len(q) + Len(k)) : c[i] = IF i <= Len(q) THEN q[i] ELSE k[i - Len(q)]
        BY <2>3, <2>4, ConcatProperties
  <2>6. Len(q) \in Nat /\ Len(q) # 0 /\ Len(k) \in Nat /\ q[1] = t
        BY <2>1, <2>3, LenProperties, EmptySeq
  <2>7. 1 \in 1..(Len(q) + Len(k)) /\ 1 <= Len(q) BY <2>6
  <2>8. c[1] = t /\ Len(c) # 0 BY <2>5, <2>6, <2>7
  <2>9. c # <<>> /\ Head(c) = t BY <2>5, <2>8
  <2> QED BY <2>1, <2>2, <2>4, <2>9 DEF Joined
<1> QED BY <1>1, <1>2 DEF First

-----------------------------------------------------------------------------
(* THE STEPS                                                               *)

LEMMA Parts ==
    ASSUME IInv
    PROVE  /\ TypeOK /\ Flagged(msts, wsts) /\ Timed /\ Chosen /\ SuspensionCounted /\ NoIdleResource
           /\ OnRdq(rdq, msts, cpri) /\ OnSemq(semq, msts, wsts, cpri) /\ OnTimq(timq, msts, stime)
           /\ msts \in [Task -> SUBSET Flags] /\ wsts \in [Task -> {"SLP", "DLY", NONE} \cup Sem]
           /\ cpri \in [Task -> 1..MaxPri] /\ sus \in [Task -> 0..MaxSus]
           /\ act \in [Task -> 0..MaxAct] /\ wup \in [Task -> 0..MaxWup]
           /\ semcnt \in [Sem -> Nat] /\ \A s \in Sem : semcnt[s] <= MaxSem[s]
           /\ rdq \in [1..MaxPri -> Seq(Task)] /\ semq \in [Sem -> [0..MaxPri -> Seq(Task)]]
           /\ timq \in Seq(Task) /\ stime \in [Task -> Stamp] /\ systim \in Stamp
           /\ ctcb \in Task \cup {NONE} /\ pri \in 1..(MaxPri + 1)
           /\ dsp \in BOOLEAN /\ rdsp \in BOOLEAN /\ due \in [Task -> Nat]
BY DEF IInv, Queues, TypeOK

(* What unlinking a task leaves. *)
LEMMA DroppedRdq ==
    ASSUME IInv, NEW t \in Task
    PROVE  /\ RdqWithout(t) \in [1..MaxPri -> Seq(Task)] /\ OffRdq(RdqWithout(t), msts, cpri, {t})
           /\ "RDY" \notin msts[t] => OffRdq(rdq, msts, cpri, {t})
           /\ \A p \in 1..MaxPri : p # cpri[t] => RdqWithout(t)[p] = rdq[p]
           /\ ctcb # NONE /\ ~rdsp /\ ctcb # t => First(RdqWithout(t), pri, ctcb)
<1> USE Parts
<1>1. PICK r, rq, ms, cp : /\ r = RdqWithout(t) /\ rq = rdq /\ ms = msts /\ cp = cpri
      OBVIOUS
<1>2. /\ rq \in [1..MaxPri -> Seq(Task)] /\ cp \in [Task -> 1..MaxPri] /\ t \in Task
      /\ OnRdq(rq, ms, cp) /\ Unlinked(r, rq, cp[t], t)
      BY <1>1 DEF RdqWithout, Unlinked
<1>3. r \in [1..MaxPri -> Seq(Task)] /\ OffRdq(r, ms, cp, {t}) BY ONLY <1>2, RdqDrop
<1>4. "RDY" \notin ms[t] => OffRdq(rq, ms, cp, {t}) BY ONLY <1>2, RdqNone
<1>5. \A p \in 1..MaxPri : p # cp[t] => r[p] = rq[p] BY <1>2 DEF Unlinked
<1>6. ASSUME ctcb # NONE, ~rdsp, ctcb # t PROVE First(r, pri, ctcb)
  <2>1. PICK p, u : p = pri /\ u = ctcb OBVIOUS
  <2>2. First(rq, p, u) /\ t # u /\ p \in 1..MaxPri
    <3>1. cpri[ctcb] \in 1..MaxPri /\ pri = cpri[ctcb] /\ First(rdq, pri, ctcb)
          BY <1>6 DEF Chosen
    <3> QED BY <1>1, <1>6, <2>1, <3>1
  <2>3. \A q \in 1..MaxPri : Once(rq[q]) BY <1>2 DEF OnRdq, OffRdq
  <2>4. cp[t] \in 1..MaxPri BY <1>2
  <2>5. First(r, p, u) BY ONLY <1>2, <2>2, <2>3, <2>4, FirstUnlink
  <2> QED BY <2>1, <2>5
<1> QED BY <1>1, <1>3, <1>4, <1>5, <1>6

(* Linking a task that has left, or never was on, a queue. *)
LEMMA BackRdq ==
    ASSUME IInv, NEW t \in Task, NEW q, q \in [1..MaxPri -> Seq(Task)],
           OffRdq(q, msts, cpri, {t}),
           \A u \in Task \ {t} : ("RDY" \in msts'[u] <=> "RDY" \in msts[u]) /\ cpri'[u] = cpri[u],
           "RDY" \in msts'[t], cpri' \in [Task -> 1..MaxPri],
           rdq' = [q EXCEPT ![cpri'[t]] = Append(@, t)]
    PROVE  rdq' \in [1..MaxPri -> Seq(Task)] /\ OnRdq(rdq', msts', cpri')
<1>1. PICK ms, cp, ms2, cp2, r, p : /\ ms = msts /\ cp = cpri /\ ms2 = msts' /\ cp2 = cpri'
                                    /\ r = rdq' /\ p = cpri'[t]
      OBVIOUS
<1>2. /\ q \in [1..MaxPri -> Seq(Task)] /\ t \in Task /\ OffRdq(q, ms, cp, {t})
      /\ cp2 \in [Task -> 1..MaxPri]
      /\ \A u \in Task \ {t} : ("RDY" \in ms2[u] <=> "RDY" \in ms[u]) /\ cp2[u] = cp[u]
      /\ "RDY" \in ms2[t] /\ p \in 1..MaxPri /\ p = cp2[t] /\ Appended(r, q, p, t)
      BY <1>1 DEF Appended
<1>3. r \in [1..MaxPri -> Seq(Task)] /\ OnRdq(r, ms2, cp2) BY ONLY <1>2, RdqBack
<1> QED BY <1>1, <1>3

(* The first task stays the first, if what is linked is no more urgent. *)
LEMMA StaysFirst ==
    ASSUME IInv, ctcb # NONE, ~rdsp, NEW q \in [1..MaxPri -> Seq(Task)], First(q, pri, ctcb),
           NEW t \in Task, NEW p \in 1..MaxPri, ~(pri > p)
    PROVE  First([q EXCEPT ![p] = Append(@, t)], pri, ctcb)
<1>1. PICK k, u, r : k = pri /\ u = ctcb /\ r = [q EXCEPT ![p] = Append(@, t)] OBVIOUS
<1>2. k \in 1..MaxPri
  <2>1. cpri[ctcb] \in 1..MaxPri /\ pri = cpri[ctcb] BY Parts DEF Chosen
  <2> QED BY <1>1, <2>1
<1>3. First(q, k, u) /\ Appended(r, q, p, t) /\ ~(k > p) BY <1>1 DEF Appended
<1>4. First(r, k, u)
      BY ONLY q \in [1..MaxPri -> Seq(Task)], t \in Task, p \in 1..MaxPri, <1>2, <1>3, FirstAppend
<1> QED BY <1>1, <1>4

(* A dispatch is made or put off: either way nothing is left to be shown   *)
(* of who runs.                                                            *)
LEMMA RedispatchChosen ==
    ASSUME Chosen, Redispatch, dsp' = dsp, NEW t, t = ctcb, t # NONE => "RDY" \in msts'[t],
           ctcb \in Task \cup {NONE}, rdsp \in BOOLEAN
    PROVE  Chosen' /\ ctcb' \in Task \cup {NONE} /\ rdsp' \in BOOLEAN
BY DEF Chosen, Redispatch, Ready

(* Services that touch no queue. *)
LEMMA QuietStep ==
    ASSUME IInv, UNCHANGED <<msts, wsts, cpri, sus, rdq, semq, timq, stime, systim, due>>,
           act' \in [Task -> 0..MaxAct], wup' \in [Task -> 0..MaxWup],
           semcnt' \in [Sem -> Nat],
           \A s \in Sem : semcnt'[s] <= MaxSem[s] /\ (semcnt'[s] > 0 => semcnt[s] > 0),
           Chosen', ctcb' \in Task \cup {NONE}, pri' \in 1..(MaxPri + 1),
           dsp' \in BOOLEAN, rdsp' \in BOOLEAN
    PROVE  IInv'
<1>1. TypeOK' BY Parts DEF TypeOK
<1>2. Flagged(msts', wsts') /\ Queues' BY Parts DEF Queues
<1>3. Timed' /\ SuspensionCounted' /\ NoIdleResource'
      BY Parts DEF Timed, SuspensionCounted, NoIdleResource, Waits
<1> QED BY <1>1, <1>2, <1>3 DEF IInv

(* _kernel_enqrdq of tasks that waited, or had not begun: those of R are   *)
(* not suspended.                                                          *)
Entering(ts, R, cp) ==
    /\ cp = cpri' /\ R = {t \in ToSet(ts) : "SUS" \notin msts[t]}
    /\ msts' = [t \in Task |-> IF t \in R THEN {"RDY"}
                               ELSE IF t \in ToSet(ts) THEN {"SUS"} ELSE msts[t]]
    /\ wsts' = [t \in Task |-> IF t \in ToSet(ts) THEN NONE ELSE wsts[t]]
    /\ rdq' = [p \in 1..MaxPri |-> rdq[p] \o Keep(ts, {t \in R : cp[t] = p})]
    /\ IF \E t \in R : pri > cp[t] THEN Redispatch ELSE UNCHANGED <<ctcb, rdsp>>

LEMMA EnteringMeans ==
    ASSUME NEW ts \in Seq(Task), EnqRdq(ts, rdq, cpri')
    PROVE  \E R, cp : Entering(ts, R, cp)
<1>1. PICK cp, R : cp = cpri' /\ R = {u \in ToSet(ts) : "SUS" \notin msts[u]} OBVIOUS
<1>2. {ts[i] : i \in 1..Len(ts)} = ToSet(ts) BY ToSetFacts
<1>3. /\ msts' = [u \in Task |-> IF u \in R THEN {"RDY"}
                                 ELSE IF u \in ToSet(ts) THEN {"SUS"} ELSE msts[u]]
      /\ wsts' = [u \in Task |-> IF u \in ToSet(ts) THEN NONE ELSE wsts[u]]
      /\ rdq' = [p \in 1..MaxPri |-> rdq[p] \o Keep(ts, {u \in R : cp[u] = p})]
      /\ IF \E u \in R : pri > cp[u] THEN Redispatch ELSE UNCHANGED <<ctcb, rdsp>>
      BY <1>1, <1>2 DEF EnqRdq
<1> QED BY <1>1, <1>3 DEF Entering

LEMMA EnterStep ==
    ASSUME IInv, NEW ts \in Seq(Task), Once(ts), NEW R, NEW cp, Entering(ts, R, cp),
           \A t \in ToSet(ts) : Waits(t) \/ Dormant(t),
           cpri' \in [Task -> 1..MaxPri], \A t \in Task \ ToSet(ts) : cpri'[t] = cpri[t],
           semq' \in [Sem -> [0..MaxPri -> Seq(Task)]],
           OffSemq(semq', msts, wsts, cpri, ToSet(ts)),
           timq' \in Seq(Task), OffTimq(timq', msts, stime, ToSet(ts)),
           act' \in [Task -> 0..MaxAct], systim' \in Stamp,
           UNCHANGED <<wup, sus, semcnt, stime, pri, dsp, due>>
    PROVE  IInv'
<1> USE Parts
<1>0. ToSet(ts) \subseteq Task BY ToSetFacts
<1>a. /\ cp = cpri' /\ R = {t \in ToSet(ts) : "SUS" \notin msts[t]}
      /\ msts' = [t \in Task |-> IF t \in R THEN {"RDY"}
                                 ELSE IF t \in ToSet(ts) THEN {"SUS"} ELSE msts[t]]
      /\ wsts' = [t \in Task |-> IF t \in ToSet(ts) THEN NONE ELSE wsts[t]]
      /\ rdq' = [p \in 1..MaxPri |-> rdq[p] \o Keep(ts, {t \in R : cp[t] = p})]
      /\ IF \E t \in R : pri > cp[t] THEN Redispatch ELSE UNCHANGED <<ctcb, rdsp>>
      BY DEF Entering
<1> USE <1>a
<1>1. /\ \A t \in Task \ ToSet(ts) : msts'[t] = msts[t] /\ wsts'[t] = wsts[t]
      /\ \A t \in R : msts'[t] = {"RDY"} /\ wsts'[t] = NONE
      /\ \A t \in ToSet(ts) \ R : msts'[t] = {"SUS"} /\ wsts'[t] = NONE
      BY <1>0
<1>2. \A t \in ToSet(ts) : "RDY" \notin msts[t] BY <1>0, FlagFacts DEF Waits, Dormant
<1>3. rdq' \in [1..MaxPri -> Seq(Task)] /\ OnRdq(rdq', msts', cpri')
  <2>1. OnRdq(rdq, msts, cp)
    <3>1. \A t \in Task : "RDY" \in msts[t] => cp[t] = cpri[t] BY <1>2
    <3>2. ASSUME NEW p \in 1..MaxPri
          PROVE  /\ Once(rdq[p])
                 /\ \A t \in Task : t \in ToSet(rdq[p]) <=> "RDY" \in msts[t] /\ cp[t] = p
      <4>1. /\ Once(rdq[p])
            /\ \A t \in Task : t \in ToSet(rdq[p]) <=> "RDY" \in msts[t] /\ cpri[t] = p
            BY DEF OnRdq, OffRdq
      <4> QED BY ONLY <3>1, <4>1
    <3> QED BY ONLY <3>2 DEF OnRdq, OffRdq
  <2>2. PICK ms, ms2, rq, r : ms = msts /\ ms2 = msts' /\ rq = rdq /\ r = rdq' OBVIOUS
  <2>3. \A t \in Task : "RDY" \in ms2[t] <=> "RDY" \in ms[t] \/ t \in R
        BY <1>0, <1>1, <1>2, <2>2
  <2>4. /\ rq \in [1..MaxPri -> Seq(Task)] /\ OnRdq(rq, ms, cp) /\ ts \in Seq(Task) /\ Once(ts)
        /\ R \in SUBSET ToSet(ts) /\ \A t \in ToSet(ts) : "RDY" \notin ms[t]
        /\ Joined(r, rq, ts, R, cp)
        BY <1>2, <2>1, <2>2 DEF Joined
  <2>5. r \in [1..MaxPri -> Seq(Task)] /\ OnRdq(r, ms2, cp)
        BY ONLY <2>3, <2>4, RdqEnter
  <2> QED BY <2>2, <2>5
<1>4. OnSemq(semq', msts', wsts', cpri')
  <2>1. \A t \in Task \ ToSet(ts) : /\ "WAI" \in msts'[t] <=> "WAI" \in msts[t]
                                    /\ "WAI" \in msts[t] => wsts'[t] = wsts[t] /\ cpri'[t] = cpri[t]
        BY <1>1
  <2>2. \A t \in Task \cap ToSet(ts) : "WAI" \in msts'[t] => wsts'[t] \notin Sem BY <1>1
  <2>3. PICK sq, ms, ws, c, ms2, ws2 : /\ sq = semq' /\ ms = msts /\ ws = wsts /\ c = cpri
                                       /\ ms2 = msts' /\ ws2 = wsts'
        OBVIOUS
  <2>4. /\ \A t \in Task \ ToSet(ts) : /\ "WAI" \in ms2[t] <=> "WAI" \in ms[t]
                                       /\ "WAI" \in ms[t] => ws2[t] = ws[t] /\ cp[t] = c[t]
        /\ \A t \in Task \cap ToSet(ts) : "WAI" \in ms2[t] => ws2[t] \notin Sem
        /\ OffSemq(sq, ms, ws, c, ToSet(ts))
        BY <2>1, <2>2, <2>3
  <2>5. OnSemq(sq, ms2, ws2, cp) BY ONLY <2>4, SemqStay
  <2> QED BY <2>3, <2>5
<1>5. OnTimq(timq', msts', stime')
  <2>1. /\ \A t \in Task \ ToSet(ts) : "TMR" \in msts'[t] <=> "TMR" \in msts[t]
        /\ \A t \in Task \cap ToSet(ts) : "TMR" \notin msts'[t]
        BY <1>1
  <2> QED BY <2>1, TimqStay
<1>6. Flagged(msts', wsts')
  <2>1. ASSUME NEW t \in Task
        PROVE  /\ Kind(msts'[t])
               /\ "WAI" \in msts'[t] => wsts'[t] # NONE
               /\ \A s \in Sem : "WAI" \in msts'[t] /\ wsts'[t] = s =>
                        ("FIFO" \in msts'[t] <=> SemAttr[s] = "FIFO")
    <3>1. CASE t \in ToSet(ts)
      <4>1. msts'[t] \in {{"RDY"}, {"SUS"}} BY <1>1, <3>1
      <4> QED BY <4>1 DEF Kind
    <3>2. CASE t \notin ToSet(ts) BY <1>1, <3>2 DEF Flagged
    <3> QED BY <3>1, <3>2
  <2> QED BY <2>1 DEF Flagged
<1>7. Timed' BY <1>1 DEF Timed
<1>8. SuspensionCounted' BY <1>1 DEF SuspensionCounted
<1>9. NoIdleResource' BY <1>1 DEF NoIdleResource, Waits
<1>10. Chosen' /\ ctcb' \in Task \cup {NONE} /\ rdsp' \in BOOLEAN
  <2>1. ctcb # NONE => ctcb \in Task \ ToSet(ts) /\ "RDY" \in msts[ctcb] /\ "RDY" \in msts'[ctcb]
        BY <1>1, <1>2 DEF Chosen, Ready
  <2>2. CASE \E t \in R : pri > cp[t]
    <3>1. Redispatch BY <2>2
    <3> QED BY <2>1, <3>1, RedispatchChosen
  <2>3. CASE ~\E t \in R : pri > cp[t]
    <3>1. UNCHANGED <<ctcb, rdsp>> BY <2>3
    <3>2. ASSUME ctcb # NONE, ~rdsp PROVE pri = cpri'[ctcb] /\ First(rdq', pri, ctcb)
      <4>1. pri = cpri[ctcb] /\ First(rdq, pri, ctcb) /\ cpri'[ctcb] = cpri[ctcb]
            BY <2>1, <3>2 DEF Chosen
      <4>2. PICK t, p, r, rq : t = ctcb /\ p = pri /\ r = rdq' /\ rq = rdq OBVIOUS
      <4>3. p \in 1..MaxPri
        <5>1. cpri[ctcb] \in 1..MaxPri BY <2>1, <3>2
        <5> QED BY <4>1, <4>2, <5>1
      <4>4. \A u \in R : cp[u] \in Nat /\ ~(p > cp[u]) BY <1>0, <2>3, <4>2, Constants
      <4>5. /\ rq \in [1..MaxPri -> Seq(Task)] /\ First(rq, p, t)
            /\ Joined(r, rq, ts, R, cp)
            BY <4>1, <4>2 DEF Joined
      <4>6. First(r, p, t) BY ONLY ts \in Seq(Task), <4>3, <4>4, <4>5, FirstEnter
      <4> QED BY <4>1, <4>2, <4>6
    <3> QED BY <2>1, <3>1, <3>2 DEF Chosen, Ready
  <2> QED BY <2>2, <2>3
<1>11. TypeOK'
  <2>1. msts' \in [Task -> SUBSET Flags] BY DEF Flags
  <2>2. wsts' \in [Task -> {"SLP", "DLY", NONE} \cup Sem] OBVIOUS
  <2> QED BY <1>3, <1>10, <2>1, <2>2 DEF TypeOK
<1> QED BY <1>3, <1>4, <1>5, <1>6, <1>7, <1>8, <1>9, <1>10, <1>11 DEF IInv, Queues

(* The running task begins to wait. *)
LEMMA BlockStep ==
    ASSUME IInv, NEW t \in Task, t = ctcb, ~dsp, NEW flags, NEW why, NEW d,
           Block(t, flags, why, d),
           flags \in {{"WAI"}, {"WAI", "FIFO"}}, d # FEVR => d \in UW /\ d \in Nat,
           \/ why \in {"SLP", "DLY"} /\ semq' = semq
           \/ /\ why \in Sem /\ ("FIFO" \in flags <=> SemAttr[why] = "FIFO")
              /\ semq' = [semq EXCEPT ![why][Way(why, t, cpri)] = Append(@, t)]
              /\ semcnt[why] = 0,
           UNCHANGED <<cpri, act, wup, sus, semcnt, pri, dsp, rdsp, systim>>
    PROVE  IInv'
<1> USE Parts
<1>0. "RDY" \in msts[t] /\ msts[t] = {"RDY"} BY Constants, FlagFacts DEF Chosen, Ready
<1>1. PICK f : f = IF d = FEVR THEN flags ELSE flags \cup {"TMR"} OBVIOUS
<1>2. /\ msts' = [msts EXCEPT ![t] = f] /\ wsts' = [wsts EXCEPT ![t] = why]
      /\ rdq' = RdqWithout(t) /\ ctcb' = NONE
      BY <1>1 DEF Block
<1>3. /\ msts'[t] = f /\ wsts'[t] = why
      /\ \A u \in Task \ {t} : msts'[u] = msts[u] /\ wsts'[u] = wsts[u]
      /\ "WAI" \in f /\ "RDY" \notin f /\ "DMT" \notin f /\ "SUS" \notin f /\ f \subseteq Flags
      /\ "FIFO" \in f <=> "FIFO" \in flags
      /\ "TMR" \in f <=> d # FEVR
      BY <1>1, <1>2 DEF Flags
<1>4. rdq' \in [1..MaxPri -> Seq(Task)] /\ OnRdq(rdq', msts', cpri')
  <2>1. RdqWithout(t) \in [1..MaxPri -> Seq(Task)] /\ OffRdq(RdqWithout(t), msts, cpri, {t})
        BY DroppedRdq
  <2>2. /\ \A u \in Task \ {t} : ("RDY" \in msts'[u] <=> "RDY" \in msts[u]) /\ cpri'[u] = cpri[u]
        /\ "RDY" \notin msts'[t]
        BY <1>3
  <2> QED BY <1>2, <2>1, <2>2, RdqStay
<1>5. semq' \in [Sem -> [0..MaxPri -> Seq(Task)]] /\ OnSemq(semq', msts', wsts', cpri')
  <2>1. OffSemq(semq, msts, wsts, cpri, {t}) BY <1>0, SemqNone
  <2>2. CASE why \in {"SLP", "DLY"} /\ semq' = semq
    <3>1. why \notin Sem BY <2>2, Constants
    <3>2. \A u \in Task \ {t} : /\ "WAI" \in msts'[u] <=> "WAI" \in msts[u]
                                /\ "WAI" \in msts[u] => wsts'[u] = wsts[u] /\ cpri'[u] = cpri[u]
          BY <1>3
    <3>3. \A u \in Task \cap {t} : "WAI" \in msts'[u] => wsts'[u] \notin Sem BY <1>3, <3>1
    <3>5. PICK sq, ms, ws, c, ms2, ws2 : /\ sq = semq /\ ms = msts /\ ws = wsts /\ c = cpri
                                         /\ ms2 = msts' /\ ws2 = wsts'
          OBVIOUS
    <3>6. /\ \A u \in Task \ {t} : /\ "WAI" \in ms2[u] <=> "WAI" \in ms[u]
                                   /\ "WAI" \in ms[u] => ws2[u] = ws[u] /\ c[u] = c[u]
          /\ \A u \in Task \cap {t} : "WAI" \in ms2[u] => ws2[u] \notin Sem
          /\ OffSemq(sq, ms, ws, c, {t})
          BY <2>1, <3>2, <3>3, <3>5
    <3>7. OnSemq(sq, ms2, ws2, c) BY ONLY <3>6, SemqStay
    <3>4. OnSemq(semq, msts', wsts', cpri') BY <3>5, <3>7
    <3> QED BY <2>2, <3>4
  <2>3. CASE why \in Sem /\ semq' = [semq EXCEPT ![why][Way(why, t, cpri)] = Append(@, t)]
    <3>1. PICK sq, ms, ws, ms2, ws2, c : /\ sq = semq /\ ms = msts /\ ws = wsts /\ c = cpri
                                         /\ ms2 = msts' /\ ws2 = wsts'
          OBVIOUS
    <3>2. PICK p : p = Way(why, t, c) OBVIOUS
    <3>3. PICK r : r = semq' OBVIOUS
    <3>5. LinkedAt(r, sq, why, p, t) BY <2>3, <3>1, <3>2, <3>3 DEF LinkedAt
    <3>4. /\ sq \in [Sem -> [0..MaxPri -> Seq(Task)]] /\ c \in [Task -> 1..MaxPri]
          /\ OffSemq(sq, ms, ws, c, {t}) /\ t \in Task /\ why \in Sem
          /\ \A u \in Task \ {t} : /\ "WAI" \in ms2[u] <=> "WAI" \in ms[u]
                                   /\ ws2[u] = ws[u] /\ c[u] = c[u]
          /\ "WAI" \in ms2[t] /\ ws2[t] = why
          BY <1>3, <2>1, <2>3, <3>1
    <3>6. r \in [Sem -> [0..MaxPri -> Seq(Task)]] /\ OnSemq(r, ms2, ws2, c)
          BY ONLY <3>2, <3>4, <3>5, SemqEnter
    <3> QED BY <3>1, <3>3, <3>6
  <2> QED BY <2>2, <2>3
<1>6. Value(systim) \in Nat BY ValueType
<1>7. /\ timq' \in Seq(Task) /\ stime' \in [Task -> Stamp] /\ due' \in [Task -> Nat]
      /\ OnTimq(timq', msts', stime') /\ Timed'
  <2>1. CASE d = FEVR
    <3>1. UNCHANGED <<stime, timq, due>> BY <2>1 DEF Block
    <3>2. ASSUME NEW u \in Task PROVE "TMR" \in msts'[u] <=> "TMR" \in msts[u]
      <4>1. CASE u = t
        <5>1. "TMR" \notin msts[u] BY <1>0, <4>1
        <5>2. "TMR" \notin msts'[u] BY <1>3, <2>1, <4>1
        <5> QED BY <5>1, <5>2
      <4>2. CASE u # t BY <1>3, <4>2
      <4> QED BY <4>1, <4>2
    <3>3. OnTimq(timq, msts', stime) BY <3>2 DEF OnTimq, OffTimq
    <3> QED BY <3>1, <3>2, <3>3 DEF Timed
  <2>2. CASE d # FEVR
    <3>1. /\ stime' = [stime EXCEPT ![t] = Advance(systim, d)]
          /\ timq' = EnqTim(timq, stime', t)
          /\ due' = [due EXCEPT ![t] = Value(systim) + d]
          BY <2>2 DEF Block
    <3>2. d \in UW /\ d \in Nat BY <2>2
    <3>3. Advance(systim, d) \in Stamp /\ Value(Advance(systim, d)) = Value(systim) + d
          BY <3>2, AdvanceExact
    <3>4. PICK st, st2, ms, ms2, tq : /\ st2 = stime' /\ ms2 = msts' /\ st = stime /\ ms = msts
                                      /\ tq = timq
          OBVIOUS
    <3>5. st2[t] = Advance(systim, d) /\ \A u \in Task \ {t} : st2[u] = stime[u] BY <3>1, <3>3, <3>4
    <3>6. /\ \A u \in Task \ {t} : ("TMR" \in ms2[u] <=> "TMR" \in ms[u]) /\ st2[u] = st[u]
          /\ "TMR" \in ms2[t] /\ "TMR" \notin ms[t] /\ t \in Task
          BY <1>0, <1>3, <2>2, <3>4, <3>5
    <3>10. /\ tq \in Seq(Task) /\ st \in [Task -> Stamp] /\ OnTimq(tq, ms, st)
           /\ st2 \in [Task -> Stamp]
           BY <3>1, <3>3, <3>4
    <3>7. EnqTim(tq, st2, t) \in Seq(Task) /\ OnTimq(EnqTim(tq, st2, t), ms2, st2)
          BY ONLY <3>6, <3>10, TimqEnter
    <3>8. due' \in [Task -> Nat]
      <4>1. Value(systim) + d \in Nat BY ONLY <1>6, <3>2
      <4>2. due \in [Task -> Nat] OBVIOUS
      <4> QED BY ONLY <3>1, <4>1, <4>2, t \in Task
    <3>9. ASSUME NEW u \in Task, "TMR" \in msts'[u] PROVE due'[u] = Value(stime'[u])
      <4>1. CASE u = t BY <3>1, <3>3, <3>4, <3>5, <4>1
      <4>2. CASE u # t
        <5>1. due'[u] = due[u] /\ stime'[u] = stime[u] /\ "TMR" \in msts[u]
              BY <3>1, <3>4, <3>6, <3>9, <4>2
        <5> QED BY <5>1 DEF Timed
      <4> QED BY <4>1, <4>2
    <3> QED BY <3>1, <3>4, <3>7, <3>8, <3>9, <3>10 DEF Timed
  <2> QED BY <2>1, <2>2
<1>8. Flagged(msts', wsts')
  <2>1. why # NONE
    <3>1. CASE why \in {"SLP", "DLY"} BY <3>1, Constants
    <3>2. CASE why \in Sem BY <3>2, Constants
    <3> QED BY <3>1, <3>2
  <2>2. \A s \in Sem : why = s => ("FIFO" \in f <=> SemAttr[s] = "FIFO") BY <1>3, Constants
  <2>3. ASSUME NEW u \in Task
        PROVE  /\ Kind(msts'[u])
               /\ "WAI" \in msts'[u] => wsts'[u] # NONE
               /\ \A s \in Sem : "WAI" \in msts'[u] /\ wsts'[u] = s =>
                        ("FIFO" \in msts'[u] <=> SemAttr[s] = "FIFO")
    <3>1. CASE u = t BY <1>3, <2>1, <2>2, <3>1 DEF Kind
    <3>2. CASE u # t
      <4>1. msts'[u] = msts[u] /\ wsts'[u] = wsts[u] BY <1>3, <3>2
      <4>2. Flagged(msts, wsts) OBVIOUS
      <4> QED BY ONLY <4>1, <4>2, u \in Task DEF Flagged
    <3> QED BY <3>1, <3>2
  <2> QED BY <2>3 DEF Flagged
<1>9. SuspensionCounted' BY <1>3 DEF SuspensionCounted
<1>10. NoIdleResource'
  <2>1. ASSUME NEW s \in Sem, semcnt'[s] > 0, NEW u \in Task, "WAI" \in msts'[u], wsts'[u] = s
        PROVE  FALSE
    <3>1. CASE u = t
      <4>1. why = s /\ semcnt[s] > 0 BY <1>3, <2>1, <3>1
      <4>2. semcnt[s] = 0 BY <4>1, Constants
      <4> QED BY <4>1, <4>2
    <3>2. CASE u # t
      <4>1. "WAI" \in msts[u] /\ wsts[u] = s /\ semcnt[s] > 0 BY <1>3, <2>1, <3>2
      <4> QED BY <4>1 DEF NoIdleResource, Waits
    <3> QED BY <3>1, <3>2
  <2> QED BY <2>1 DEF NoIdleResource, Waits
<1>11. Chosen' BY <1>2 DEF Chosen
<1>12. TypeOK'
  <2>1. msts' \in [Task -> SUBSET Flags] BY <1>2, <1>3
  <2>2. why \in {"SLP", "DLY", NONE} \cup Sem OBVIOUS
  <2>3. wsts' \in [Task -> {"SLP", "DLY", NONE} \cup Sem] BY <1>2, <2>2
  <2> QED BY <1>2, <1>4, <1>5, <1>7, <2>1, <2>3 DEF TypeOK
<1> QED BY <1>4, <1>5, <1>7, <1>8, <1>9, <1>10, <1>11, <1>12 DEF IInv, Queues

-----------------------------------------------------------------------------
(* What disconnecting tasks from the queues of their waits leaves. *)
LEMMA LeftSemq ==
    ASSUME IInv, NEW X
    PROVE  /\ SemqWithout(X) \in [Sem -> [0..MaxPri -> Seq(Task)]]
           /\ OffSemq(SemqWithout(X), msts, wsts, cpri, X)
<1> USE Parts
<1>1. PICK r, sq, ms, ws, cp : /\ r = SemqWithout(X) /\ sq = semq /\ ms = msts /\ ws = wsts
                               /\ cp = cpri
      OBVIOUS
<1>2. /\ sq \in [Sem -> [0..MaxPri -> Seq(Task)]] /\ OnSemq(sq, ms, ws, cp)
      /\ Sifted(r, sq, ws, X)
      BY <1>1 DEF SemqWithout, Sifted
<1>3. r \in [Sem -> [0..MaxPri -> Seq(Task)]] /\ OffSemq(r, ms, ws, cp, X)
      BY ONLY <1>2, SemqDrop
<1> QED BY <1>1, <1>3

LEMMA LeftTimq ==
    ASSUME IInv, NEW t \in Task
    PROVE  TimqWithout(t) \in Seq(Task) /\ OffTimq(TimqWithout(t), msts, stime, {t})
<1> USE Parts
<1>1. PICK r, tq, ms, st : r = TimqWithout(t) /\ tq = timq /\ ms = msts /\ st = stime OBVIOUS
<1>2. /\ tq \in Seq(Task) /\ st \in [Task -> Stamp] /\ OnTimq(tq, ms, st)
      /\ r = IF "TMR" \in ms[t] THEN Unlink(tq, t) ELSE tq
      BY <1>1 DEF TimqWithout
<1>3. r \in Seq(Task) /\ OffTimq(r, ms, st, {t}) BY <1>2, TimqDrop
<1> QED BY <1>1, <1>3

(* A task that waits for no semaphore, or has no timeout, is not queued. *)
LEMMA NotQueued ==
    ASSUME IInv, NEW t \in Task
    PROVE  /\ ~(Waits(t) /\ wsts[t] \in Sem) => OffSemq(semq, msts, wsts, cpri, {t})
           /\ "TMR" \notin msts[t] => OffTimq(timq, msts, stime, {t})
<1> USE Parts
<1>1. PICK sq, ms, ws, cp : sq = semq /\ ms = msts /\ ws = wsts /\ cp = cpri OBVIOUS
<1>2. ASSUME ~(Waits(t) /\ wsts[t] \in Sem) PROVE OffSemq(sq, ms, ws, cp, {t})
  <2>1. \A u \in Task \cap {t} : "WAI" \in ms[u] => ws[u] \notin Sem BY <1>1, <1>2 DEF Waits
  <2>2. OnSemq(sq, ms, ws, cp) BY <1>1
  <2> QED BY ONLY <2>1, <2>2, SemqNone
<1>3. "TMR" \notin msts[t] => OffTimq(timq, msts, stime, {t}) BY DEF OnTimq, OffTimq
<1> QED BY <1>1, <1>2, <1>3

(* One task is made ready, or left with its suspension. *)
LEMMA EnterOneStep ==
    ASSUME IInv, NEW t \in Task, Waits(t) \/ Dormant(t),
           EnqRdq(<<t>>, rdq, cpri'), cpri' \in [Task -> 1..MaxPri],
           \A u \in Task \ {t} : cpri'[u] = cpri[u],
           semq' \in [Sem -> [0..MaxPri -> Seq(Task)]], OffSemq(semq', msts, wsts, cpri, {t}),
           timq' \in Seq(Task), OffTimq(timq', msts, stime, {t}),
           act' \in [Task -> 0..MaxAct],
           UNCHANGED <<wup, sus, semcnt, stime, pri, dsp, due, systim>>
    PROVE  IInv'
<1>1. PICK ts : ts = <<t>> OBVIOUS
<1>2. ts \in Seq(Task) /\ ToSet(ts) = {t} /\ Once(ts)
  <2>1. ts \in Seq(Task) /\ Len(ts) = 1 /\ ts[1] = t BY <1>1
  <2>2. ToSet(ts) = {ts[i] : i \in 1..1} BY <2>1, ToSetFacts
  <2>3. ToSet(ts) = {t} BY <2>1, <2>2
  <2> QED BY <2>1, <2>3 DEF Once
<1>3. EnqRdq(ts, rdq, cpri') BY <1>1
<1>4. PICK R, cp : Entering(ts, R, cp) BY <1>2, <1>3, EnteringMeans
<1>7. systim' \in Stamp BY Parts
<1>8. \A u \in ToSet(ts) : Waits(u) \/ Dormant(u) BY <1>2
<1>9. \A u \in Task \ ToSet(ts) : cpri'[u] = cpri[u] BY <1>2
<1>10. OffSemq(semq', msts, wsts, cpri, ToSet(ts)) /\ OffTimq(timq', msts, stime, ToSet(ts))
       BY <1>2
<1> QED BY <1>2, <1>4, <1>7, <1>8, <1>9, <1>10, EnterStep

LEMMA ActTskStep ==
    ASSUME IInv, NEW t \in Task, ActTsk(t)
    PROVE  IInv'
<1> USE Parts
<1>1. UNCHANGED <<wup, sus, semq, semcnt, timq, stime, pri, dsp, systim, due>> BY DEF ActTsk
<1>2. CASE Dormant(t)
  <2>1. /\ cpri' = [cpri EXCEPT ![t] = Ipri[t]] /\ EnqRdq(<<t>>, rdq, cpri') /\ act' = act
        BY <1>2 DEF ActTsk
  <2>2. /\ cpri' \in [Task -> 1..MaxPri] /\ \A u \in Task \ {t} : cpri'[u] = cpri[u]
        BY <2>1, Constants
  <2>3. "WAI" \notin msts[t] /\ "TMR" \notin msts[t] BY <1>2 DEF Dormant
  <2>4. OffSemq(semq', msts, wsts, cpri, {t}) /\ OffTimq(timq', msts, stime, {t})
        BY <1>1, <2>3, NotQueued DEF Waits
  <2> QED BY <1>1, <1>2, <2>1, <2>2, <2>4, EnterOneStep
<1>3. CASE ~Dormant(t)
  <2>1. /\ act[t] < MaxAct /\ act' = [act EXCEPT ![t] = @ + 1]
        /\ UNCHANGED <<cpri, msts, wsts, rdq, ctcb, rdsp>>
        BY <1>3 DEF ActTsk
  <2>2. act' \in [Task -> 0..MaxAct]
    <3>1. act \in [Task -> 0..MaxAct] /\ MaxAct \in Nat BY Constants
    <3>2. act[t] + 1 \in 0..MaxAct BY ONLY <2>1, <3>1, t \in Task
    <3> QED BY ONLY <2>1, <3>1, <3>2, t \in Task
  <2>3. Chosen' BY <1>1, <2>1 DEF Chosen, Ready
  <2> QED BY <1>1, <2>1, <2>2, <2>3, QuietStep
<1> QED BY <1>2, <1>3

LEMMA WupTskStep ==
    ASSUME IInv, NEW t \in Task, WupTsk(t)
    PROVE  IInv'
<1> USE Parts
<1>1. UNCHANGED <<cpri, act, sus, semq, semcnt, stime, pri, dsp, systim, due>> BY DEF WupTsk
<1>2. CASE Waits(t) /\ wsts[t] = "SLP"
  <2>1. timq' = TimqWithout(t) /\ EnqRdq(<<t>>, rdq, cpri) /\ wup' = wup BY <1>2 DEF WupTsk
  <2>2. EnqRdq(<<t>>, rdq, cpri') BY <1>1, <2>1 DEF EnqRdq
  <2>3. timq' \in Seq(Task) /\ OffTimq(timq', msts, stime, {t}) BY <2>1, LeftTimq
  <2>4. OffSemq(semq', msts, wsts, cpri, {t}) BY <1>1, <1>2, NotQueued, Constants
  <2> QED BY <1>1, <1>2, <2>1, <2>2, <2>3, <2>4, EnterOneStep
<1>3. CASE ~(Waits(t) /\ wsts[t] = "SLP")
  <2>1. /\ wup[t] # MaxWup /\ wup' = [wup EXCEPT ![t] = @ + 1]
        /\ UNCHANGED <<timq, msts, wsts, rdq, ctcb, rdsp>>
        BY <1>3 DEF WupTsk
  <2>2. wup' \in [Task -> 0..MaxWup]
    <3>1. wup \in [Task -> 0..MaxWup] /\ MaxWup \in Nat BY Constants
    <3>2. wup[t] + 1 \in 0..MaxWup BY ONLY <2>1, <3>1, t \in Task
    <3> QED BY ONLY <2>1, <3>1, <3>2, t \in Task
  <2>3. Chosen' BY <1>1, <2>1 DEF Chosen, Ready
  <2> QED BY <1>1, <2>1, <2>2, <2>3, QuietStep
<1> QED BY <1>2, <1>3

LEMMA RelWaiStep ==
    ASSUME IInv, NEW t \in Task, RelWai(t)
    PROVE  IInv'
<1> USE Parts
<1>1. /\ Waits(t) /\ semq' = SemqWithout({t}) /\ timq' = TimqWithout(t)
      /\ EnqRdq(<<t>>, rdq, cpri)
      /\ UNCHANGED <<cpri, act, wup, sus, semcnt, stime, pri, dsp, systim, due>>
      BY DEF RelWai
<1>2. EnqRdq(<<t>>, rdq, cpri') BY <1>1 DEF EnqRdq
<1>3. /\ timq' \in Seq(Task) /\ OffTimq(timq', msts, stime, {t})
      /\ semq' \in [Sem -> [0..MaxPri -> Seq(Task)]] /\ OffSemq(semq', msts, wsts, cpri, {t})
      BY <1>1, LeftTimq, LeftSemq
<1> QED BY <1>1, <1>2, <1>3, EnterOneStep

LEMMA SigSemStep ==
    ASSUME IInv, NEW s \in Sem, SigSem(s)
    PROVE  IInv'
<1> USE Parts
<1>1. UNCHANGED <<cpri, act, wup, sus, stime, pri, dsp, systim, due>> BY DEF SigSem
<1>2. CASE Waiting(s) # {}
  <2>1. PICK t : t = FirstWaiter(s) OBVIOUS
  <2>2. t \in Task /\ Waits(t)
    <3>1. Waiting(s) \in SUBSET Nat BY Constants DEF Waiting
    <3>2. PICK p : p = CHOOSE k \in Waiting(s) : \A q \in Waiting(s) : k <= q OBVIOUS
    <3>3. p \in Waiting(s) BY <1>2, <3>1, <3>2, LeastOf
    <3>4. p \in 0..MaxPri /\ semq[s][p] # <<>> /\ t = Head(semq[s][p])
          BY <2>1, <3>2, <3>3 DEF Waiting, FirstWaiter
    <3>5. semq[s][p] \in Seq(Task) BY <3>4
    <3>6. t \in Task /\ t \in ToSet(semq[s][p]) BY <3>4, <3>5, TailOnce
    <3> QED BY <3>4, <3>6 DEF OnSemq, OffSemq, Waits
  <2>3. /\ semq' = SemqWithout({t}) /\ timq' = TimqWithout(t) /\ EnqRdq(<<t>>, rdq, cpri)
        /\ UNCHANGED semcnt
        BY <1>2, <2>1 DEF SigSem
  <2>4. EnqRdq(<<t>>, rdq, cpri') BY <1>1, <2>3 DEF EnqRdq
  <2>5. /\ timq' \in Seq(Task) /\ OffTimq(timq', msts, stime, {t})
        /\ semq' \in [Sem -> [0..MaxPri -> Seq(Task)]] /\ OffSemq(semq', msts, wsts, cpri, {t})
        BY <2>2, <2>3, LeftTimq, LeftSemq
  <2> QED BY <1>1, <2>2, <2>3, <2>4, <2>5, EnterOneStep
<1>3. CASE Waiting(s) = {}
  <2>1. /\ semcnt[s] < MaxSem[s] /\ semcnt' = [semcnt EXCEPT ![s] = @ + 1]
        /\ UNCHANGED <<semq, timq, msts, wsts, rdq, ctcb, rdsp>>
        BY <1>3 DEF SigSem
  <2>2. ASSUME NEW t \in Task, "WAI" \in msts[t], wsts[t] = s PROVE FALSE
    <3>1. PICK p \in 0..MaxPri : p = Way(s, t, cpri) BY Constants DEF Way
    <3>2. t \in ToSet(semq[s][p]) BY <2>2, <3>1 DEF OnSemq, OffSemq
    <3>3. semq[s][p] = <<>> BY <1>3 DEF Waiting
    <3>4. semq[s][p] \in Seq(Task) /\ ToSet(semq[s][p]) = {} BY <3>3, ToSetFacts
    <3> QED BY <3>2, <3>4
  <2>3. semcnt' \in [Sem -> Nat] /\ \A r \in Sem : semcnt'[r] <= MaxSem[r]
    <3>1. semcnt \in [Sem -> Nat] /\ \A r \in Sem : semcnt[r] <= MaxSem[r] /\ MaxSem[r] \in Nat
          BY Constants
    <3>2. semcnt[s] + 1 \in Nat /\ semcnt[s] + 1 <= MaxSem[s] BY ONLY <2>1, <3>1, s \in Sem
    <3> QED BY ONLY <2>1, <3>1, <3>2, s \in Sem
  <2>8. NoIdleResource'
    <3>1. ASSUME NEW r \in Sem, semcnt'[r] > 0, NEW t \in Task, "WAI" \in msts[t], wsts[t] = r
          PROVE  FALSE
      <4>1. r # s BY <2>2, <3>1
      <4>2. semcnt[r] > 0 BY <2>1, <3>1, <4>1
      <4> QED BY <3>1, <4>2 DEF NoIdleResource, Waits
    <3> QED BY <2>1, <3>1 DEF NoIdleResource, Waits
  <2>4. Chosen' BY <1>1, <2>1 DEF Chosen, Ready
  <2>5. TypeOK' BY <1>1, <2>1, <2>3 DEF TypeOK
  <2>6. Flagged(msts', wsts') /\ Queues' BY <1>1, <2>1 DEF Queues
  <2>7. Timed' /\ SuspensionCounted' BY <1>1, <2>1 DEF Timed, SuspensionCounted
  <2> QED BY <2>4, <2>5, <2>6, <2>7, <2>8 DEF IInv
<1> QED BY <1>2, <1>3

LEMMA SlpTskStep ==
    ASSUME IInv, NEW t \in Task, NEW d \in Timeout \cup {0}, SlpTsk(t, d)
    PROVE  IInv'
<1>1. /\ ctcb = t /\ ~dsp /\ t # NONE
      /\ UNCHANGED <<cpri, act, sus, semq, semcnt, pri, dsp, rdsp, systim>>
      BY Constants DEF SlpTsk
<1>2. CASE wup[t] > 0
  <2>1. /\ wup' = [wup EXCEPT ![t] = @ - 1]
        /\ UNCHANGED <<rdq, wsts, ctcb, msts, stime, timq, due>>
        BY <1>2 DEF SlpTsk
  <2>2. wup' \in [Task -> 0..MaxWup]
    <3>1. wup \in [Task -> 0..MaxWup] /\ MaxWup \in Nat BY Parts, Constants
    <3>2. wup[t] - 1 \in 0..MaxWup BY ONLY <1>2, <3>1, t \in Task
    <3> QED BY ONLY <2>1, <3>1, <3>2, t \in Task
  <2>3. Chosen' BY <1>1, <2>1, Parts DEF Chosen, Ready
  <2> QED BY <1>1, <2>1, <2>2, <2>3, Parts, QuietStep
<1>3. CASE ~(wup[t] > 0)
  <2>1. d # 0 /\ Block(t, {"WAI"}, "SLP", d) /\ wup' = wup BY <1>3 DEF SlpTsk
  <2>2. d # FEVR => d \in UW /\ d \in Nat BY <2>1, Constants DEF Timeout
  <2> QED BY <1>1, <2>1, <2>2, BlockStep
<1> QED BY <1>2, <1>3

LEMMA DlyTskStep ==
    ASSUME IInv, NEW t \in Task, NEW d \in Timeouts, DlyTsk(t, d)
    PROVE  IInv'
<1>1. /\ ctcb = t /\ ~dsp /\ Block(t, {"WAI"}, "DLY", d + Tick)
      /\ UNCHANGED <<cpri, act, wup, sus, semq, semcnt, pri, dsp, rdsp, systim>>
      BY DEF DlyTsk
<1>2. d + Tick \in UW /\ d + Tick \in Nat BY Constants
<1> QED BY <1>1, <1>2, BlockStep

LEMMA WaiSemStep ==
    ASSUME IInv, NEW t \in Task, NEW s \in Sem, NEW d \in Timeout, WaiSem(t, s, d)
    PROVE  IInv'
<1>1. ctcb = t /\ ~dsp /\ UNCHANGED <<cpri, act, wup, sus, pri, dsp, rdsp, systim>>
      BY DEF WaiSem
<1>0. semcnt \in [Sem -> Nat] /\ \A r \in Sem : semcnt[r] <= MaxSem[r] /\ MaxSem[r] \in Nat
      BY Parts, Constants
<1>2. CASE semcnt[s] > 0
  <2>1. /\ semcnt' = [semcnt EXCEPT ![s] = @ - 1]
        /\ UNCHANGED <<rdq, semq, wsts, ctcb, msts, stime, timq, due>>
        BY <1>2 DEF WaiSem
  <2>2. /\ semcnt' \in [Sem -> Nat]
        /\ \A r \in Sem : semcnt'[r] <= MaxSem[r] /\ (semcnt'[r] > 0 => semcnt[r] > 0)
    <3>1. semcnt[s] - 1 \in Nat /\ semcnt[s] - 1 <= MaxSem[s] BY ONLY <1>0, <1>2, s \in Sem
    <3> QED BY ONLY <1>0, <1>2, <2>1, <3>1, s \in Sem
  <2>3. Chosen' BY <1>1, <2>1, Parts DEF Chosen, Ready
  <2> QED BY <1>1, <2>1, <2>2, <2>3, Parts, QuietStep
<1>3. CASE ~(semcnt[s] > 0)
  <2>1. PICK flags : flags = IF SemAttr[s] = "FIFO" THEN {"WAI", "FIFO"} ELSE {"WAI"} OBVIOUS
  <2>2. /\ Block(t, flags, s, d) /\ semcnt' = semcnt
        /\ semq' = [semq EXCEPT ![s][Way(s, t, cpri)] = Append(@, t)]
        BY <1>3, <2>1 DEF WaiSem, Way
  <2>3. d # FEVR => d \in UW /\ d \in Nat BY Constants DEF Timeout
  <2>4. semcnt[s] = 0 BY ONLY <1>0, <1>3, s \in Sem
  <2>5. flags \in {{"WAI"}, {"WAI", "FIFO"}} /\ ("FIFO" \in flags <=> SemAttr[s] = "FIFO")
        BY <2>1
  <2> QED BY <1>1, <2>2, <2>3, <2>4, <2>5, BlockStep
<1> QED BY <1>2, <1>3

LEMMA PolSemStep ==
    ASSUME IInv, NEW s \in Sem, PolSem(s)
    PROVE  IInv'
<1>0. semcnt \in [Sem -> Nat] /\ \A r \in Sem : semcnt[r] <= MaxSem[r] /\ MaxSem[r] \in Nat
      BY Parts, Constants
<1>1. /\ semcnt[s] > 0 /\ semcnt' = [semcnt EXCEPT ![s] = @ - 1]
      /\ UNCHANGED <<msts, wsts, cpri, act, wup, sus, rdq, semq, timq, stime,
                     ctcb, pri, dsp, rdsp, systim, due>>
      BY DEF PolSem, tcbs, system
<1>2. /\ semcnt' \in [Sem -> Nat]
      /\ \A r \in Sem : semcnt'[r] <= MaxSem[r] /\ (semcnt'[r] > 0 => semcnt[r] > 0)
  <2>1. semcnt[s] - 1 \in Nat /\ semcnt[s] - 1 <= MaxSem[s] BY ONLY <1>0, <1>1, s \in Sem
  <2> QED BY ONLY <1>0, <1>1, <2>1, s \in Sem
<1>3. Chosen' BY <1>1, Parts DEF Chosen, Ready
<1> QED BY <1>1, <1>2, <1>3, Parts, QuietStep

(* Services that reset a counter or concern dispatching. *)
LEMMA CancelStep ==
    ASSUME IInv, NEW t \in Task, CanAct(t) \/ CanWup(t)
    PROVE  IInv'
<1>1. /\ UNCHANGED <<msts, wsts, cpri, sus, rdq, semq, semcnt, timq, stime,
                     ctcb, pri, dsp, rdsp, systim, due>>
      BY DEF CanAct, CanWup, queues, system
<1>4. act' \in [Task -> 0..MaxAct] /\ wup' \in [Task -> 0..MaxWup]
  <2>0. MaxAct \in Nat /\ MaxWup \in Nat BY Constants
  <2>1. /\ act \in [Task -> 0..MaxAct] /\ wup \in [Task -> 0..MaxWup]
        /\ 0 \in 0..MaxAct /\ 0 \in 0..MaxWup
        BY <2>0, Parts
  <2>2. \/ act' = [act EXCEPT ![t] = 0] /\ wup' = wup
        \/ wup' = [wup EXCEPT ![t] = 0] /\ act' = act
        BY DEF CanAct, CanWup
  <2> QED BY ONLY <2>1, <2>2, t \in Task
<1>2. Chosen' BY <1>1, Parts DEF Chosen, Ready
<1>3. semcnt' \in [Sem -> Nat]
      /\ \A r \in Sem : semcnt'[r] <= MaxSem[r] /\ (semcnt'[r] > 0 => semcnt[r] > 0)
      BY <1>1, Parts
<1> QED BY <1>1, <1>2, <1>3, <1>4, Parts, QuietStep

LEMMA DspStep ==
    ASSUME IInv, DisDsp \/ EnaDsp
    PROVE  IInv'
<1>1. /\ UNCHANGED <<msts, wsts, cpri, act, wup, sus, rdq, semq, semcnt, timq, stime,
                     pri, systim, due>>
      /\ ctcb # NONE
      BY DEF DisDsp, EnaDsp, tcbs, queues
<1>2. Chosen' /\ ctcb' \in Task \cup {NONE} /\ dsp' \in BOOLEAN /\ rdsp' \in BOOLEAN
  <2>1. CASE DisDsp BY <1>1, <2>1, Parts DEF DisDsp, Chosen, Ready
  <2>2. CASE EnaDsp BY <1>1, <2>2, Parts DEF EnaDsp, Chosen, Ready
  <2> QED BY <2>1, <2>2
<1>3. semcnt' \in [Sem -> Nat]
      /\ \A r \in Sem : semcnt'[r] <= MaxSem[r] /\ (semcnt'[r] > 0 => semcnt[r] > 0)
      BY <1>1, Parts
<1> QED BY <1>1, <1>2, <1>3, Parts, QuietStep

(* The head of the most urgent queue that is not empty. *)
LEMMA HighestFirst ==
    ASSUME IInv, Urgent # {}
    PROVE  /\ HighestReady \in Task /\ "RDY" \in msts[HighestReady]
           /\ cpri[HighestReady] \in 1..MaxPri
           /\ First(rdq, cpri[HighestReady], HighestReady)
<1>1. Urgent \in SUBSET Nat BY Constants DEF Urgent
<1>2. PICK p : p = CHOOSE k \in Urgent : \A q \in Urgent : k <= q OBVIOUS
<1>3. p \in Urgent /\ \A q \in Urgent : p <= q BY <1>1, <1>2, LeastOf
<1>4. p \in 1..MaxPri /\ rdq[p] # <<>> /\ HighestReady = Head(rdq[p])
      BY <1>2, <1>3 DEF Urgent, HighestReady
<1>5. rdq[p] \in Seq(Task) BY <1>4, Parts
<1>6. HighestReady \in Task /\ HighestReady \in ToSet(rdq[p]) BY <1>4, <1>5, TailOnce
<1>7. "RDY" \in msts[HighestReady] /\ cpri[HighestReady] = p
      BY <1>4, <1>6, Parts DEF OnRdq, OffRdq
<1>8. ASSUME NEW q \in 1..(p - 1) PROVE rdq[q] = <<>>
  <2>1. q \in 1..MaxPri /\ ~(p <= q) BY <1>4, Constants
  <2> QED BY <1>3, <2>1 DEF Urgent
<1> QED BY <1>4, <1>6, <1>7, <1>8 DEF First

LEMMA DispatchStep ==
    ASSUME IInv, Dispatch
    PROVE  IInv'
<1>1. /\ UNCHANGED <<msts, wsts, cpri, act, wup, sus, rdq, semq, semcnt, timq, stime,
                     dsp, rdsp, systim, due>>
      /\ ctcb = NONE
      BY DEF Dispatch, tcbs, queues
<1>2. Chosen' /\ ctcb' \in Task \cup {NONE} /\ pri' \in 1..(MaxPri + 1)
  <2>1. CASE Urgent = {}
    <3>1. pri' = MaxPri + 1 /\ ctcb' = NONE BY <1>1, <2>1 DEF Dispatch
    <3>2. MaxPri + 1 \in 1..(MaxPri + 1) BY Constants
    <3> QED BY <1>1, <3>1, <3>2, Parts DEF Chosen
  <2>2. CASE Urgent # {}
    <3>1. PICK t : t = HighestReady OBVIOUS
    <3>2. ctcb' = t /\ pri' = cpri[t] BY <2>2, <3>1 DEF Dispatch
    <3>3. t \in Task /\ "RDY" \in msts[t] /\ cpri[t] \in 1..MaxPri /\ First(rdq, cpri[t], t)
          BY <2>2, <3>1, HighestFirst
    <3>4. cpri[t] \in 1..(MaxPri + 1) BY <3>3, Constants
    <3> QED BY <1>1, <3>2, <3>3, <3>4, Parts DEF Chosen, Ready
  <2> QED BY <2>1, <2>2
<1>3. semcnt' \in [Sem -> Nat]
      /\ \A r \in Sem : semcnt'[r] <= MaxSem[r] /\ (semcnt'[r] > 0 => semcnt[r] > 0)
      BY <1>1, Parts
<1> QED BY <1>1, <1>2, <1>3, Parts, QuietStep

(* The first of a queue becomes its last. *)
Rotated(r, rq, p) == r = [rq EXCEPT ![p] = Append(Tail(@), Head(@))]

LEMMA RdqRotate ==
    ASSUME NEW rq \in [1..MaxPri -> Seq(Task)], NEW ms, NEW cp, OnRdq(rq, ms, cp),
           NEW p \in 1..MaxPri, rq[p] # <<>>, NEW r, Rotated(r, rq, p)
    PROVE  /\ r \in [1..MaxPri -> Seq(Task)] /\ OnRdq(r, ms, cp)
           /\ \A t : \A k \in 1..MaxPri : ~(k >= p) /\ First(rq, k, t) => First(r, k, t)
<1>1. PICK q \in Seq(Task) : q = rq[p] /\ q # <<>> /\ Once(q) BY DEF OnRdq, OffRdq
<1>2. PICK h, tl : h = Head(q) /\ tl = Tail(q) OBVIOUS
<1>3. /\ h \in Task /\ tl \in Seq(Task) /\ Once(tl) /\ h \notin ToSet(tl)
      /\ ToSet(tl) = ToSet(q) \ {h} /\ h \in ToSet(q)
      BY <1>1, <1>2, TailOnce
<1>4. PICK a : a = Append(tl, h) OBVIOUS
<1>5. a \in Seq(Task) /\ Once(a) /\ ToSet(a) = ToSet(q)
  <2>1. a \in Seq(Task) /\ Once(a) /\ ToSet(a) = ToSet(tl) \cup {h} BY <1>3, <1>4, AppendOnce
  <2> QED BY <1>3, <2>1
<1>6. r = [rq EXCEPT ![p] = a] BY <1>1, <1>2, <1>4 DEF Rotated
<1>7. /\ r \in [1..MaxPri -> Seq(Task)] /\ r[p] = a
      /\ \A k \in 1..MaxPri : k # p => r[k] = rq[k]
      BY <1>5, <1>6
<1>8. OnRdq(r, ms, cp)
  <2>1. ASSUME NEW k \in 1..MaxPri
        PROVE  /\ Once(r[k])
               /\ \A t \in Task : t \in ToSet(r[k]) <=> "RDY" \in ms[t] /\ cp[t] = k
    <3>1. /\ Once(rq[k])
          /\ \A t \in Task : t \in ToSet(rq[k]) <=> "RDY" \in ms[t] /\ cp[t] = k
          BY DEF OnRdq, OffRdq
    <3>2. CASE k = p BY <1>1, <1>5, <1>7, <3>1, <3>2
    <3>3. CASE k # p BY <1>7, <3>1, <3>3
    <3> QED BY <3>2, <3>3
  <2> QED BY <2>1 DEF OnRdq, OffRdq
<1>9. ASSUME NEW k \in 1..MaxPri, NEW t, ~(k >= p), First(rq, k, t) PROVE First(r, k, t)
  <2>1. r[k] = rq[k] BY <1>7, <1>9
  <2>2. \A q2 \in 1..(k - 1) : q2 \in 1..MaxPri /\ q2 # p BY <1>9, Constants
  <2>3. \A q2 \in 1..(k - 1) : r[q2] = rq[q2] BY <1>7, <2>2
  <2> QED BY <1>9, <2>1, <2>3 DEF First
<1> QED BY <1>7, <1>8, <1>9

LEMMA RotRdqStep ==
    ASSUME IInv, NEW p \in 1..MaxPri, RotRdq(p)
    PROVE  IInv'
<1>1. /\ rdq[p] # <<>> /\ rdq' = [rdq EXCEPT ![p] = Append(Tail(@), Head(@))]
      /\ UNCHANGED <<msts, wsts, cpri, act, wup, sus, semq, semcnt, timq, stime, pri, dsp,
                     systim, due>>
      /\ IF pri >= p THEN Redispatch ELSE UNCHANGED <<ctcb, rdsp>>
      BY DEF RotRdq, tcbs
<1>2. /\ rdq' \in [1..MaxPri -> Seq(Task)] /\ OnRdq(rdq', msts, cpri)
      /\ \A t : \A k \in 1..MaxPri : ~(k >= p) /\ First(rdq, k, t) => First(rdq', k, t)
  <2>1. PICK rq, r, ms, cp : rq = rdq /\ r = rdq' /\ ms = msts /\ cp = cpri OBVIOUS
  <2>2. /\ rq \in [1..MaxPri -> Seq(Task)] /\ OnRdq(rq, ms, cp) /\ p \in 1..MaxPri
        /\ rq[p] # <<>> /\ Rotated(r, rq, p)
        BY <1>1, <2>1, Parts DEF Rotated
  <2>3. /\ r \in [1..MaxPri -> Seq(Task)] /\ OnRdq(r, ms, cp)
        /\ \A t : \A k \in 1..MaxPri : ~(k >= p) /\ First(rq, k, t) => First(r, k, t)
        BY ONLY <2>2, RdqRotate
  <2> QED BY <2>1, <2>3
<1>3. Chosen' /\ ctcb' \in Task \cup {NONE} /\ rdsp' \in BOOLEAN
  <2>1. CASE pri >= p
    <3>1. ctcb # NONE => "RDY" \in msts'[ctcb] BY <1>1, Parts DEF Chosen, Ready
    <3>2. Redispatch /\ dsp' = dsp BY <1>1, <2>1
    <3> QED BY <3>1, <3>2, Parts, RedispatchChosen
  <2>2. CASE ~(pri >= p)
    <3>1. UNCHANGED <<ctcb, rdsp>> BY <1>1, <2>2
    <3>2. ASSUME ctcb # NONE, ~rdsp PROVE pri = cpri[ctcb] /\ First(rdq', pri, ctcb)
      <4>1. pri = cpri[ctcb] /\ First(rdq, pri, ctcb) /\ cpri[ctcb] \in 1..MaxPri
            BY <3>2, Parts DEF Chosen
      <4> QED BY <1>2, <2>2, <4>1
    <3> QED BY <1>1, <3>1, <3>2, Parts DEF Chosen, Ready
  <2> QED BY <2>1, <2>2
<1>4. TypeOK' BY <1>1, <1>2, <1>3, Parts DEF TypeOK
<1>5. Queues' /\ Flagged(msts', wsts') BY <1>1, <1>2, Parts DEF Queues
<1>6. Timed' /\ SuspensionCounted' /\ NoIdleResource'
      BY <1>1, Parts DEF Timed, SuspensionCounted, NoIdleResource, Waits
<1> QED BY <1>3, <1>4, <1>5, <1>6 DEF IInv

(* Flags of one task change, and its wait, if it still waits, does not. *)
LEMMA OneTaskFacts ==
    ASSUME IInv, NEW t \in Task,
           \A u \in Task \ {t} : msts'[u] = msts[u] /\ wsts'[u] = wsts[u] /\ sus'[u] = sus[u],
           Kind(msts'[t]),
           "WAI" \in msts'[t] => /\ "WAI" \in msts[t] /\ wsts'[t] = wsts[t]
                                 /\ "FIFO" \in msts'[t] <=> "FIFO" \in msts[t],
           "TMR" \in msts'[t] => "TMR" \in msts[t],
           "SUS" \in msts'[t] => sus'[t] > 0,
           UNCHANGED <<semcnt, stime, due>>
    PROVE  Flagged(msts', wsts') /\ Timed' /\ SuspensionCounted' /\ NoIdleResource'
<1>1. Flagged(msts, wsts) /\ Timed /\ SuspensionCounted /\ NoIdleResource BY Parts
<1>2. Flagged(msts', wsts')
  <2>1. ASSUME NEW u \in Task
        PROVE  /\ Kind(msts'[u])
               /\ "WAI" \in msts'[u] => wsts'[u] # NONE
               /\ \A s \in Sem : "WAI" \in msts'[u] /\ wsts'[u] = s =>
                        ("FIFO" \in msts'[u] <=> SemAttr[s] = "FIFO")
    <3>1. CASE u = t BY <1>1, <3>1 DEF Flagged
    <3>2. CASE u # t
      <4>1. msts'[u] = msts[u] /\ wsts'[u] = wsts[u] BY <3>2
      <4> QED BY ONLY <1>1, <4>1, u \in Task DEF Flagged
    <3> QED BY <3>1, <3>2
  <2> QED BY ONLY <2>1 DEF Flagged
<1>3. Timed'
  <2>1. ASSUME NEW u \in Task, "TMR" \in msts'[u] PROVE due'[u] = Value(stime'[u])
    <3>1. "TMR" \in msts[u] BY <2>1
    <3> QED BY <1>1, <3>1 DEF Timed
  <2> QED BY ONLY <2>1 DEF Timed
<1>4. SuspensionCounted'
  <2>1. ASSUME NEW u \in Task, "SUS" \in msts'[u] PROVE sus'[u] > 0
    <3>1. CASE u = t BY <2>1, <3>1
    <3>2. CASE u # t
      <4>1. "SUS" \in msts[u] /\ sus'[u] = sus[u] BY <2>1, <3>2
      <4> QED BY <1>1, <4>1 DEF SuspensionCounted
    <3> QED BY <3>1, <3>2
  <2> QED BY ONLY <2>1 DEF SuspensionCounted
<1>5. NoIdleResource'
  <2>1. ASSUME NEW s \in Sem, semcnt'[s] > 0, NEW u \in Task, "WAI" \in msts'[u], wsts'[u] = s
        PROVE  FALSE
    <3>1. "WAI" \in msts[u] /\ wsts[u] = s /\ semcnt[s] > 0
      <4>1. CASE u = t BY <2>1, <4>1
      <4>2. CASE u # t BY <2>1, <4>2
      <4> QED BY <4>1, <4>2
    <3> QED BY <1>1, <3>1 DEF NoIdleResource, Waits
  <2> QED BY <2>1 DEF NoIdleResource, Waits
<1> QED BY <1>2, <1>3, <1>4, <1>5

(* Where the flags of the other queues are as they were, so are these. *)
LEMMA SameWaits ==
    ASSUME IInv,
           \A u \in Task : /\ "WAI" \in msts'[u] <=> "WAI" \in msts[u]
                           /\ "WAI" \in msts[u] => wsts'[u] = wsts[u]
                           /\ "TMR" \in msts'[u] <=> "TMR" \in msts[u],
           UNCHANGED <<cpri, semq, timq, stime>>
    PROVE  OnSemq(semq', msts', wsts', cpri') /\ OnTimq(timq', msts', stime')
<1>1. OnSemq(semq', msts', wsts', cpri')
  <2>1. PICK sq, ms, ws, ms2, ws2, c : /\ sq = semq /\ ms = msts /\ ws = wsts /\ c = cpri
                                       /\ ms2 = msts' /\ ws2 = wsts'
        OBVIOUS
  <2>2. /\ \A u \in Task \ {} : /\ "WAI" \in ms2[u] <=> "WAI" \in ms[u]
                                /\ "WAI" \in ms[u] => ws2[u] = ws[u] /\ c[u] = c[u]
        /\ \A u \in Task \cap {} : "WAI" \in ms2[u] => ws2[u] \notin Sem
        BY <2>1
  <2>3. OffSemq(sq, ms, ws, c, {}) BY <2>1, Parts DEF OnSemq
  <2>4. OnSemq(sq, ms2, ws2, c) BY ONLY <2>2, <2>3, SemqStay
  <2> QED BY <2>1, <2>4
<1>2. OnTimq(timq', msts', stime')
  <2>1. OnTimq(timq, msts, stime) BY Parts
  <2> QED BY <2>1 DEF OnTimq, OffTimq
<1> QED BY <1>1, <1>2

LEMMA SusTskStep ==
    ASSUME IInv, NEW t \in Task, SusTsk(t)
    PROVE  IInv'
<1>1. /\ ~Dormant(t) /\ ~(ctcb = t /\ dsp) /\ sus[t] < MaxSus /\ sus' = [sus EXCEPT ![t] = @ + 1]
      /\ UNCHANGED <<wsts, cpri, act, wup, semq, semcnt, timq, stime, pri, dsp, rdsp, systim, due>>
      BY DEF SusTsk
<1>2. /\ sus' \in [Task -> 0..MaxSus] /\ sus'[t] > 0
      /\ \A u \in Task \ {t} : sus'[u] = sus[u]
  <2>1. sus \in [Task -> 0..MaxSus] /\ MaxSus \in Nat BY Parts, Constants
  <2>2. sus[t] + 1 \in 0..MaxSus /\ sus[t] + 1 > 0 BY ONLY <1>1, <2>1, t \in Task
  <2> QED BY ONLY <1>1, <2>1, <2>2, t \in Task
<1>3. PICK f : f = IF Ready(t) THEN {"SUS"} ELSE msts[t] \cup {"SUS"} OBVIOUS
<1>4. msts' = [msts EXCEPT ![t] = f] BY <1>3 DEF SusTsk
<1>5. msts'[t] = f /\ \A u \in Task \ {t} : msts'[u] = msts[u] BY <1>4, Parts
<1>6. /\ Kind(f) /\ "RDY" \notin f /\ "SUS" \in f /\ f \in SUBSET Flags
      /\ "WAI" \in f <=> "WAI" \in msts[t]
      /\ "TMR" \in f <=> "TMR" \in msts[t]
      /\ "FIFO" \in f <=> "FIFO" \in msts[t]
  <2>0. msts[t] \in SUBSET Flags BY Parts
  <2>1. CASE Ready(t)
    <3>1. f = {"SUS"} /\ msts[t] = {"RDY"} BY <1>3, <2>1, Parts, FlagFacts DEF Ready
    <3> QED BY <3>1 DEF Kind, Flags
  <2>2. CASE ~Ready(t)
    <3>1. f = msts[t] \cup {"SUS"} /\ "RDY" \notin msts[t] BY <1>3, <2>2 DEF Ready
    <3>2. "DMT" \notin msts[t] BY <1>1, Parts, FlagFacts DEF Dormant
    <3>3. "WAI" \notin msts[t] => msts[t] = {"SUS"} BY <3>1, <3>2, Parts, FlagFacts
    <3>4. Kind(f)
      <4>1. CASE "WAI" \in msts[t] BY <3>1, <3>2, <4>1 DEF Kind
      <4>2. CASE "WAI" \notin msts[t]
        <5>1. f = {"SUS"} BY <3>1, <3>3, <4>2
        <5> QED BY <5>1 DEF Kind
      <4> QED BY <4>1, <4>2
    <3> QED BY <2>0, <3>1, <3>4 DEF Flags
  <2> QED BY <2>1, <2>2
<1>7. Flagged(msts', wsts') /\ Timed' /\ SuspensionCounted' /\ NoIdleResource'
      BY <1>1, <1>2, <1>5, <1>6, OneTaskFacts
<1>8. OnSemq(semq', msts', wsts', cpri') /\ OnTimq(timq', msts', stime')
      BY <1>1, <1>5, <1>6, SameWaits
<1>9. rdq' \in [1..MaxPri -> Seq(Task)] /\ OnRdq(rdq', msts', cpri')
  <2>1. rdq' \in [1..MaxPri -> Seq(Task)] /\ OffRdq(rdq', msts, cpri, {t})
    <3>1. CASE Ready(t) BY <3>1, DroppedRdq DEF SusTsk
    <3>2. CASE ~Ready(t) BY <3>2, DroppedRdq, Parts DEF SusTsk, Ready
    <3> QED BY <3>1, <3>2
  <2>2. \A u \in Task \ {t} : ("RDY" \in msts'[u] <=> "RDY" \in msts[u]) /\ cpri'[u] = cpri[u]
        BY <1>1, <1>5
  <2>3. "RDY" \notin msts'[t] BY <1>5, <1>6
  <2> QED BY <2>1, <2>2, <2>3, RdqStay
<1>10. Chosen' /\ ctcb' \in Task \cup {NONE}
  <2>1. CASE ctcb = t
    <3>1. Ready(t) BY <2>1, Constants, Parts DEF Chosen
    <3>2. ctcb' = NONE BY <2>1, <3>1 DEF SusTsk
    <3> QED BY <1>1, <2>1, <3>2, Parts DEF Chosen
  <2>2. CASE ctcb # t
    <3>1. ctcb' = ctcb BY <2>2 DEF SusTsk
    <3>2. ctcb # NONE => "RDY" \in msts'[ctcb] BY <1>5, <2>2, Parts DEF Chosen, Ready
    <3>3. ctcb # NONE /\ ~rdsp => First(rdq', pri, ctcb)
      <4>1. CASE Ready(t) BY <2>2, <4>1, DroppedRdq DEF SusTsk
      <4>2. CASE ~Ready(t)
        <5>1. rdq' = rdq BY <4>2 DEF SusTsk
        <5> QED BY <5>1, Parts DEF Chosen
      <4> QED BY <4>1, <4>2
    <3> QED BY <1>1, <3>1, <3>2, <3>3, Parts DEF Chosen, Ready
  <2> QED BY <2>1, <2>2
<1>11. TypeOK'
  <2>1. msts' \in [Task -> SUBSET Flags] BY <1>4, <1>6, Parts
  <2> QED BY <1>1, <1>2, <1>9, <1>10, <2>1, Parts DEF TypeOK
<1> QED BY <1>7, <1>8, <1>9, <1>10, <1>11 DEF IInv, Queues

LEMMA RsmTskStep ==
    ASSUME IInv, NEW t \in Task, NEW force \in BOOLEAN, RsmTsk(t, force)
    PROVE  IInv'
<1>1. /\ "SUS" \in msts[t] /\ sus' = [sus EXCEPT ![t] = IF force THEN 0 ELSE @ - 1]
      /\ UNCHANGED <<cpri, act, wup, semq, semcnt, timq, stime, pri, dsp, systim, due>>
      BY DEF RsmTsk
<1>2. /\ sus' \in [Task -> 0..MaxSus] /\ sus'[t] \in Nat
      /\ \A u \in Task \ {t} : sus'[u] = sus[u]
  <2>1. sus \in [Task -> 0..MaxSus] /\ MaxSus \in Nat /\ sus[t] > 0
        BY <1>1, Parts, Constants DEF SuspensionCounted
  <2>2. sus[t] - 1 \in 0..MaxSus /\ 0 \in 0..MaxSus BY ONLY <2>1, t \in Task
  <2> QED BY ONLY <1>1, <2>1, <2>2, t \in Task
<1>3. CASE sus'[t] # 0
  <2>1. UNCHANGED <<msts, wsts, rdq, ctcb, rdsp>> BY <1>3 DEF RsmTsk
  <2>2. sus'[t] > 0 BY ONLY <1>2, <1>3
  <2>3. Kind(msts'[t]) BY <2>1, Parts DEF Flagged
  <2>4. Flagged(msts', wsts') /\ Timed' /\ SuspensionCounted' /\ NoIdleResource'
        BY <1>1, <1>2, <2>1, <2>2, <2>3, OneTaskFacts
  <2>5. Queues' BY <1>1, <2>1, Parts DEF Queues
  <2>6. Chosen' BY <1>1, <2>1, Parts DEF Chosen, Ready
  <2>7. TypeOK' BY <1>1, <1>2, <2>1, Parts DEF TypeOK
  <2> QED BY <2>4, <2>5, <2>6, <2>7 DEF IInv
<1>4. CASE sus'[t] = 0 /\ Waits(t)
  <2>1. msts' = [msts EXCEPT ![t] = @ \ {"SUS"}] /\ UNCHANGED <<wsts, rdq, ctcb, rdsp>>
        BY <1>4 DEF RsmTsk
  <2>2. PICK f : f = msts[t] \ {"SUS"} OBVIOUS
  <2>3. msts'[t] = f /\ \A u \in Task \ {t} : msts'[u] = msts[u] BY <2>1, <2>2, Parts
  <2>4. /\ "WAI" \in msts[t] /\ "WAI" \in f /\ Kind(f) /\ "SUS" \notin f /\ f \in SUBSET Flags
        /\ "RDY" \notin f /\ "RDY" \notin msts[t]
        /\ "TMR" \in f <=> "TMR" \in msts[t]
        /\ "FIFO" \in f <=> "FIFO" \in msts[t]
    <3>1. "WAI" \in msts[t] /\ "DMT" \notin msts[t] /\ "RDY" \notin msts[t]
          BY <1>4, Parts, FlagFacts DEF Waits
    <3>2. msts[t] \in SUBSET Flags BY Parts
    <3> QED BY <2>2, <3>1, <3>2 DEF Kind
  <2>5. Flagged(msts', wsts') /\ Timed' /\ SuspensionCounted' /\ NoIdleResource'
        BY <1>1, <1>2, <2>1, <2>3, <2>4, OneTaskFacts
  <2>6. OnSemq(semq', msts', wsts', cpri') /\ OnTimq(timq', msts', stime')
        BY <1>1, <2>1, <2>3, <2>4, SameWaits
  <2>7. \A u \in Task : "RDY" \in msts'[u] <=> "RDY" \in msts[u] BY <2>3, <2>4
  <2>8. OnRdq(rdq', msts', cpri') BY <1>1, <2>1, <2>7, Parts DEF OnRdq, OffRdq
  <2>9. Chosen' BY <1>1, <2>1, <2>7, Parts DEF Chosen, Ready
  <2>10. TypeOK'
    <3>1. msts' \in [Task -> SUBSET Flags] BY <2>1, <2>2, <2>4, Parts
    <3> QED BY <1>1, <1>2, <2>1, <3>1, Parts DEF TypeOK
  <2> QED BY <2>5, <2>6, <2>8, <2>9, <2>10 DEF IInv, Queues
<1>5. CASE sus'[t] = 0 /\ ~Waits(t)
  <2>1. /\ msts' = [msts EXCEPT ![t] = {"RDY"}] /\ wsts' = [wsts EXCEPT ![t] = NONE]
        /\ rdq' = [rdq EXCEPT ![cpri[t]] = Append(@, t)]
        /\ IF pri > cpri[t] THEN Redispatch ELSE UNCHANGED <<ctcb, rdsp>>
        BY <1>5 DEF RsmTsk
  <2>2. msts[t] = {"SUS"}
    <3>1. /\ "RDY" \in msts[t] => msts[t] = {"RDY"}
          /\ "DMT" \in msts[t] => msts[t] = {"DMT"}
          /\ "RDY" \notin msts[t] /\ "WAI" \notin msts[t] /\ "DMT" \notin msts[t] => msts[t] = {"SUS"}
          BY Parts, FlagFacts
    <3>2. "SUS" \in msts[t] /\ "WAI" \notin msts[t] BY <1>1, <1>5 DEF Waits
    <3> QED BY ONLY <3>1, <3>2
  <2>3. /\ msts'[t] = {"RDY"} /\ wsts'[t] = NONE
        /\ \A u \in Task \ {t} : msts'[u] = msts[u] /\ wsts'[u] = wsts[u]
        BY <2>1, Parts
  <2>4. Flagged(msts', wsts') /\ Timed' /\ SuspensionCounted' /\ NoIdleResource'
    <3>1. Kind(msts'[t]) BY <2>3 DEF Kind
    <3> QED BY <1>1, <1>2, <2>3, <3>1, OneTaskFacts
  <2>5. OnSemq(semq', msts', wsts', cpri') /\ OnTimq(timq', msts', stime')
    <3>1. \A u \in Task : /\ "WAI" \in msts'[u] <=> "WAI" \in msts[u]
                          /\ "WAI" \in msts[u] => wsts'[u] = wsts[u]
                          /\ "TMR" \in msts'[u] <=> "TMR" \in msts[u]
      <4> TAKE u \in Task
      <4>1. CASE u = t BY <2>2, <2>3, <4>1
      <4>2. CASE u # t BY <2>3, <4>2
      <4> QED BY <4>1, <4>2
    <3> QED BY <1>1, <3>1, SameWaits
  <2>6. rdq' \in [1..MaxPri -> Seq(Task)] /\ OnRdq(rdq', msts', cpri')
    <3>1. OffRdq(rdq, msts, cpri, {t}) BY <2>2, DroppedRdq
    <3>2. cpri' \in [Task -> 1..MaxPri] /\ rdq' = [rdq EXCEPT ![cpri'[t]] = Append(@, t)]
          BY <1>1, <2>1, Parts
    <3>3. \A u \in Task \ {t} : ("RDY" \in msts'[u] <=> "RDY" \in msts[u]) /\ cpri'[u] = cpri[u]
          BY <1>1, <2>3
    <3>4. "RDY" \in msts'[t] /\ rdq \in [1..MaxPri -> Seq(Task)] BY <2>3, Parts
    <3> QED BY <3>1, <3>2, <3>3, <3>4, BackRdq
  <2>7. Chosen' /\ ctcb' \in Task \cup {NONE} /\ rdsp' \in BOOLEAN
    <3>1. ctcb # NONE => ctcb # t /\ "RDY" \in msts'[ctcb]
          BY <2>2, <2>3, Parts DEF Chosen, Ready
    <3>2. CASE pri > cpri[t]
      <4>1. Redispatch /\ dsp' = dsp BY <1>1, <2>1, <3>2
      <4> QED BY <3>1, <4>1, Parts, RedispatchChosen
    <3>3. CASE ~(pri > cpri[t])
      <4>1. UNCHANGED <<ctcb, rdsp>> BY <2>1, <3>3
      <4>2. ASSUME ctcb # NONE, ~rdsp PROVE pri = cpri[ctcb] /\ First(rdq', pri, ctcb)
        <5>1. pri = cpri[ctcb] /\ First(rdq, pri, ctcb) BY <4>2, Parts DEF Chosen
        <5>2. rdq \in [1..MaxPri -> Seq(Task)] /\ cpri[t] \in 1..MaxPri BY Parts
        <5> QED BY <2>1, <3>3, <4>2, <5>1, <5>2, StaysFirst
      <4> QED BY <1>1, <3>1, <4>1, <4>2, Parts DEF Chosen, Ready
    <3> QED BY <3>2, <3>3
  <2>8. TypeOK'
    <3>1. {"RDY"} \in SUBSET Flags BY DEF Flags
    <3>2. msts' \in [Task -> SUBSET Flags] BY <2>1, <3>1, Parts
    <3>3. wsts' \in [Task -> {"SLP", "DLY", NONE} \cup Sem] BY <2>1, Parts
    <3> QED BY <1>1, <1>2, <2>6, <2>7, <3>2, <3>3, Parts DEF TypeOK
  <2> QED BY <2>4, <2>5, <2>6, <2>7, <2>8 DEF IInv, Queues
<1> QED BY <1>3, <1>4, <1>5

(* Which waits a tick ends. *)
LEMMA TickFacts ==
    ASSUME IInv, SigTim, NEW now, NEW over,
           now = systim', over = DueOf(timq, stime, systim')
    PROVE  /\ now \in Stamp /\ over \in Seq(Task) /\ Once(over) /\ ToSet(over) \subseteq Task
           /\ timq' \in Seq(Task) /\ Once(timq') /\ InTime(timq', stime)
           /\ \A t : t \in ToSet(over) <=> t \in ToSet(timq) /\ Value(stime[t]) <= Value(now)
           /\ \A t : t \in ToSet(timq') <=> t \in ToSet(timq) /\ Value(stime[t]) > Value(now)
           /\ \A t \in Task : t \in ToSet(timq) <=> "TMR" \in msts[t]
           /\ \E R, cp : Entering(over, R, cp)
<1>1. /\ systim' = Advance(systim, Tick) /\ timq' = RestOf(timq, stime, now)
      /\ EnqRdq(over, rdq, cpri) /\ cpri' = cpri
      BY DEF SigTim
<1>2. now \in Stamp BY <1>1, Parts, Constants, AdvanceExact
<1>3. PICK tq, st : tq = timq /\ st = stime OBVIOUS
<1>4. tq \in Seq(Task) /\ st \in [Task -> Stamp] /\ Once(tq) /\ InTime(tq, st)
      BY <1>3, Parts DEF OnTimq, OffTimq
<1>5. /\ over \in Seq(Task) /\ timq' \in Seq(Task) /\ Once(over) /\ Once(timq')
      /\ InTime(timq', stime)
      /\ \A t : t \in ToSet(over) <=> t \in ToSet(timq) /\ Value(stime[t]) <= Value(now)
      /\ \A t : t \in ToSet(timq') <=> t \in ToSet(timq) /\ Value(stime[t]) > Value(now)
      BY <1>1, <1>2, <1>3, <1>4, DueFacts
<1>6. EnqRdq(over, rdq, cpri') BY <1>1 DEF EnqRdq
<1>7. \E R, cp : Entering(over, R, cp) BY <1>5, <1>6, EnteringMeans
<1>8. \A t \in Task : t \in ToSet(timq) <=> "TMR" \in msts[t] BY Parts DEF OnTimq, OffTimq
<1> QED BY <1>2, <1>5, <1>7, <1>8, ToSetFacts

(* Every wait whose time has come ends. *)
LEMMA SigTimStep ==
    ASSUME IInv, SigTim
    PROVE  IInv'
<1>1. PICK now, over : now = systim' /\ over = DueOf(timq, stime, systim') OBVIOUS
<1>2. /\ semq' = SemqWithout({over[i] : i \in 1..Len(over)})
      /\ UNCHANGED <<cpri, act, wup, sus, semcnt, stime, pri, dsp, due>>
      BY <1>1 DEF SigTim
<1>4. /\ now \in Stamp /\ over \in Seq(Task) /\ timq' \in Seq(Task) /\ Once(over) /\ Once(timq')
      /\ InTime(timq', stime)
      /\ \A t : t \in ToSet(over) <=> t \in ToSet(timq) /\ Value(stime[t]) <= Value(now)
      /\ \A t : t \in ToSet(timq') <=> t \in ToSet(timq) /\ Value(stime[t]) > Value(now)
      /\ \A t \in Task : t \in ToSet(timq) <=> "TMR" \in msts[t]
      BY <1>1, TickFacts
<1>5. {over[i] : i \in 1..Len(over)} = ToSet(over) /\ ToSet(over) \subseteq Task BY <1>4, ToSetFacts
<1>6. /\ semq' \in [Sem -> [0..MaxPri -> Seq(Task)]]
      /\ OffSemq(semq', msts, wsts, cpri, ToSet(over))
      BY <1>2, <1>5, LeftSemq
<1>8. \A t \in Task : Value(stime[t]) \in Nat BY Parts, ValueType
<1>9. Value(now) \in Nat BY <1>4, ValueType
<1>10. OffTimq(timq', msts, stime, ToSet(over))
  <2>1. ASSUME NEW t \in Task
        PROVE  t \in ToSet(timq') <=> t \notin ToSet(over) /\ "TMR" \in msts[t]
    <3>1. Value(stime[t]) <= Value(now) <=> ~(Value(stime[t]) > Value(now)) BY <1>8, <1>9
    <3> QED BY <1>4, <3>1
  <2> QED BY <1>4, <2>1 DEF OffTimq
<1>11. \A t \in ToSet(over) : Waits(t) BY <1>4, <1>5, Parts, FlagFacts DEF Waits
<1>13. PICK R, cp : Entering(over, R, cp) BY <1>1, TickFacts
<1>14. /\ cpri' \in [Task -> 1..MaxPri] /\ \A t \in Task \ ToSet(over) : cpri'[t] = cpri[t]
       /\ act' \in [Task -> 0..MaxAct] /\ systim' \in Stamp
       BY <1>1, <1>2, <1>4, Parts
<1> QED BY <1>2, <1>4, <1>6, <1>10, <1>11, <1>13, <1>14, EnterStep

(* A task ends, having been taken off the ready queues. *)
LEMMA StartAnewFacts ==
    ASSUME IInv, NEW t \in Task, NEW q, q \in [1..MaxPri -> Seq(Task)],
           OffRdq(q, msts, cpri, {t}), StartAnewOrDormant(t, q)
    PROVE  /\ rdq' \in [1..MaxPri -> Seq(Task)] /\ OnRdq(rdq', msts', cpri')
           /\ act' \in [Task -> 0..MaxAct] /\ cpri' \in [Task -> 1..MaxPri]
           /\ msts' \in [Task -> SUBSET Flags]
           /\ msts'[t] \in {{"RDY"}, {"DMT"}}
           /\ \A u \in Task \ {t} : msts'[u] = msts[u] /\ cpri'[u] = cpri[u]
           /\ IF act[t] > 0 THEN rdq' = [q EXCEPT ![Ipri[t]] = Append(@, t)] ELSE rdq' = q
<1>0. {"RDY"} \in SUBSET Flags /\ {"DMT"} \in SUBSET Flags BY DEF Flags
<1>1. CASE act[t] > 0
  <2>1. /\ act' = [act EXCEPT ![t] = @ - 1] /\ cpri' = [cpri EXCEPT ![t] = Ipri[t]]
        /\ rdq' = [q EXCEPT ![Ipri[t]] = Append(@, t)] /\ msts' = [msts EXCEPT ![t] = {"RDY"}]
        BY <1>1 DEF StartAnewOrDormant
  <2>2. act' \in [Task -> 0..MaxAct]
    <3>1. act \in [Task -> 0..MaxAct] /\ MaxAct \in Nat BY Parts, Constants
    <3>2. act[t] - 1 \in 0..MaxAct BY ONLY <1>1, <3>1, t \in Task
    <3> QED BY ONLY <2>1, <3>1, <3>2, t \in Task
  <2>3. Ipri[t] \in 1..MaxPri BY Constants
  <2>4. /\ cpri' \in [Task -> 1..MaxPri] /\ cpri'[t] = Ipri[t]
        /\ \A u \in Task \ {t} : cpri'[u] = cpri[u]
        BY <2>1, <2>3, Parts
  <2>5. /\ msts' \in [Task -> SUBSET Flags] /\ msts'[t] = {"RDY"}
        /\ \A u \in Task \ {t} : msts'[u] = msts[u]
        BY <1>0, <2>1, Parts
  <2>6. rdq' = [q EXCEPT ![cpri'[t]] = Append(@, t)] BY <2>1, <2>4
  <2>7. \A u \in Task \ {t} : ("RDY" \in msts'[u] <=> "RDY" \in msts[u]) /\ cpri'[u] = cpri[u]
        BY <2>4, <2>5
  <2>8. rdq' \in [1..MaxPri -> Seq(Task)] /\ OnRdq(rdq', msts', cpri')
        BY <2>4, <2>5, <2>6, <2>7, BackRdq
  <2> QED BY <1>1, <2>1, <2>2, <2>4, <2>5, <2>8
<1>2. CASE ~(act[t] > 0)
  <2>1. rdq' = q /\ msts' = [msts EXCEPT ![t] = {"DMT"}] /\ UNCHANGED <<act, cpri>>
        BY <1>2 DEF StartAnewOrDormant
  <2>2. /\ msts' \in [Task -> SUBSET Flags] /\ msts'[t] = {"DMT"}
        /\ \A u \in Task \ {t} : msts'[u] = msts[u]
        BY <1>0, <2>1, Parts
  <2>3. /\ \A u \in Task \ {t} : ("RDY" \in msts'[u] <=> "RDY" \in msts[u]) /\ cpri'[u] = cpri[u]
        /\ "RDY" \notin msts'[t]
        BY <2>1, <2>2
  <2>4. OnRdq(rdq', msts', cpri') BY <2>1, <2>3, RdqStay
  <2> QED BY <1>2, <2>1, <2>2, <2>4, Parts
<1> QED BY <1>1, <1>2

(* The queues of the waits, once a task that ends has left them. *)
LEMMA EndedWaits ==
    ASSUME IInv, NEW t \in Task,
           OffSemq(semq', msts, wsts, cpri, {t}), OffTimq(timq', msts, stime, {t}),
           msts'[t] \in {{"RDY"}, {"DMT"}}, stime' = stime,
           \A u \in Task \ {t} : msts'[u] = msts[u] /\ cpri'[u] = cpri[u] /\ wsts'[u] = wsts[u]
    PROVE  OnSemq(semq', msts', wsts', cpri') /\ OnTimq(timq', msts', stime')
<1>1. OnSemq(semq', msts', wsts', cpri')
  <2>1. PICK sq, ms, ws, ms2, ws2, c, c2 : /\ sq = semq' /\ ms = msts /\ ws = wsts /\ c = cpri
                                           /\ ms2 = msts' /\ ws2 = wsts' /\ c2 = cpri'
        OBVIOUS
  <2>2. /\ \A u \in Task \ {t} : /\ "WAI" \in ms2[u] <=> "WAI" \in ms[u]
                                 /\ "WAI" \in ms[u] => ws2[u] = ws[u] /\ c2[u] = c[u]
        /\ \A u \in Task \cap {t} : "WAI" \in ms2[u] => ws2[u] \notin Sem
        /\ OffSemq(sq, ms, ws, c, {t})
        BY <2>1
  <2>3. OnSemq(sq, ms2, ws2, c2) BY ONLY <2>2, SemqStay
  <2> QED BY <2>1, <2>3
<1>2. OnTimq(timq', msts', stime')
  <2>1. /\ \A u \in Task \ {t} : "TMR" \in msts'[u] <=> "TMR" \in msts[u]
        /\ \A u \in Task \cap {t} : "TMR" \notin msts'[u]
        OBVIOUS
  <2> QED BY <2>1, TimqStay
<1> QED BY <1>1, <1>2

LEMMA ExtTskStep ==
    ASSUME IInv, NEW t \in Task, ExtTsk(t)
    PROVE  IInv'
<1>1. /\ ctcb = t /\ StartAnewOrDormant(t, RdqWithout(t)) /\ wsts' = [wsts EXCEPT ![t] = NONE]
      /\ ctcb' = NONE /\ dsp' = FALSE /\ rdsp' = FALSE
      /\ UNCHANGED <<wup, sus, semq, semcnt, timq, stime, pri, systim, due>>
      BY DEF ExtTsk
<1>2. msts[t] = {"RDY"} BY <1>1, Constants, Parts, FlagFacts DEF Chosen, Ready
<1>3. /\ rdq' \in [1..MaxPri -> Seq(Task)] /\ OnRdq(rdq', msts', cpri')
      /\ act' \in [Task -> 0..MaxAct] /\ cpri' \in [Task -> 1..MaxPri]
      /\ msts' \in [Task -> SUBSET Flags] /\ msts'[t] \in {{"RDY"}, {"DMT"}}
      /\ \A u \in Task \ {t} : msts'[u] = msts[u] /\ cpri'[u] = cpri[u]
      BY <1>1, DroppedRdq, StartAnewFacts
<1>4. /\ wsts' \in [Task -> {"SLP", "DLY", NONE} \cup Sem]
      /\ \A u \in Task \ {t} : wsts'[u] = wsts[u]
      BY <1>1, Parts
<1>5. OffSemq(semq', msts, wsts, cpri, {t}) /\ OffTimq(timq', msts, stime, {t})
      BY <1>1, <1>2, NotQueued DEF Waits
<1>6. OnSemq(semq', msts', wsts', cpri') /\ OnTimq(timq', msts', stime')
      BY <1>1, <1>3, <1>4, <1>5, EndedWaits
<1>7. Flagged(msts', wsts') /\ Timed' /\ SuspensionCounted' /\ NoIdleResource'
  <2>1. Kind(msts'[t]) BY <1>3 DEF Kind
  <2>2. "WAI" \notin msts'[t] /\ "TMR" \notin msts'[t] /\ "SUS" \notin msts'[t] BY <1>3
  <2>3. \A u \in Task \ {t} : msts'[u] = msts[u] /\ wsts'[u] = wsts[u] /\ sus'[u] = sus[u]
        BY <1>1, <1>3, <1>4
  <2> QED BY <1>1, <2>1, <2>2, <2>3, OneTaskFacts
<1>8. Chosen' BY <1>1 DEF Chosen
<1>9. TypeOK' BY <1>1, <1>3, <1>4, Parts DEF TypeOK
<1> QED BY <1>3, <1>6, <1>7, <1>8, <1>9 DEF IInv, Queues

LEMMA TerTskStep ==
    ASSUME IInv, NEW t \in Task, TerTsk(t)
    PROVE  IInv'
<1>0. PICK q : q = IF Ready(t) THEN RdqWithout(t) ELSE rdq OBVIOUS
<1>1. /\ ctcb # NONE /\ ctcb # t /\ StartAnewOrDormant(t, q)
      /\ wsts' = [wsts EXCEPT ![t] = IF act[t] > 0 THEN NONE ELSE @]
      /\ semq' = IF Waits(t) THEN SemqWithout({t}) ELSE semq
      /\ timq' = IF Waits(t) THEN TimqWithout(t) ELSE timq
      /\ IF act[t] > 0 /\ pri > Ipri[t] THEN Redispatch ELSE UNCHANGED <<ctcb, rdsp>>
      /\ UNCHANGED <<wup, sus, semcnt, stime, pri, dsp, systim, due>>
      BY <1>0 DEF TerTsk
<1>2. /\ q \in [1..MaxPri -> Seq(Task)] /\ OffRdq(q, msts, cpri, {t})
      /\ ctcb # NONE /\ ~rdsp => First(q, pri, ctcb)
  <2>1. CASE Ready(t) BY <1>0, <1>1, <2>1, DroppedRdq
  <2>2. CASE ~Ready(t) BY <1>0, <2>2, DroppedRdq, Parts DEF Ready, Chosen
  <2> QED BY <2>1, <2>2
<1>3. /\ rdq' \in [1..MaxPri -> Seq(Task)] /\ OnRdq(rdq', msts', cpri')
      /\ act' \in [Task -> 0..MaxAct] /\ cpri' \in [Task -> 1..MaxPri]
      /\ msts' \in [Task -> SUBSET Flags] /\ msts'[t] \in {{"RDY"}, {"DMT"}}
      /\ \A u \in Task \ {t} : msts'[u] = msts[u] /\ cpri'[u] = cpri[u]
      /\ IF act[t] > 0 THEN rdq' = [q EXCEPT ![Ipri[t]] = Append(@, t)] ELSE rdq' = q
      BY <1>1, <1>2, StartAnewFacts
<1>4. /\ wsts' \in [Task -> {"SLP", "DLY", NONE} \cup Sem]
      /\ \A u \in Task \ {t} : wsts'[u] = wsts[u]
      BY <1>1, Parts
<1>5. /\ semq' \in [Sem -> [0..MaxPri -> Seq(Task)]] /\ OffSemq(semq', msts, wsts, cpri, {t})
      /\ timq' \in Seq(Task) /\ OffTimq(timq', msts, stime, {t})
  <2>1. CASE Waits(t) BY <1>1, <2>1, LeftSemq, LeftTimq
  <2>2. CASE ~Waits(t)
    <3>1. "TMR" \notin msts[t] BY <2>2, Parts, FlagFacts DEF Waits
    <3> QED BY <1>1, <2>2, <3>1, NotQueued, Parts
  <2> QED BY <2>1, <2>2
<1>6. OnSemq(semq', msts', wsts', cpri') /\ OnTimq(timq', msts', stime')
      BY <1>1, <1>3, <1>4, <1>5, EndedWaits
<1>7. Flagged(msts', wsts') /\ Timed' /\ SuspensionCounted' /\ NoIdleResource'
  <2>1. Kind(msts'[t]) BY <1>3 DEF Kind
  <2>2. "WAI" \notin msts'[t] /\ "TMR" \notin msts'[t] /\ "SUS" \notin msts'[t] BY <1>3
  <2>3. \A u \in Task \ {t} : msts'[u] = msts[u] /\ wsts'[u] = wsts[u] /\ sus'[u] = sus[u]
        BY <1>1, <1>3, <1>4
  <2> QED BY <1>1, <2>1, <2>2, <2>3, OneTaskFacts
<1>8. Chosen' /\ ctcb' \in Task \cup {NONE} /\ rdsp' \in BOOLEAN
  <2>1. ctcb # NONE => "RDY" \in msts'[ctcb] BY <1>1, <1>3, Parts DEF Chosen, Ready
  <2>2. CASE act[t] > 0 /\ pri > Ipri[t]
    <3>1. Redispatch /\ dsp' = dsp BY <1>1, <2>2
    <3> QED BY <2>1, <3>1, Parts, RedispatchChosen
  <2>3. CASE ~(act[t] > 0 /\ pri > Ipri[t])
    <3>1. UNCHANGED <<ctcb, rdsp>> BY <1>1, <2>3
    <3>2. ASSUME ~rdsp PROVE pri = cpri'[ctcb] /\ First(rdq', pri, ctcb)
      <4>1. pri = cpri'[ctcb] /\ First(q, pri, ctcb) BY <1>1, <1>2, <1>3, <3>2, Parts DEF Chosen
      <4>2. First(rdq', pri, ctcb)
        <5>1. CASE act[t] > 0
          <6>1. Ipri[t] \in 1..MaxPri BY Constants
          <6>2. ~(pri > Ipri[t]) /\ rdq' = [q EXCEPT ![Ipri[t]] = Append(@, t)]
                BY <1>3, <2>3, <5>1
          <6>3. ctcb # NONE BY <1>1
          <6>4. q \in [1..MaxPri -> Seq(Task)] BY <1>2
          <6>5. PICK k : k = Ipri[t] OBVIOUS
          <6>6. First([q EXCEPT ![k] = Append(@, t)], pri, ctcb)
                BY <3>2, <4>1, <6>1, <6>2, <6>3, <6>4, <6>5, StaysFirst
          <6> QED BY <6>2, <6>5, <6>6
        <5>2. CASE ~(act[t] > 0) BY <1>3, <4>1, <5>2
        <5> QED BY <5>1, <5>2
      <4> QED BY <4>1, <4>2
    <3> QED BY <1>1, <2>1, <3>1, <3>2, Parts DEF Chosen, Ready
  <2> QED BY <2>2, <2>3
<1>9. TypeOK' BY <1>1, <1>3, <1>4, <1>5, <1>8, Parts DEF TypeOK
<1> QED BY <1>3, <1>6, <1>7, <1>8, <1>9 DEF IInv, Queues

(* A change of priority moves a ready task to the end of another queue,    *)
(* and a waiting one where the order is by priority.                       *)
LEMMA ChgPriStep ==
    ASSUME IInv, NEW t \in Task, NEW p \in 1..MaxPri, ChgPri(t, p)
    PROVE  IInv'
<1>1. /\ ~Dormant(t) /\ cpri' = [cpri EXCEPT ![t] = p]
      /\ rdq' = IF Ready(t) THEN [RdqWithout(t) EXCEPT ![p] = Append(@, t)] ELSE rdq
      /\ UNCHANGED <<msts, wsts, act, wup, sus, semcnt, timq, stime, dsp, systim, due>>
      BY DEF ChgPri
<1>2. cpri' \in [Task -> 1..MaxPri] /\ cpri'[t] = p /\ \A u \in Task \ {t} : cpri'[u] = cpri[u]
      BY <1>1, Parts
<1>3. rdq' \in [1..MaxPri -> Seq(Task)] /\ OnRdq(rdq', msts', cpri')
  <2>1. \A u \in Task \ {t} : ("RDY" \in msts'[u] <=> "RDY" \in msts[u]) /\ cpri'[u] = cpri[u]
        BY <1>1, <1>2
  <2>2. CASE Ready(t)
    <3>1. PICK q : q = RdqWithout(t) OBVIOUS
    <3>2. q \in [1..MaxPri -> Seq(Task)] /\ OffRdq(q, msts, cpri, {t}) BY <3>1, DroppedRdq
    <3>3. rdq' = [q EXCEPT ![cpri'[t]] = Append(@, t)] BY <1>1, <1>2, <2>2, <3>1
    <3>4. "RDY" \in msts'[t] BY <1>1, <2>2 DEF Ready
    <3> QED BY <1>2, <2>1, <3>2, <3>3, <3>4, BackRdq
  <2>3. CASE ~Ready(t)
    <3>1. rdq' = rdq /\ "RDY" \notin msts[t] /\ "RDY" \notin msts'[t] BY <1>1, <2>3 DEF Ready
    <3>2. OffRdq(rdq, msts, cpri, {t}) BY <3>1, DroppedRdq
    <3>3. OnRdq(rdq, msts', cpri') BY <2>1, <3>1, <3>2, RdqStay
    <3> QED BY <3>1, <3>3, Parts
  <2> QED BY <2>2, <2>3
<1>4. semq' \in [Sem -> [0..MaxPri -> Seq(Task)]] /\ OnSemq(semq', msts', wsts', cpri')
  <2>1. CASE Waits(t) /\ wsts[t] \in Sem /\ "FIFO" \notin msts[t]
    <3>1. PICK s \in Sem : s = wsts[t] BY <2>1
    <3>2. semq' = [SemqWithout({t}) EXCEPT ![s][p] = Append(@, t)] BY <2>1, <3>1 DEF ChgPri
    <3>3. SemAttr[s] # "FIFO" BY <2>1, <3>1, Parts, FlagFacts DEF Waits
    <3>4. p = Way(s, t, cpri') BY <1>2, <3>3 DEF Way
    <3>5. /\ SemqWithout({t}) \in [Sem -> [0..MaxPri -> Seq(Task)]]
          /\ OffSemq(SemqWithout({t}), msts, wsts, cpri, {t})
          BY LeftSemq
    <3>6. PICK sq, r, ms, ws, cp, cp2 : /\ sq = SemqWithout({t}) /\ r = semq' /\ ms = msts
                                        /\ ws = wsts /\ cp = cpri /\ cp2 = cpri'
          OBVIOUS
    <3>7. /\ sq \in [Sem -> [0..MaxPri -> Seq(Task)]] /\ OffSemq(sq, ms, ws, cp, {t})
          /\ t \in Task /\ cp2 \in [Task -> 1..MaxPri]
          /\ \A u \in Task \ {t} : /\ "WAI" \in ms[u] <=> "WAI" \in ms[u]
                                   /\ ws[u] = ws[u] /\ cp2[u] = cp[u]
          /\ s \in Sem /\ "WAI" \in ms[t] /\ ws[t] = s /\ p = Way(s, t, cp2)
          /\ LinkedAt(r, sq, s, p, t)
          BY <1>2, <2>1, <3>1, <3>2, <3>4, <3>5, <3>6 DEF LinkedAt, Waits
    <3>8. r \in [Sem -> [0..MaxPri -> Seq(Task)]] /\ OnSemq(r, ms, ws, cp2)
          BY ONLY <3>7, SemqEnter
    <3> QED BY <1>1, <3>6, <3>8
  <2>2. CASE ~(Waits(t) /\ wsts[t] \in Sem /\ "FIFO" \notin msts[t])
    <3>1. semq' = semq BY <2>2 DEF ChgPri
    <3>2. ASSUME NEW s \in Sem, NEW u \in Task, "WAI" \in msts[u], wsts[u] = s
          PROVE  Way(s, u, cpri') = Way(s, u, cpri)
      <4>1. CASE u = t
        <5>1. "FIFO" \in msts[t] BY <2>2, <3>2, <4>1 DEF Waits
        <5>2. SemAttr[s] = "FIFO" BY <3>2, <4>1, <5>1, Parts, FlagFacts
        <5> QED BY <5>2 DEF Way
      <4>2. CASE u # t BY <1>2, <4>2 DEF Way
      <4> QED BY <4>1, <4>2
    <3>3. OnSemq(semq, msts, wsts, cpri')
      <4>1. ASSUME NEW s \in Sem, NEW k \in 0..MaxPri
            PROVE  /\ Once(semq[s][k])
                   /\ \A u \in Task : u \in ToSet(semq[s][k]) <=>
                         "WAI" \in msts[u] /\ wsts[u] = s /\ k = Way(s, u, cpri')
        <5>1. /\ Once(semq[s][k])
              /\ \A u \in Task : u \in ToSet(semq[s][k]) <=>
                    "WAI" \in msts[u] /\ wsts[u] = s /\ k = Way(s, u, cpri)
              BY Parts DEF OnSemq, OffSemq
        <5> QED BY ONLY <3>2, <5>1, s \in Sem
      <4> QED BY <4>1 DEF OnSemq, OffSemq
    <3> QED BY <1>1, <3>1, <3>3, Parts
  <2> QED BY <2>1, <2>2
<1>5. Chosen' /\ ctcb' \in Task \cup {NONE} /\ rdsp' \in BOOLEAN /\ pri' \in 1..(MaxPri + 1)
  <2>a. ctcb # NONE => "RDY" \in msts[ctcb] /\ cpri[ctcb] \in 1..MaxPri
        BY Parts DEF Chosen, Ready
  <2>b. p \in 1..(MaxPri + 1) /\ p \in Nat /\ pri \in Nat
    <3>1. MaxPri \in Nat /\ pri \in 1..(MaxPri + 1) BY Parts, Constants
    <3> QED BY ONLY <3>1, p \in 1..MaxPri
  <2>0. /\ ctcb # NONE => "RDY" \in msts[ctcb] /\ cpri[ctcb] \in 1..MaxPri
        /\ p \in 1..(MaxPri + 1) /\ p \in Nat /\ pri \in Nat
        BY ONLY <2>a, <2>b
  <2>5. pri > p <=> ~(pri <= p) BY ONLY <2>b
  <2>1. CASE Ready(t) /\ ctcb = t /\ pri > p
    <3>1. pri' = p /\ UNCHANGED <<ctcb, rdsp>> BY <2>1, <2>5 DEF ChgPri
    <3>2. ASSUME ~rdsp PROVE First(rdq', p, t)
      <4>1. pri = cpri[t] /\ First(rdq, pri, t) /\ pri \in 1..MaxPri
        <5>1. ctcb # NONE /\ ctcb = t BY ONLY <2>1, t \in Task, Constants
        <5>2. Chosen /\ cpri \in [Task -> 1..MaxPri] BY Parts
        <5>3. pri = cpri[ctcb] /\ First(rdq, pri, ctcb)
              BY ONLY <3>2, <5>1, <5>2 DEF Chosen
        <5> QED BY ONLY <5>1, <5>2, <5>3, t \in Task
      <4>2. PICK q : q = RdqWithout(t) OBVIOUS
      <4>3. q \in [1..MaxPri -> Seq(Task)] /\ \A k \in 1..MaxPri : k # cpri[t] => q[k] = rdq[k]
            BY <4>2, DroppedRdq
      <4>4. \A k \in 1..p : k \in 1..MaxPri /\ k \in 1..(pri - 1) /\ k # cpri[t]
        <5>1. p < pri /\ p \in Nat /\ pri \in 1..MaxPri /\ pri = cpri[t] /\ MaxPri \in Nat
              BY <2>0, <2>1, <4>1, Constants
        <5> QED BY ONLY <5>1
      <4>5. \A k \in 1..p : q[k] = <<>> BY <4>1, <4>3, <4>4 DEF First
      <4>6. rdq' = [q EXCEPT ![p] = Append(@, t)] BY <1>1, <2>1, <4>2
      <4>7. rdq'[p] = Append(q[p], t) /\ \A k \in 1..(p - 1) : rdq'[k] = q[k] BY <4>3, <4>4, <4>6
      <4>8. q[p] = <<>> /\ \A k \in 1..(p - 1) : q[k] = <<>> BY <2>0, <4>5
      <4>9. <<>> \in Seq(Task) OBVIOUS
      <4>10. Append(q[p], t) # <<>> /\ Head(Append(q[p], t)) = t BY <4>8, <4>9, AppendOnce
      <4> QED BY <4>7, <4>8, <4>10 DEF First
    <3> QED BY <1>1, <1>2, <2>0, <2>1, <3>1, <3>2, Parts DEF Chosen, Ready
  <2>2. CASE Ready(t) /\ ((ctcb = t /\ pri <= p) \/ (ctcb # t /\ pri > p))
    <3>1. Redispatch /\ pri' = pri
      <4>1. ~(ctcb = t /\ pri > p) BY <2>0, <2>2
      <4> QED BY <2>2, <4>1 DEF ChgPri
    <3>2. ctcb # NONE => "RDY" \in msts'[ctcb] BY <1>1, <2>0
    <3>3. dsp' = dsp BY <1>1
    <3> QED BY <3>1, <3>2, <3>3, Parts, RedispatchChosen
  <2>3. CASE ~Ready(t) \/ (ctcb # t /\ ~(pri > p))
    <3>1. UNCHANGED <<pri, ctcb, rdsp>> BY <2>3 DEF ChgPri
    <3>2. ctcb # NONE => ctcb # t BY <2>0, <2>3 DEF Ready
    <3>3. ASSUME ctcb # NONE, ~rdsp PROVE pri = cpri'[ctcb] /\ First(rdq', pri, ctcb)
      <4>1. pri = cpri[ctcb] /\ First(rdq, pri, ctcb) BY <3>3, Parts DEF Chosen
      <4>2. cpri'[ctcb] = cpri[ctcb] BY <1>2, <3>2, <3>3, Parts
      <4>3. CASE ~Ready(t) BY <1>1, <4>1, <4>2, <4>3
      <4>4. CASE Ready(t)
        <5>1. PICK q : q = RdqWithout(t) OBVIOUS
        <5>2. q \in [1..MaxPri -> Seq(Task)] /\ First(q, pri, ctcb)
              BY <3>2, <3>3, <5>1, DroppedRdq
        <5>3. ~(pri > p) BY <2>3, <4>4
        <5>4. First([q EXCEPT ![p] = Append(@, t)], pri, ctcb)
              BY <3>3, <5>2, <5>3, StaysFirst
        <5> QED BY <1>1, <4>1, <4>2, <4>4, <5>1, <5>4
      <4> QED BY <4>3, <4>4
    <3> QED BY <1>1, <2>0, <3>1, <3>3, Parts DEF Chosen, Ready
  <2> QED BY <2>1, <2>2, <2>3, <2>5
<1>6. TypeOK' BY <1>1, <1>2, <1>3, <1>4, <1>5, Parts DEF TypeOK
<1>7. OnTimq(timq', msts', stime') /\ Flagged(msts', wsts') BY <1>1, Parts
<1>8. Timed' /\ SuspensionCounted' /\ NoIdleResource'
      BY <1>1, Parts DEF Timed, SuspensionCounted, NoIdleResource, Waits
<1> QED BY <1>3, <1>4, <1>5, <1>6, <1>7, <1>8 DEF IInv, Queues

-----------------------------------------------------------------------------
(* THE INVARIANT                                                           *)

LEMMA InitHolds == Init => IInv
<1> SUFFICES ASSUME Init PROVE IInv
    OBVIOUS
<1>1. /\ msts = [t \in Task |-> {"DMT"}] /\ wsts = [t \in Task |-> NONE] /\ cpri = Ipri
      /\ act = [t \in Task |-> 0] /\ wup = act /\ sus = act
      /\ rdq = [p \in 1..MaxPri |-> <<>>]
      /\ semq = [s \in Sem |-> [p \in 0..MaxPri |-> <<>>]] /\ semcnt = IsemCnt
      /\ timq = <<>> /\ stime = [t \in Task |-> Zero] /\ systim = Zero
      /\ ctcb = NONE /\ pri = MaxPri + 1 /\ dsp = FALSE /\ rdsp = FALSE
      /\ due = [t \in Task |-> 0]
      BY DEF Init
<1>2. <<>> \in Seq(Task) /\ ToSet(<<>>) = {} /\ Once(<<>>) /\ Len(<<>>) = 0
  <2>1. <<>> \in Seq(Task) OBVIOUS
  <2> QED BY <2>1, ToSetFacts
<1>3. TypeOK
  <2>1. {"DMT"} \in SUBSET Flags BY DEF Flags
  <2>2. msts \in [Task -> SUBSET Flags] /\ wsts \in [Task -> {"SLP", "DLY", NONE} \cup Sem]
        BY <1>1, <2>1
  <2>3. 0 \in 0..MaxAct /\ 0 \in 0..MaxWup /\ 0 \in 0..MaxSus /\ MaxPri + 1 \in 1..(MaxPri + 1)
        BY Constants
  <2>4. /\ cpri \in [Task -> 1..MaxPri] /\ act \in [Task -> 0..MaxAct]
        /\ wup \in [Task -> 0..MaxWup] /\ sus \in [Task -> 0..MaxSus] /\ due \in [Task -> Nat]
        BY <1>1, <2>3, Constants
  <2>5. /\ rdq \in [1..MaxPri -> Seq(Task)] /\ semq \in [Sem -> [0..MaxPri -> Seq(Task)]]
        /\ timq \in Seq(Task)
        BY <1>1, <1>2
  <2>6. Zero \in Stamp BY WordFacts DEF Zero, Stamp, UW
  <2>7. stime \in [Task -> Stamp] /\ systim \in Stamp BY <1>1, <2>6
  <2>8. semcnt \in [Sem -> Nat] /\ \A s \in Sem : semcnt[s] <= MaxSem[s]
        BY <1>1, TaskSyncAssumption
  <2>9. ctcb \in Task \cup {NONE} /\ pri \in 1..(MaxPri + 1) /\ dsp \in BOOLEAN /\ rdsp \in BOOLEAN
        BY <1>1, <2>3
  <2> QED BY <2>2, <2>4, <2>5, <2>7, <2>8, <2>9 DEF TypeOK
<1>4. \A t \in Task : msts[t] = {"DMT"} BY <1>1
<1>5. OnRdq(rdq, msts, cpri) BY <1>1, <1>2, <1>4 DEF OnRdq, OffRdq
<1>6. OnSemq(semq, msts, wsts, cpri)
  <2>1. \A s \in Sem, p \in 0..MaxPri : semq[s][p] = <<>> BY <1>1
  <2> QED BY <1>2, <1>4, <2>1 DEF OnSemq, OffSemq
<1>7. OnTimq(timq, msts, stime) BY <1>1, <1>2, <1>4 DEF OnTimq, OffTimq, InTime
<1>8. Flagged(msts, wsts) BY <1>4 DEF Flagged, Kind
<1>9. Timed /\ SuspensionCounted /\ NoIdleResource
      BY <1>4 DEF Timed, SuspensionCounted, NoIdleResource, Waits
<1>10. Chosen BY <1>1 DEF Chosen
<1> QED BY <1>3, <1>5, <1>6, <1>7, <1>8, <1>9, <1>10 DEF IInv, Queues

LEMMA StutterHolds == IInv /\ UNCHANGED vars => IInv'
<1> SUFFICES ASSUME IInv, UNCHANGED vars PROVE IInv'
    OBVIOUS
<1>1. UNCHANGED <<msts, wsts, cpri, act, wup, sus, rdq, semq, semcnt, timq, stime,
                  ctcb, pri, dsp, rdsp, systim, due>>
      BY DEF vars, tcbs, queues, system
<1>2. Chosen' BY <1>1, Parts DEF Chosen, Ready
<1>3. \A s \in Sem : semcnt'[s] <= MaxSem[s] /\ (semcnt'[s] > 0 => semcnt[s] > 0) BY <1>1, Parts
<1> QED BY <1>1, <1>2, <1>3, Parts, QuietStep

LEMMA NextHolds == IInv /\ [Next]_vars => IInv'
<1> SUFFICES ASSUME IInv, [Next]_vars PROVE IInv'
    OBVIOUS
<1>1. ASSUME NEW t \in Task,
             \/ ActTsk(t) \/ StaTsk(t) \/ CanAct(t) \/ ExtTsk(t) \/ TerTsk(t)
             \/ WupTsk(t) \/ CanWup(t) \/ RelWai(t) \/ SusTsk(t)
      PROVE  IInv'
  <2>1. CASE ActTsk(t) BY <2>1, ActTskStep
  <2>2. CASE StaTsk(t) BY <2>2, ActTskStep DEF StaTsk
  <2>3. CASE CanAct(t) BY <2>3, CancelStep
  <2>4. CASE ExtTsk(t) BY <2>4, ExtTskStep
  <2>5. CASE TerTsk(t) BY <2>5, TerTskStep
  <2>6. CASE WupTsk(t) BY <2>6, WupTskStep
  <2>7. CASE CanWup(t) BY <2>7, CancelStep
  <2>8. CASE RelWai(t) BY <2>8, RelWaiStep
  <2>9. CASE SusTsk(t) BY <2>9, SusTskStep
  <2> QED BY <1>1, <2>1, <2>2, <2>3, <2>4, <2>5, <2>6, <2>7, <2>8, <2>9
<1>2. ASSUME NEW t \in Task, NEW force \in BOOLEAN, RsmTsk(t, force) PROVE IInv'
      BY <1>2, RsmTskStep
<1>3. ASSUME NEW t \in Task, NEW p \in 1..MaxPri, ChgPri(t, p) PROVE IInv' BY <1>3, ChgPriStep
<1>4. ASSUME NEW t \in Task, NEW d \in Timeout \cup {0}, SlpTsk(t, d) PROVE IInv'
      BY <1>4, SlpTskStep
<1>5. ASSUME NEW t \in Task, NEW d \in Timeouts, DlyTsk(t, d) PROVE IInv' BY <1>5, DlyTskStep
<1>6. ASSUME NEW t \in Task, NEW s \in Sem, NEW d \in Timeout, WaiSem(t, s, d) PROVE IInv'
      BY <1>6, WaiSemStep
<1>7. ASSUME NEW s \in Sem, PolSem(s) \/ SigSem(s) PROVE IInv' BY <1>7, PolSemStep, SigSemStep
<1>8. ASSUME NEW p \in 1..MaxPri, RotRdq(p) PROVE IInv' BY <1>8, RotRdqStep
<1>9. CASE SigTim \/ DisDsp \/ EnaDsp \/ Dispatch BY <1>9, SigTimStep, DspStep, DispatchStep
<1>10. CASE UNCHANGED vars BY <1>10, StutterHolds
<1> QED BY <1>1, <1>2, <1>3, <1>4, <1>5, <1>6, <1>7, <1>8, <1>9, <1>10 DEF Next

(* IInv holds in every reachable state. *)
THEOREM Invariance == Spec => []IInv
<1> QED BY InitHolds, NextHolds, PTL DEF Spec

(* The variables keep their types: no counter leaves its limits, and only  *)
(* tasks are ever linked to a queue.                                       *)
THEOREM TypeCorrect == Spec => []TypeOK
<1>1. IInv => TypeOK BY DEF IInv
<1> QED BY <1>1, Invariance, PTL

LEMMA QueuesMatchInv == IInv => QueuesMatchState
<1> SUFFICES ASSUME IInv, NEW t \in Task
             PROVE  /\ \A p \in 1..MaxPri :
                          Times(rdq[p], t) = IF Ready(t) /\ cpri[t] = p THEN 1 ELSE 0
                    /\ \A s \in Sem, p \in 0..MaxPri :
                          Times(semq[s][p], t) =
                             IF Waits(t) /\ wsts[t] = s
                                /\ p = (IF SemAttr[s] = "FIFO" THEN 0 ELSE cpri[t])
                             THEN 1 ELSE 0
                    /\ Times(timq, t) = IF "TMR" \in msts[t] THEN 1 ELSE 0
    BY DEF QueuesMatchState
<1>1. ASSUME NEW p \in 1..MaxPri
      PROVE  Times(rdq[p], t) = IF Ready(t) /\ cpri[t] = p THEN 1 ELSE 0
  <2>1. /\ rdq[p] \in Seq(Task) /\ Once(rdq[p])
        /\ t \in ToSet(rdq[p]) <=> Ready(t) /\ cpri[t] = p
        BY Parts DEF OnRdq, OffRdq, Ready
  <2>2. Times(rdq[p], t) = IF t \in ToSet(rdq[p]) THEN 1 ELSE 0 BY <2>1, TimesOnce
  <2> QED BY <2>1, <2>2
<1>2. ASSUME NEW s \in Sem, NEW p \in 0..MaxPri
      PROVE  Times(semq[s][p], t) =
                IF Waits(t) /\ wsts[t] = s /\ p = (IF SemAttr[s] = "FIFO" THEN 0 ELSE cpri[t])
                THEN 1 ELSE 0
  <2>1. /\ semq[s][p] \in Seq(Task) /\ Once(semq[s][p])
        /\ t \in ToSet(semq[s][p]) <=> Waits(t) /\ wsts[t] = s /\ p = Way(s, t, cpri)
    <3>1. OnSemq(semq, msts, wsts, cpri) /\ semq \in [Sem -> [0..MaxPri -> Seq(Task)]] BY Parts
    <3>2. semq[s][p] \in Seq(Task) BY ONLY <3>1, s \in Sem, p \in 0..MaxPri
    <3>3. /\ Once(semq[s][p])
          /\ t \in ToSet(semq[s][p]) <=> "WAI" \in msts[t] /\ wsts[t] = s /\ p = Way(s, t, cpri)
          BY ONLY <3>1, s \in Sem, p \in 0..MaxPri, t \in Task DEF OnSemq, OffSemq
    <3> QED BY <3>2, <3>3 DEF Waits
  <2>2. Times(semq[s][p], t) = IF t \in ToSet(semq[s][p]) THEN 1 ELSE 0 BY <2>1, TimesOnce
  <2> QED BY <2>1, <2>2 DEF Way
<1>3. Times(timq, t) = IF "TMR" \in msts[t] THEN 1 ELSE 0
  <2>1. timq \in Seq(Task) /\ Once(timq) /\ (t \in ToSet(timq) <=> "TMR" \in msts[t])
        BY Parts DEF OnTimq, OffTimq
  <2>2. Times(timq, t) = IF t \in ToSet(timq) THEN 1 ELSE 0 BY <2>1, TimesOnce
  <2> QED BY <2>1, <2>2
<1> QED BY <1>1, <1>2, <1>3

(* Where a service would unlink a task, by its flags, the reason of its    *)
(* wait and its current priority, is where the task is, and nowhere else.  *)
THEOREM QueuesMatch == Spec => []QueuesMatchState
<1> QED BY QueuesMatchInv, Invariance, PTL

(* The count covers the suspensions, so that resuming does not count below *)
(* zero.                                                                   *)
THEOREM SuspensionsCounted == Spec => []SuspensionCounted
<1>1. IInv => SuspensionCounted BY DEF IInv
<1> QED BY <1>1, Invariance, PTL

(* No task waits for a semaphore that has resources. *)
THEOREM ResourcesHandedOn == Spec => []NoIdleResource
<1>1. IInv => NoIdleResource BY DEF IInv
<1> QED BY <1>1, Invariance, PTL

(* The task that Chosen describes is the one HighestReady is. *)
LEMMA ChosenRuns ==
    ASSUME Chosen, ctcb \in Task \cup {NONE}, cpri \in [Task -> 1..MaxPri]
    PROVE  RunsMostUrgent
<1>1. Chosen OBVIOUS
<1>2. ASSUME ctcb # NONE, ~(dsp /\ rdsp) PROVE ctcb = HighestReady
  <2>1. pri = cpri[ctcb] /\ First(rdq, pri, ctcb) BY <1>1, <1>2 DEF Chosen
  <2>2. pri \in 1..MaxPri
    <3>1. ctcb \in Task BY <1>2
    <3> QED BY <2>1, <3>1
  <2>3. PICK p : p = CHOOSE k \in Urgent : \A q \in Urgent : k <= q OBVIOUS
  <2>4. Urgent \in SUBSET Nat BY Constants DEF Urgent
  <2>5. pri \in Urgent BY <2>1, <2>2 DEF Urgent, First
  <2>6. p \in Urgent /\ p <= pri BY <2>3, <2>4, <2>5, LeastOf
  <2>7. p \in 1..MaxPri /\ rdq[p] # <<>> BY <2>6 DEF Urgent
  <2>8. p = pri
    <3>1. p \notin 1..(pri - 1) BY <2>1, <2>7 DEF First
    <3>2. p \in 1..MaxPri /\ p <= pri /\ pri \in 1..MaxPri /\ MaxPri \in Nat
          BY <2>2, <2>6, <2>7, Constants
    <3> QED BY ONLY <3>1, <3>2
  <2>9. HighestReady = Head(rdq[pri]) BY <2>3, <2>8 DEF HighestReady
  <2> QED BY <2>1, <2>9 DEF First
<1> QED BY <1>1, <1>2 DEF RunsMostUrgent, Chosen

(* Whoever runs is the first of the most urgent ready tasks, whatever      *)
(* service was the last, unless a dispatch is put off.                     *)
THEOREM MostUrgentRuns == Spec => []RunsMostUrgent
<1>1. IInv => RunsMostUrgent BY Parts, ChosenRuns
<1> QED BY <1>1, Invariance, PTL

LEMMA TickExact ==
    ASSUME IInv, SigTim, NEW t \in Task, "TMR" \in msts[t]
    PROVE  Waits(t)' <=> due[t] > Value(systim')
<1>1. PICK now, over : now = systim' /\ over = DueOf(timq, stime, systim') OBVIOUS
<1>2. /\ now \in Stamp /\ over \in Seq(Task)
      /\ t \in ToSet(over) <=> Value(stime[t]) <= Value(now)
      BY <1>1, TickFacts
<1>3. PICK R, cp : Entering(over, R, cp) BY <1>1, TickFacts
<1>4. /\ t \in R => msts'[t] = {"RDY"}
      /\ t \in ToSet(over) \ R => msts'[t] = {"SUS"}
      /\ t \notin ToSet(over) => msts'[t] = msts[t]
      BY <1>3 DEF Entering
<1>5. "WAI" \in msts[t] BY Parts, FlagFacts
<1>6. "WAI" \in msts'[t] <=> t \notin ToSet(over) BY <1>4, <1>5
<1>7. due[t] = Value(stime[t]) /\ Value(stime[t]) \in Nat /\ Value(now) \in Nat
      BY <1>2, Parts, ValueType DEF Timed
<1>8. due[t] > Value(now) <=> ~(Value(stime[t]) <= Value(now)) BY <1>7
<1>9. Waits(t)' <=> "WAI" \in msts'[t] BY DEF Waits
<1> QED BY <1>1, <1>2, <1>6, <1>8, <1>9

(* A tick ends exactly the waits whose time has come. *)
THEOREM TimeoutsAlwaysExact == Spec => TimeoutsExact
<1>1. IInv /\ [Next]_vars =>
        [SigTim => \A t \in Task : "TMR" \in msts[t] =>
                      (Waits(t)' <=> due[t] > Value(systim'))]_vars
      BY TickExact
<1> QED BY <1>1, Invariance, PTL DEF Spec, TimeoutsExact
=============================================================================
