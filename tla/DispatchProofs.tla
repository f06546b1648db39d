--------------------------- MODULE DispatchProofs ---------------------------
(***************************************************************************)
(* Proofs about Dispatch, for any tasks, any number of system service      *)
(* blocks and any depth of interrupt nesting.                              *)
(***************************************************************************)
EXTENDS Dispatch, QueueLemmas

(* Which levels have a service in progress: what the exit of an interrupt  *)
(* may abandon has none.                                                   *)
LevelInv ==
    /\ lv \in {"deq", "sel", "res", "task", "idle"} => cssb = NONE
    /\ lv = "exec" => cssb # NONE
    /\ lv = "rel" => cssb \in SSB
    /\ ssbq \in Seq(SSB)

(* The inductive invariant: a block can be called conserved only if the     *)
(* levels are right about who is in service, and the count has its type    *)
(* only because it counts the free blocks.                                 *)
IInv == TypeOK /\ LevelInv /\ SSBConserved /\ PostsDrained

(* LEMMA: the scheduler's choice is a task, or nobody. *)
LEMMA HighestReadyType ==
    ASSUME TypeOK
    PROVE  HighestReady \in Task \cup {NONE}
<1>1. CASE Urgent = {}
  BY <1>1 DEF HighestReady
<1>2. CASE Urgent # {}
  <2> DEFINE m == CHOOSE p \in Urgent : TRUE
  <2>1. m \in Urgent
    BY <1>2
  <2>2. rdq[m] \in Seq(Task) /\ rdq[m] # <<>>
    BY <2>1 DEF Urgent, TypeOK
  <2>3. Head(rdq[m]) \in Task
    BY <2>2
  <2> QED
    BY <1>2, <2>3 DEF HighestReady
<1> QED
  BY <1>1, <1>2

(* LEMMA: taking a task off a queue leaves a queue of tasks. *)
LEMMA DeqTCBType ==
    ASSUME NEW q \in Seq(Task), NEW t
    PROVE  DeqTCB(q, t) \in Seq(Task)
<1>1. CASE RemoveFirst(q, t) = q
  BY <1>1 DEF DeqTCB
<1>2. CASE \E k \in 1..Len(q) : RemoveFirst(q, t) = RemoveAt(q, k)
  BY <1>2, RemoveAtFacts DEF DeqTCB
<1> QED
  BY <1>1, <1>2, RemoveFirstAt

(* LEMMA: a function stays one when it is updated within its range. *)
LEMMA UpdateType ==
    ASSUME NEW D, NEW R, NEW f \in [D -> R], NEW x \in D, NEW y \in R
    PROVE  [f EXCEPT ![x] = y] \in [D -> R]
OBVIOUS

(* LEMMA: a request for a service names a task or a priority. *)
LEMMA RequestType ==
    ASSUME NEW r \in Request \cup {Served}
    PROVE  /\ r.op \in {"slp", "wup"} => r.tsk \in Task
           /\ r.op = "rot" => r.pri \in 1..MaxPri
BY DEF Request, Served

(* LEMMA: at the exec level there is a service to execute. *)
LEMMA ExecCssb ==
    ASSUME TypeOK, LevelInv, lv = "exec"
    PROVE  cssb \in Task \cup SSB /\ par[cssb] \in Request \cup {Served}
BY DEF TypeOK, LevelInv

(* LEMMA: what a queue of blocks holds after a post, and after a service   *)
(* took the first one; both keep the blocks of a queue distinct.           *)
LEMMA BlocksAppend ==
    ASSUME NEW S, NEW s \in Seq(S), NEW x \in S
    PROVE  Blocks(Append(s, x)) = Blocks(s) \cup {x}
<1>1. Len(Append(s, x)) = Len(s) + 1 /\ Len(s) \in Nat
  BY AppendProperties, LenProperties
<1>2. \A i \in 1..Len(s) : Append(s, x)[i] = s[i]
  BY AppendProperties
<1>3. Append(s, x)[Len(s) + 1] = x
  BY AppendProperties
<1> QED
  BY <1>1, <1>2, <1>3 DEF Blocks

LEMMA BlocksTail ==
    ASSUME NEW S, NEW s \in Seq(S), s # <<>>,
           \A i, j \in 1..Len(s) : s[i] = s[j] => i = j
    PROVE  /\ Head(s) \in Blocks(s)
           /\ Blocks(Tail(s)) = Blocks(s) \ {Head(s)}
           /\ \A i, j \in 1..Len(Tail(s)) : Tail(s)[i] = Tail(s)[j] => i = j
<1>1. Len(s) \in Nat \ {0} /\ Len(Tail(s)) = Len(s) - 1
  BY HeadTailProperties, LenProperties, EmptySeq
<1>2. \A i \in 1..Len(Tail(s)) : Tail(s)[i] = s[i + 1]
  BY HeadTailProperties
<1>3. Head(s) = s[1] /\ 1 \in 1..Len(s)
  BY <1>1
<1>4. ASSUME NEW b \in Blocks(s), b # Head(s)
      PROVE  b \in Blocks(Tail(s))
  <2>1. PICK i \in 1..Len(s) : s[i] = b
    BY DEF Blocks
  <2> DEFINE k == i - 1
  <2>2. k \in 1..Len(Tail(s)) /\ k + 1 = i
    BY <1>1, <1>3, <1>4, <2>1
  <2> HIDE DEF k
  <2>3. Tail(s)[k] = b
    BY <1>2, <2>1, <2>2
  <2> QED
    BY <2>2, <2>3 DEF Blocks
<1>5. ASSUME NEW b \in Blocks(Tail(s))
      PROVE  b \in Blocks(s) /\ b # Head(s)
  <2>1. PICK i \in 1..Len(Tail(s)) : Tail(s)[i] = b
    BY DEF Blocks
  <2> DEFINE k == i + 1
  <2>2. k \in 1..Len(s) /\ s[k] = b /\ k # 1
    BY <1>1, <1>2, <2>1
  <2> HIDE DEF k
  <2>3. b # Head(s)
    BY <1>1, <1>3, <2>2
  <2> QED
    BY <2>2, <2>3 DEF Blocks
<1>6. \A i, j \in 1..Len(Tail(s)) : Tail(s)[i] = Tail(s)[j] => i = j
  <2> SUFFICES ASSUME NEW i \in 1..Len(Tail(s)), NEW j \in 1..Len(Tail(s)),
                      Tail(s)[i] = Tail(s)[j]
               PROVE  i = j
    OBVIOUS
  <2>1. i + 1 \in 1..Len(s) /\ j + 1 \in 1..Len(s) /\ s[i + 1] = s[j + 1]
    BY <1>1, <1>2
  <2> QED
    BY <2>1
<1>7. Head(s) \in Blocks(s)
  BY <1>3 DEF Blocks
<1> QED
  BY <1>4, <1>5, <1>6, <1>7

(* LEMMA: when the innermost handler ends, the others hold what they held. *)
LEMMA FrontType ==
    ASSUME NEW S, NEW s \in Seq(S), Len(s) > 0
    PROVE  /\ Front(s) \in Seq(S)
           /\ Len(Front(s)) = Len(s) - 1
           /\ \A i \in 1..Len(Front(s)) : Front(s)[i] = s[i]
<1>1. /\ Len(s) \in Nat /\ 1 \in Int /\ Len(s) - 1 \in Int
      /\ \A i \in 1..(Len(s) - 1) : s[i] \in S
  BY LenProperties, ElementOfSeq
<1> DEFINE n == Len(s) - 1
<1>2. n \in Nat /\ n - 1 + 1 = n /\ n = Len(s) - 1
  BY <1>1
<1>3. Front(s) = SubSeq(s, 1, n)
  BY DEF Front
<1>4. \A i \in 1..n : s[i] \in S
  BY <1>1
<1> HIDE DEF n
<1>5. /\ Front(s) \in Seq(S)
      /\ Len(Front(s)) = IF 1 <= n THEN n - 1 + 1 ELSE 0
      /\ \A i \in 1..(n - 1 + 1) : Front(s)[i] = s[1 + i - 1]
  BY <1>2, <1>3, <1>4, SubSeqProperties
<1>6. \A i \in 1..n : 1 + i - 1 = i
  BY <1>2
<1>7. 1..(n - 1 + 1) = 1..n
  BY <1>2
<1>8. Len(Front(s)) = n
  <2>1. CASE 1 <= n
    BY <1>2, <1>5, <2>1, Zenon
  <2>2. CASE ~ 1 <= n
    <3>1. Len(Front(s)) = 0
      BY <1>5, <2>2, Zenon
    <3>2. n = 0
      BY <1>2, <2>2
    <3> QED
      BY <3>1, <3>2, Zenon
  <2> QED
    BY <2>1, <2>2
<1>9. \A i \in 1..n : Front(s)[i] = s[i]
  BY <1>5, <1>6, <1>7, Zenon
<1> QED
  BY <1>2, <1>5, <1>8, <1>9

-----------------------------------------------------------------------------

(* LEMMA: every action keeps the types; taking a block needs the count of  *)
(* free blocks, or ssb_cnt could fall below zero.                          *)
LEMMA TypeStep ==
    ASSUME TypeOK, LevelInv, SSBConserved, [Next]_vars
    PROVE  TypeOK'
<1> USE ConstantsAssumption
<1>1. ASSUME NEW t \in Task, TaskStep(t)
      PROVE  TypeOK'
  <2>1. ASSUME NEW r \in Request, TaskRequest(t, r)
        PROVE  TypeOK'
    BY <2>1 DEF TypeOK, TaskRequest, StubPc, systbl, tcbs, cpu
  <2>2. CASE NoExs(t)
    BY <2>2 DEF TypeOK, NoExs, StubPc, tcbs
  <2>3. CASE DisDsp(t)
    BY <2>3 DEF TypeOK, DisDsp, tcbs, cpu
  <2>4. CASE EnaDsp(t)
    BY <2>4 DEF TypeOK, EnaDsp, StubPc, tcbs
  <2>5. CASE LocCpu(t)
    BY <2>5 DEF TypeOK, LocCpu, systbl, tcbs
  <2>6. CASE UnlCpu(t)
    BY <2>6 DEF TypeOK, UnlCpu, StubPc, systbl, tcbs
  <2>7. CASE ClearIms(t)
    BY <2>7 DEF TypeOK, ClearIms, StubPc, tcbs
  <2>8. CASE RelRun(t)
    BY <2>8 DEF TypeOK, RelRun, StubPc, tcbs
  <2>9. CASE EntSys(t)
    <3>1. Append(ssbq, t) \in Seq(SSB \cup Task)
      BY AppendProperties DEF TypeOK
    <3>2. ssbq' \in Seq(SSB \cup Task) /\ cssb' \in Task \cup SSB \cup {NONE}
      BY <2>9, <3>1 DEF EntSys, TypeOK
    <3> QED
      BY <2>9, <3>2 DEF TypeOK, EntSys, SaveContext, StubPc, Level
  <2>10. CASE EntSys0(t)
    BY <2>10 DEF TypeOK, EntSys0, SaveContext, StubPc, Level
  <2> QED
    BY <1>1, <2>1, <2>2, <2>3, <2>4, <2>5, <2>6, <2>7, <2>8, <2>9, <2>10 DEF TaskStep
<1>2. CASE SystemStep
  <2>1. CASE DeqSSB
    <3>1. ssbq # <<>> => /\ Head(ssbq) \in SSB \cup Task
                         /\ Tail(ssbq) \in Seq(SSB \cup Task)
      BY HeadTailProperties DEF TypeOK
    <3>2. ssbq' \in Seq(SSB \cup Task) /\ cssb' \in Task \cup SSB \cup {NONE}
      BY <2>1, <3>1 DEF DeqSSB, TypeOK
    <3> QED
      BY <2>1, <3>2 DEF TypeOK, DeqSSB, Level, tcbs
  <2>2. CASE ExecSleep
    <3> DEFINE t == par[cssb].tsk
    <3>1. /\ cssb \in Task \cup SSB
          /\ par[cssb] \in Request \cup {Served} /\ par[cssb].op = "slp"
      BY <2>2, ExecCssb DEF ExecSleep, AtSystem
    <3>2. t \in Task
      BY <3>1, RequestType
    <3>3. /\ par' \in [Task \cup SSB -> Request \cup {Served}]
          /\ lv' \in Level
      BY <2>2, <3>1 DEF TypeOK, ExecSleep, AfterService, Level
    <3> HIDE DEF t
    <3>4. /\ rdq' \in [1..MaxPri -> Seq(Task)]
          /\ asleep' \in SUBSET Task /\ ctcb' \in Task \cup {NONE}
          /\ wup' \in [Task -> 0..MaxWup]
      <4>1. rdq[Prio[t]] \in Seq(Task) /\ Prio[t] \in 1..MaxPri
        BY <3>2 DEF TypeOK
      <4>2. DeqTCB(rdq[Prio[t]], t) \in Seq(Task)
        BY <4>1, DeqTCBType
      <4>3. \/ UNCHANGED rdq
            \/ rdq' = [rdq EXCEPT ![Prio[t]] = DeqTCB(rdq[Prio[t]], t)]
        BY <2>2 DEF ExecSleep, t
      <4>4. rdq' \in [1..MaxPri -> Seq(Task)]
        <5>1. rdq \in [1..MaxPri -> Seq(Task)]
          BY DEF TypeOK
        <5>2. [rdq EXCEPT ![Prio[t]] = DeqTCB(rdq[Prio[t]], t)] \in [1..MaxPri -> Seq(Task)]
          BY <4>1, <4>2, <5>1, UpdateType
        <5> QED
          BY <4>3, <5>1, <5>2
      <4>5. asleep' \in SUBSET Task /\ ctcb' \in Task \cup {NONE}
        BY <2>2, <3>2 DEF TypeOK, ExecSleep, t
      <4>6. UNCHANGED wup \/ (wup[t] > 0 /\ wup' = [wup EXCEPT ![t] = wup[t] - 1])
        BY <2>2 DEF ExecSleep, t
      <4>7. wup' \in [Task -> 0..MaxWup]
        <5>1. wup \in [Task -> 0..MaxWup]
          BY DEF TypeOK
        <5>2. wup[t] \in 0..MaxWup
          BY <3>2, <5>1
        <5>3. wup[t] > 0 => wup[t] - 1 \in 0..MaxWup
          BY <5>2
        <5>4. wup[t] > 0 => [wup EXCEPT ![t] = wup[t] - 1] \in [Task -> 0..MaxWup]
          BY <3>2, <5>1, <5>3, UpdateType
        <5> QED
          BY <4>6, <5>1, <5>4
      <4> QED
        BY <4>4, <4>5, <4>7
    <3> QED
      BY <2>2, <3>3, <3>4 DEF TypeOK, ExecSleep
  <2>3. CASE ExecWakeup
    <3> DEFINE t == par[cssb].tsk
    <3>1. /\ cssb \in Task \cup SSB
          /\ par[cssb] \in Request \cup {Served} /\ par[cssb].op = "wup"
      BY <2>3, ExecCssb DEF ExecWakeup, AtSystem
    <3>2. t \in Task
      BY <3>1, RequestType
    <3>3. /\ par' \in [Task \cup SSB -> Request \cup {Served}]
          /\ lv' \in Level
      BY <2>3, <3>1 DEF TypeOK, ExecWakeup, AfterService, Level
    <3> HIDE DEF t
    <3>4. /\ rdq' \in [1..MaxPri -> Seq(Task)]
          /\ asleep' \in SUBSET Task /\ ctcb' \in Task \cup {NONE}
          /\ wup' \in [Task -> 0..MaxWup] /\ rdsp' \in BOOLEAN
      <4>1. rdq[Prio[t]] \in Seq(Task) /\ Prio[t] \in 1..MaxPri
        BY <3>2 DEF TypeOK
      <4>2. Append(rdq[Prio[t]], t) \in Seq(Task)
        BY <3>2, <4>1, AppendProperties
      <4>3. UNCHANGED rdq \/ rdq' = [rdq EXCEPT ![Prio[t]] = Append(rdq[Prio[t]], t)]
        BY <2>3 DEF ExecWakeup, t
      <4>4. rdq' \in [1..MaxPri -> Seq(Task)]
        <5>1. rdq \in [1..MaxPri -> Seq(Task)]
          BY DEF TypeOK
        <5>2. [rdq EXCEPT ![Prio[t]] = Append(rdq[Prio[t]], t)] \in [1..MaxPri -> Seq(Task)]
          BY <4>1, <4>2, <5>1, UpdateType
        <5> QED
          BY <4>3, <5>1, <5>2
      <4>5. /\ asleep' \in SUBSET Task /\ ctcb' \in Task \cup {NONE}
            /\ rdsp' \in BOOLEAN
        BY <2>3, <3>2 DEF TypeOK, ExecWakeup, RequestDispatch, t
      <4>6. UNCHANGED wup \/ (wup[t] # MaxWup /\ wup' = [wup EXCEPT ![t] = wup[t] + 1])
        BY <2>3 DEF ExecWakeup, t
      <4>7. wup' \in [Task -> 0..MaxWup]
        <5>1. wup \in [Task -> 0..MaxWup]
          BY DEF TypeOK
        <5>2. wup[t] \in 0..MaxWup
          BY <3>2, <5>1
        <5>3. wup[t] # MaxWup => wup[t] + 1 \in 0..MaxWup
          BY <5>2
        <5>4. wup[t] # MaxWup => [wup EXCEPT ![t] = wup[t] + 1] \in [Task -> 0..MaxWup]
          BY <3>2, <5>1, <5>3, UpdateType
        <5> QED
          BY <4>6, <5>1, <5>4
      <4> QED
        BY <4>4, <4>5, <4>7
    <3> QED
      BY <2>3, <3>3, <3>4 DEF TypeOK, ExecWakeup
  <2>4. CASE ExecRotate
    <3> DEFINE p == par[cssb].pri
    <3>1. /\ cssb \in Task \cup SSB
          /\ par[cssb] \in Request \cup {Served} /\ par[cssb].op = "rot"
      BY <2>4, ExecCssb DEF ExecRotate, AtSystem
    <3>2. p \in 1..MaxPri
      BY <3>1, RequestType
    <3>3. /\ par' \in [Task \cup SSB -> Request \cup {Served}]
          /\ lv' \in Level
      BY <2>4, <3>1 DEF TypeOK, ExecRotate, AfterService, Level
    <3> HIDE DEF p
    <3>4. /\ rdq' \in [1..MaxPri -> Seq(Task)]
          /\ ctcb' \in Task \cup {NONE} /\ rdsp' \in BOOLEAN
      <4>1. rdq[p] \in Seq(Task)
        BY <3>2 DEF TypeOK
      <4>2. rdq[p] # <<>> => Append(Tail(rdq[p]), Head(rdq[p])) \in Seq(Task)
        BY <4>1, HeadTailProperties, AppendProperties
      <4>3. \/ UNCHANGED rdq
            \/ /\ rdq[p] # <<>>
               /\ rdq' = [rdq EXCEPT ![p] = Append(Tail(rdq[p]), Head(rdq[p]))]
        BY <2>4 DEF ExecRotate, p
      <4>4. rdq' \in [1..MaxPri -> Seq(Task)]
        BY <3>2, <4>2, <4>3 DEF TypeOK
      <4>5. ctcb' \in Task \cup {NONE} /\ rdsp' \in BOOLEAN
        BY <2>4 DEF TypeOK, ExecRotate, RequestDispatch, p
      <4> QED
        BY <4>4, <4>5
    <3> QED
      BY <2>4, <3>3, <3>4 DEF TypeOK, ExecRotate
  <2>5. CASE RelSSB
    BY <2>5 DEF TypeOK, LevelInv, RelSSB, AtSystem, Level, tcbs
  <2>6. CASE ClearCssb
    BY <2>6 DEF TypeOK, ClearCssb, Level, tcbs
  <2>7. CASE Select
    BY <2>7, HighestReadyType DEF TypeOK, Select, Level, systbl, tcbs
  <2>8. CASE Resume
    <3>1. nxt \in Task /\ Prio[nxt] \in 1..(MaxPri + 1)
      BY <2>8 DEF TypeOK, Resume
    <3> QED
      BY <2>8, <3>1 DEF TypeOK, Resume, Level
  <2>9. CASE Idle
    BY <2>9 DEF TypeOK, Idle, Level, tcbs
  <2> QED
    BY <1>2, <2>1, <2>2, <2>3, <2>4, <2>5, <2>6, <2>7, <2>8, <2>9 DEF SystemStep
<1>3. CASE IntStep
  <2>1. CASE IntEnter
    BY <2>1, AppendProperties DEF TypeOK, IntEnter, systbl, tcbs
  <2>2. ASSUME NEW b \in SSB, NEW r \in Request, GetSSB(b, r)
        PROVE  TypeOK'
    <3>1. ssb_cnt - 1 \in Nat
      <4>1. IsFiniteSet(free) /\ free # {}
        BY <2>2, FS_Subset DEF GetSSB, TypeOK
      <4> QED
        BY <4>1, FS_CardinalityType, FS_EmptySet DEF SSBConserved, SSBCounted
    <3>2. icnt \in 1..Len(isr) /\ isr' \in Seq(SSB \cup {NONE})
      BY <2>2, LenProperties, ExceptSeq DEF GetSSB, TypeOK, Handling, icnt
    <3> QED
      BY <2>2, <3>1, <3>2 DEF TypeOK, GetSSB
  <2>3. CASE EnqSSB
    <3>1. icnt \in 1..Len(isr) /\ Held \in SSB
      BY <2>3, LenProperties, ElementOfSeq DEF EnqSSB, TypeOK, Handling, icnt, Held
    <3>2. ssbq' \in Seq(SSB \cup Task) /\ isr' \in Seq(SSB \cup {NONE})
      BY <2>3, <3>1, AppendProperties, ExceptSeq DEF EnqSSB, TypeOK
    <3> QED
      BY <2>3, <3>2 DEF TypeOK, EnqSSB, tcbs
  <2>4. CASE IntReturn
    <3>1. isr' \in Seq(SSB \cup {NONE})
      BY <2>4, FrontType DEF IntReturn, TypeOK, Handling, icnt
    <3> QED
      BY <2>4, <3>1 DEF TypeOK, IntReturn, systbl, tcbs
  <2>5. CASE IntDispatch
    <3>1. isr' \in Seq(SSB \cup {NONE})
      BY <2>5, FrontType DEF IntDispatch, TypeOK, Handling, icnt
    <3> QED
      BY <2>5, <3>1 DEF TypeOK, IntDispatch, Level, systbl
  <2> QED
    BY <1>3, <2>1, <2>2, <2>3, <2>4, <2>5 DEF IntStep
<1>4. CASE UNCHANGED vars
  BY <1>4 DEF TypeOK, vars, systbl, tcbs, cpu
<1> QED
  BY <1>1, <1>2, <1>3, <1>4 DEF Next

(* LEMMA: no action leaves a level with a service it should not have:      *)
(* what the exit of an interrupt abandons had none in progress.            *)
LEMMA LevelStep ==
    ASSUME TypeOK, LevelInv, [Next]_vars
    PROVE  LevelInv'
<1> USE ConstantsAssumption
<1>1. ASSUME NEW t \in Task, TaskStep(t)
      PROVE  LevelInv'
  <2>1. Executes(t) /\ cssb = NONE /\ ssbq \in Seq(SSB)
    BY <1>1 DEF TaskStep, TaskRequest, NoExs, DisDsp, EnaDsp, LocCpu, UnlCpu, ClearIms,
                RelRun, EntSys, EntSys0, Executes, LevelInv
  <2>2. CASE EntSys(t)
    BY <2>1, <2>2 DEF EntSys, LevelInv
  <2>3. CASE EntSys0(t)
    BY <2>1, <2>3 DEF EntSys0, LevelInv
  <2>4. CASE ~EntSys(t) /\ ~EntSys0(t)
    <3>1. UNCHANGED <<lv, cssb, ssbq>>
      BY <1>1, <2>4 DEF TaskStep, TaskRequest, NoExs, DisDsp, EnaDsp, LocCpu, UnlCpu,
                        ClearIms, RelRun, systbl, cpu
    <3> QED
      BY <3>1 DEF LevelInv
  <2> QED
    BY <2>2, <2>3, <2>4
<1>2. CASE SystemStep
  <2>1. CASE DeqSSB
    <3>1. ssbq # <<>> => Head(ssbq) \in SSB /\ Tail(ssbq) \in Seq(SSB)
      BY HeadTailProperties DEF LevelInv
    <3> QED
      BY <2>1, <3>1 DEF DeqSSB, AtSystem, LevelInv
  <2>2. CASE ExecSleep \/ ExecWakeup \/ ExecRotate
    BY <2>2 DEF ExecSleep, ExecWakeup, ExecRotate, AfterService, LevelInv
  <2>3. CASE RelSSB \/ ClearCssb
    BY <2>3 DEF RelSSB, ClearCssb, AtSystem, LevelInv
  <2>4. CASE Select \/ Resume \/ Idle
    BY <2>4 DEF Select, Resume, Idle, AtSystem, LevelInv, systbl
  <2> QED
    BY <1>2, <2>1, <2>2, <2>3, <2>4 DEF SystemStep
<1>3. CASE IntStep
  <2>1. CASE IntEnter \/ IntReturn
    BY <2>1 DEF IntEnter, IntReturn, LevelInv, systbl
  <2>2. ASSUME NEW b \in SSB, NEW r \in Request, GetSSB(b, r)
        PROVE  LevelInv'
    BY <2>2 DEF GetSSB, LevelInv
  <2>3. CASE EnqSSB
    <3>1. Held \in SSB
      BY <2>3, LenProperties, ElementOfSeq DEF EnqSSB, TypeOK, Handling, icnt, Held
    <3>2. Append(ssbq, Held) \in Seq(SSB)
      BY <3>1, AppendProperties DEF LevelInv
    <3> QED
      BY <2>3, <3>2 DEF EnqSSB, LevelInv
  <2>4. CASE IntDispatch
    BY <2>4 DEF IntDispatch, Returns, LevelInv, systbl
  <2> QED
    BY <1>3, <2>1, <2>2, <2>3, <2>4 DEF IntStep
<1>4. CASE UNCHANGED vars
  BY <1>4 DEF LevelInv, vars, systbl, cpu
<1> QED
  BY <1>1, <1>2, <1>3, <1>4 DEF Next

(* LEMMA: no action makes a task the next to run over a waiting post. *)
LEMMA DrainedStep ==
    ASSUME TypeOK, LevelInv, PostsDrained, [Next]_vars
    PROVE  PostsDrained'
<1>1. ASSUME NEW t \in Task, TaskStep(t)
      PROVE  PostsDrained'
  <2>1. CASE EntSys(t) \/ EntSys0(t)
    BY <2>1 DEF EntSys, EntSys0, PostsDrained
  <2>2. CASE ~EntSys(t) /\ ~EntSys0(t)
    <3>1. UNCHANGED <<lv, ssbq, isr>>
      BY <1>1, <2>2 DEF TaskStep, TaskRequest, NoExs, DisDsp, EnaDsp, LocCpu, UnlCpu,
                        ClearIms, RelRun, systbl, cpu
    <3> QED
      BY <3>1 DEF PostsDrained
  <2> QED
    BY <2>1, <2>2
<1>2. CASE SystemStep
  <2>1. CASE DeqSSB
    BY <2>1 DEF DeqSSB, PostsDrained
  <2>2. CASE ExecSleep \/ ExecWakeup \/ ExecRotate
    BY <2>2 DEF ExecSleep, ExecWakeup, ExecRotate, AfterService, PostsDrained
  <2>3. CASE RelSSB \/ ClearCssb
    BY <2>3 DEF RelSSB, ClearCssb, PostsDrained
  <2>4. CASE Select \/ Resume \/ Idle
    BY <2>4 DEF Select, Resume, Idle, AtSystem, PostsDrained, systbl
  <2> QED
    BY <1>2, <2>1, <2>2, <2>3, <2>4 DEF SystemStep
<1>3. CASE IntStep
  <2>1. CASE IntEnter
    <3>1. isr' = Append(isr, NONE) /\ isr \in Seq(SSB \cup {NONE})
      BY <2>1 DEF IntEnter, TypeOK
    <3>2. Len(isr') = Len(isr) + 1 /\ Len(isr) \in Nat
      BY <3>1, AppendProperties, LenProperties
    <3>3. isr' # <<>>
      BY <3>2
    <3> QED
      BY <3>3 DEF PostsDrained
  <2>2. ASSUME NEW b \in SSB, NEW r \in Request, GetSSB(b, r)
        PROVE  PostsDrained'
    <3>1. icnt \in 1..Len(isr) /\ Len(isr') = Len(isr)
      BY <2>2, LenProperties, ExceptSeq DEF GetSSB, TypeOK, Handling, icnt
    <3>2. isr' # <<>>
      BY <3>1
    <3> QED
      BY <3>2 DEF PostsDrained
  <2>3. CASE EnqSSB
    <3>1. icnt \in 1..Len(isr) /\ Len(isr') = Len(isr)
      BY <2>3, LenProperties, ExceptSeq DEF EnqSSB, TypeOK, Handling, icnt
    <3>2. isr' # <<>>
      BY <3>1
    <3> QED
      BY <3>2 DEF PostsDrained
  <2>4. CASE IntReturn
    <3>1. Len(isr') = Len(isr) - 1 /\ Len(isr) \in Nat /\ Len(isr) > 0
      BY <2>4, FrontType, LenProperties DEF IntReturn, TypeOK, Handling, icnt
    <3>2. isr' = <<>> => ~(icnt > 1)
      <4> DEFINE n == Len(isr')
      <4>1. isr' = <<>> => n = 0
        OBVIOUS
      <4>2. n = icnt - 1 /\ icnt \in Nat
        BY <3>1 DEF icnt
      <4> HIDE DEF n
      <4>3. n = 0 => ~(icnt > 1)
        BY <4>2
      <4> QED
        BY <4>1, <4>3
    <3>3. icnt > 1 \/ cssb # NONE \/ ssbq = <<>>
      BY <2>4 DEF IntReturn, Returns
    <3>4. isr' = <<>> => cssb # NONE \/ ssbq = <<>>
      BY <3>2, <3>3
    <3> QED
      BY <2>4, <3>4 DEF IntReturn, PostsDrained, LevelInv, systbl
  <2>5. CASE IntDispatch
    BY <2>5 DEF IntDispatch, PostsDrained
  <2> QED
    BY <1>3, <2>1, <2>2, <2>3, <2>4, <2>5 DEF IntStep
<1>4. CASE UNCHANGED vars
  BY <1>4 DEF PostsDrained, vars, systbl, cpu
<1> QED
  BY <1>1, <1>2, <1>3, <1>4 DEF Next

(* LEMMA: a step that moves no block and keeps who is in service conserves *)
(* the blocks.                                                             *)
LEMMA NoBlockMoves ==
    ASSUME SSBConserved, UNCHANGED <<ssbq, free, ssb_cnt, ssb_min, isr>>,
           \A b \in SSB : InService(b)' <=> InService(b)
    PROVE  SSBConserved'
BY DEF SSBConserved, SSBNotLost, SSBNotShared, SSBCounted, Blocks, HeldBy

(* LEMMA: every action moves a block from one place to the next.           *)
LEMMA ConservedStep ==
    ASSUME TypeOK, LevelInv, SSBConserved, [Next]_vars
    PROVE  SSBConserved'
<1> USE ConstantsAssumption
<1>1. ASSUME NEW t \in Task, TaskStep(t)
      PROVE  SSBConserved'
  <2>1. Executes(t) /\ cssb = NONE
    BY <1>1 DEF TaskStep, TaskRequest, NoExs, DisDsp, EnaDsp, LocCpu, UnlCpu, ClearIms,
                RelRun, EntSys, EntSys0, Executes, LevelInv
  <2>2. UNCHANGED <<ssbq, free, ssb_cnt, ssb_min, isr>>
    BY <1>1, <2>1 DEF TaskStep, TaskRequest, NoExs, DisDsp, EnaDsp, LocCpu, UnlCpu,
                      ClearIms, RelRun, EntSys, EntSys0, systbl, tcbs, cpu
  <2>3. cssb' \notin SSB
    BY <1>1, <2>1 DEF TaskStep, TaskRequest, NoExs, DisDsp, EnaDsp, LocCpu, UnlCpu,
                      ClearIms, RelRun, EntSys, EntSys0, systbl, tcbs, cpu
  <2> QED
    BY <2>1, <2>2, <2>3, NoBlockMoves DEF InService
<1>2. CASE SystemStep
  <2>1. CASE DeqSSB
    <3>1. CASE ssbq = <<>>
      <4>1. UNCHANGED <<ssbq, free, ssb_cnt, ssb_min, isr>>
        BY <2>1, <3>1 DEF DeqSSB
      <4>2. \A b \in SSB : InService(b)' <=> InService(b)
        BY <2>1, <3>1 DEF DeqSSB, AtSystem, InService
      <4> QED
        BY <4>1, <4>2, NoBlockMoves
    <3>2. CASE ssbq # <<>>
      <4>1. /\ lv' = "exec" /\ cssb' = Head(ssbq) /\ ssbq' = Tail(ssbq)
            /\ UNCHANGED <<free, ssb_cnt, ssb_min, isr>>
        BY <2>1, <3>2 DEF DeqSSB
      <4>2. ssbq \in Seq(SSB) /\ Head(ssbq) \in SSB
        BY <3>2, HeadTailProperties DEF LevelInv
      <4>3. \A i, j \in 1..Len(ssbq) : ssbq[i] = ssbq[j] => i = j
        BY DEF SSBConserved, SSBNotShared
      <4>4. /\ Head(ssbq) \in Blocks(ssbq)
            /\ Blocks(ssbq') = Blocks(ssbq) \ {Head(ssbq)}
            /\ \A i, j \in 1..Len(ssbq') : ssbq'[i] = ssbq'[j] => i = j
        <5>1. /\ Head(ssbq) \in Blocks(ssbq)
              /\ Blocks(Tail(ssbq)) = Blocks(ssbq) \ {Head(ssbq)}
              /\ \A i, j \in 1..Len(Tail(ssbq)) : Tail(ssbq)[i] = Tail(ssbq)[j] => i = j
          BY <3>2, <4>2, <4>3, BlocksTail
        <5> QED
          BY <4>1, <5>1
      <4>5. \A b \in SSB : /\ ~InService(b)
                           /\ InService(b)' <=> b = Head(ssbq)
        BY <2>1, <4>1 DEF DeqSSB, AtSystem, InService
      <4>6. \A i, b : HeldBy(i, b)' <=> HeldBy(i, b)
        BY <4>1 DEF HeldBy
      <4>7. SSBNotLost'
        BY <4>1, <4>4, <4>5, <4>6 DEF SSBConserved, SSBNotLost
      <4>8. SSBNotShared'
        BY <4>1, <4>4, <4>5, <4>6 DEF SSBConserved, SSBNotShared
      <4>9. SSBCounted'
        BY <4>1 DEF SSBConserved, SSBCounted
      <4> QED
        BY <4>7, <4>8, <4>9 DEF SSBConserved
    <3> QED
      BY <3>1, <3>2
  <2>2. CASE ExecSleep \/ ExecWakeup \/ ExecRotate
    <3>1. /\ UNCHANGED <<cssb, ssbq, free, ssb_cnt, ssb_min, isr>> /\ lv = "exec"
          /\ lv' = IF cssb \in SSB THEN "rel" ELSE "clr"
      BY <2>2 DEF ExecSleep, ExecWakeup, ExecRotate, AfterService, AtSystem
    <3>2. \A b \in SSB : InService(b)' <=> InService(b)
      BY <3>1 DEF InService
    <3> QED
      BY <3>1, <3>2, NoBlockMoves
  <2>3. CASE RelSSB
    <3>1. /\ lv = "rel" /\ lv' = "clr" /\ cssb \in SSB
          /\ free' = free \cup {cssb} /\ ssb_cnt' = ssb_cnt + 1
          /\ UNCHANGED <<cssb, ssbq, ssb_min, isr>>
      BY <2>3 DEF RelSSB, AtSystem, LevelInv
    <3>2. \A b \in SSB : (InService(b) <=> b = cssb) /\ ~InService(b)'
      BY <3>1 DEF InService
    <3>3. /\ Blocks(ssbq)' = Blocks(ssbq)
          /\ \A i, b : HeldBy(i, b)' <=> HeldBy(i, b)
      BY <3>1 DEF Blocks, HeldBy
    <3>4. cssb \notin free
      BY <3>1, <3>2 DEF SSBConserved, SSBNotShared
    <3>5. SSBNotLost'
      BY <3>1, <3>2, <3>3 DEF SSBConserved, SSBNotLost
    <3>6. SSBNotShared'
      BY <3>1, <3>2, <3>3 DEF SSBConserved, SSBNotShared
    <3>7. SSBCounted'
      <4>1. IsFiniteSet(free)
        BY FS_Subset DEF TypeOK
      <4>2. Cardinality(free') = Cardinality(free) + 1
        BY <3>1, <3>4, <4>1, FS_AddElement
      <4> QED
        BY <3>1, <4>2 DEF TypeOK, SSBConserved, SSBCounted
    <3> QED
      BY <3>5, <3>6, <3>7 DEF SSBConserved
  <2>4. CASE ClearCssb \/ Select \/ Resume \/ Idle
    <3>1. UNCHANGED <<ssbq, free, ssb_cnt, ssb_min, isr>>
      BY <2>4 DEF ClearCssb, Select, Resume, Idle, systbl
    <3>2. \A b \in SSB : InService(b)' <=> InService(b)
      BY <2>4 DEF ClearCssb, Select, Resume, Idle, AtSystem, InService
    <3> QED
      BY <3>1, <3>2, NoBlockMoves
  <2> QED
    BY <1>2, <2>1, <2>2, <2>3, <2>4 DEF SystemStep
<1>3. CASE IntStep
  <2>1. CASE IntEnter
    <3>1. /\ isr' = Append(isr, NONE)
          /\ UNCHANGED <<lv, cssb, ssbq, free, ssb_cnt, ssb_min>>
      BY <2>1 DEF IntEnter, systbl
    <3>2. /\ Len(isr) \in Nat /\ Len(isr') = Len(isr) + 1
          /\ \A i \in 1..Len(isr) : isr'[i] = isr[i]
          /\ isr'[Len(isr) + 1] = NONE
      BY <3>1, AppendProperties, LenProperties DEF TypeOK
    <3>3. \A b \in SSB : \A i : HeldBy(i, b)' <=> HeldBy(i, b)
      BY <3>2 DEF HeldBy
    <3>4. \A b \in SSB : InService(b)' <=> InService(b)
      BY <3>1 DEF InService
    <3>5. Blocks(ssbq)' = Blocks(ssbq)
      BY <3>1 DEF Blocks
    <3>6. SSBNotLost' /\ SSBCounted'
      BY <3>1, <3>2, <3>3, <3>4, <3>5 DEF SSBConserved, SSBNotLost, SSBCounted, HeldBy
    <3>7. SSBNotShared'
      <4>1. \A i, j \in 1..Len(isr') : isr'[i] = isr'[j] /\ isr'[i] # NONE => i = j
        BY <3>2 DEF SSBConserved, SSBNotShared
      <4>2. \A b \in SSB : \A i : HeldBy(i, b) => i \in 1..Len(isr)
        BY DEF HeldBy
      <4> QED
        BY <3>1, <3>3, <3>4, <3>5, <4>1, <4>2 DEF SSBConserved, SSBNotShared
    <3> QED
      BY <3>6, <3>7 DEF SSBConserved
  <2>2. ASSUME NEW b \in SSB, NEW r \in Request, GetSSB(b, r)
        PROVE  SSBConserved'
    <3>1. /\ isr[icnt] = NONE /\ isr' = [isr EXCEPT ![icnt] = b] /\ b \in free
          /\ free' = free \ {b} /\ ssb_cnt' = ssb_cnt - 1
          /\ ssb_min' = IF ssb_cnt - 1 < ssb_min THEN ssb_cnt - 1 ELSE ssb_min
          /\ UNCHANGED <<lv, cssb, ssbq>>
      BY <2>2 DEF GetSSB, Held
    <3>2. /\ icnt \in 1..Len(isr) /\ Len(isr') = Len(isr)
          /\ \A i \in 1..Len(isr) : isr'[i] = IF i = icnt THEN b ELSE isr[i]
      BY <2>2, <3>1, LenProperties, ExceptSeq DEF GetSSB, TypeOK, Handling, icnt
    <3>3. \A c \in SSB : \A i : HeldBy(i, c)' <=> HeldBy(i, c) \/ (i = icnt /\ c = b)
      BY <3>1, <3>2 DEF HeldBy
    <3>4. /\ Blocks(ssbq)' = Blocks(ssbq)
          /\ \A c \in SSB : InService(c)' <=> InService(c)
      BY <3>1 DEF Blocks, InService
    <3>5. SSBNotLost'
      BY <3>1, <3>2, <3>3, <3>4 DEF SSBConserved, SSBNotLost, HeldBy
    <3>6. SSBNotShared'
      BY <3>1, <3>2, <3>3, <3>4 DEF SSBConserved, SSBNotShared, HeldBy
    <3>7. SSBCounted'
      <4>1. IsFiniteSet(free)
        BY FS_Subset DEF TypeOK
      <4>2. Cardinality(free') = Cardinality(free) - 1
        BY <3>1, <4>1, FS_RemoveElement
      <4> QED
        BY <3>1, <4>2 DEF TypeOK, SSBConserved, SSBCounted
    <3> QED
      BY <3>5, <3>6, <3>7 DEF SSBConserved
  <2>3. CASE EnqSSB
    <3> DEFINE h == isr[icnt]
    <3>1. /\ h # NONE /\ isr' = [isr EXCEPT ![icnt] = NONE]
          /\ ssbq' = Append(ssbq, h)
          /\ UNCHANGED <<lv, cssb, free, ssb_cnt, ssb_min>>
      BY <2>3 DEF EnqSSB, Held
    <3>2. /\ icnt \in 1..Len(isr) /\ Len(isr') = Len(isr)
          /\ \A i \in 1..Len(isr) : isr'[i] = IF i = icnt THEN NONE ELSE isr[i]
      BY <2>3, LenProperties, ExceptSeq DEF EnqSSB, TypeOK, Handling, icnt
    <3>3. h \in SSB /\ HeldBy(icnt, h)
      BY <3>1, <3>2, ElementOfSeq DEF TypeOK, HeldBy
    <3>4. h \notin Blocks(ssbq)
      BY <3>2, <3>3 DEF SSBConserved, SSBNotShared
    <3>5. Blocks(ssbq') = Blocks(ssbq) \cup {h}
      BY <3>1, <3>3, BlocksAppend DEF LevelInv
    <3>6. \A i, j \in 1..Len(ssbq') : ssbq'[i] = ssbq'[j] => i = j
      <4>1. /\ Len(ssbq) \in Nat /\ Len(ssbq') = Len(ssbq) + 1
            /\ \A i \in 1..Len(ssbq) : ssbq'[i] = ssbq[i]
            /\ ssbq'[Len(ssbq) + 1] = h
        BY <3>1, <3>3, AppendProperties, LenProperties DEF LevelInv
      <4>2. \A i \in 1..Len(ssbq) : ssbq[i] # h
        BY <3>4 DEF Blocks
      <4> QED
        BY <4>1, <4>2 DEF SSBConserved, SSBNotShared
    <3>7. \A c \in SSB : \A i : HeldBy(i, c)' <=> HeldBy(i, c) /\ i # icnt
      BY <3>2 DEF HeldBy
    <3>8. \A c \in SSB : \A i : HeldBy(i, c) /\ HeldBy(i, c)' => c # h
      BY <3>2, <3>3, <3>7 DEF SSBConserved, SSBNotShared, HeldBy
    <3>9. \A c \in SSB : InService(c)' <=> InService(c)
      BY <3>1 DEF InService
    <3> HIDE DEF h
    <3>10. SSBNotLost'
      BY <3>1, <3>2, <3>5, <3>7, <3>9 DEF SSBConserved, SSBNotLost, HeldBy, h
    <3>11. SSBNotShared'
      BY <3>1, <3>2, <3>3, <3>5, <3>6, <3>7, <3>8, <3>9
         DEF SSBConserved, SSBNotShared
    <3>12. SSBCounted'
      BY <3>1 DEF SSBConserved, SSBCounted
    <3> QED
      BY <3>10, <3>11, <3>12 DEF SSBConserved
  <2>4. CASE IntReturn \/ IntDispatch
    <3>1. /\ isr[icnt] = NONE /\ isr' = Front(isr) /\ icnt > 0
          /\ UNCHANGED <<ssbq, cssb, free, ssb_cnt, ssb_min>>
      BY <2>4 DEF IntReturn, IntDispatch, Handling, Held, systbl
    <3>2. /\ Len(isr) \in Nat /\ Len(isr') = Len(isr) - 1 /\ icnt = Len(isr)
          /\ \A i \in 1..Len(isr') : isr'[i] = isr[i]
      BY <3>1, FrontType, LenProperties DEF TypeOK, icnt
    <3>3. \A b \in SSB : \A i : HeldBy(i, b)' <=> HeldBy(i, b)
      BY <3>1, <3>2 DEF HeldBy
    <3>4. \A b \in SSB : InService(b)' <=> InService(b)
      BY <2>4, <3>1 DEF IntReturn, IntDispatch, Returns, LevelInv, InService
    <3>5. SSBNotLost' /\ SSBCounted'
      BY <3>1, <3>3, <3>4 DEF SSBConserved, SSBNotLost, SSBCounted, Blocks, HeldBy
    <3>6. SSBNotShared'
      <4>1. \A i, j \in 1..Len(isr') : isr'[i] = isr'[j] /\ isr'[i] # NONE => i = j
        BY <3>2 DEF SSBConserved, SSBNotShared
      <4>2. \A b \in SSB : \A i : HeldBy(i, b) => i \in 1..Len(isr)
        BY DEF HeldBy
      <4>3. Blocks(ssbq)' = Blocks(ssbq)
        BY <3>1 DEF Blocks
      <4> QED
        BY <3>1, <3>3, <3>4, <4>1, <4>2, <4>3 DEF SSBConserved, SSBNotShared
    <3> QED
      BY <3>5, <3>6 DEF SSBConserved
  <2> QED
    BY <1>3, <2>1, <2>2, <2>3, <2>4 DEF IntStep
<1>4. CASE UNCHANGED vars
  <2>1. \A b \in SSB : InService(b)' <=> InService(b)
    BY <1>4 DEF vars, systbl, cpu, InService
  <2> QED
    BY <1>4, <2>1, NoBlockMoves DEF vars, systbl, cpu
<1> QED
  BY <1>1, <1>2, <1>3, <1>4 DEF Next

-----------------------------------------------------------------------------

(* LEMMA: the system table that start_uC3 builds satisfies the invariant. *)
LEMMA InitIInv ==
    ASSUME Init
    PROVE  IInv
<1> USE ConstantsAssumption, InitRdqAssumption
<1>1. Cardinality(SSB) \in Nat /\ Cardinality(SSB) - 1 \in Nat
  BY FS_CardinalityType, FS_EmptySet
<1>2. ssbq = <<>> /\ isr = <<>> /\ Len(ssbq) = 0 /\ Len(isr) = 0
  BY DEF Init
<1>3. ssbq \in Seq(SSB \cup Task) /\ ssbq \in Seq(SSB) /\ isr \in Seq(SSB \cup {NONE})
  BY <1>2
<1>4. TypeOK
  <2>1. /\ dsp \in BOOLEAN /\ dlock \in BOOLEAN /\ ims \in BOOLEAN /\ rdsp \in BOOLEAN
        /\ cssb \in Task \cup SSB \cup {NONE} /\ ctcb \in Task \cup {NONE}
        /\ free \in SUBSET SSB
    BY DEF Init
  <2>5. pri \in 1..(MaxPri + 1)
    BY DEF Init
  <2>6. ssb_cnt \in Nat /\ ssb_min \in Nat
    BY <1>1, Zenon DEF Init
  <2>2. /\ rdq \in [1..MaxPri -> Seq(Task)] /\ asleep \in SUBSET Task
        /\ wup \in [Task -> 0..MaxWup]
        /\ saved \in [Task -> BOOLEAN] /\ tmask \in [Task -> BOOLEAN]
    BY DEF Init
  <2>3. par \in [Task \cup SSB -> Request \cup {Served}]
    BY DEF Init
  <2>4. /\ lv \in Level /\ imask \in BOOLEAN /\ nxt \in Task \cup {NONE}
        /\ tpc \in [Task -> StubPc]
    BY DEF Init, Level, StubPc
  <2> QED
    BY <1>3, <2>1, <2>2, <2>3, <2>4, <2>5, <2>6 DEF TypeOK
<1>5. LevelInv
  BY <1>3 DEF Init, LevelInv
<1>6. SSBConserved
  BY <1>1, <1>2 DEF Init, SSBConserved, SSBNotLost, SSBNotShared, SSBCounted, Blocks,
                    InService, HeldBy
<1>7. PostsDrained
  BY DEF Init, PostsDrained
<1> QED
  BY <1>4, <1>5, <1>6, <1>7 DEF IInv

(* THEOREM: the invariant holds in every reachable state, however many     *)
(* tasks and blocks there are and however deep interrupts nest.            *)
THEOREM Invariance == Spec => []IInv
<1>1. Init => IInv
  BY InitIInv
<1>2. IInv /\ [Next]_vars => IInv'
  BY TypeStep, LevelStep, ConservedStep, DrainedStep DEF IInv
<1> QED
  BY <1>1, <1>2, PTL DEF Spec

(* THEOREM: the system table, the control blocks and the saved interrupt   *)
(* states keep their types; no count under- or overflows.                  *)
THEOREM TypeCorrect == Spec => []TypeOK
<1>1. IInv => TypeOK
  BY DEF IInv
<1> QED
  BY <1>1, Invariance, PTL

(* THEOREM: getssb, enqssb, deqssb and relssb never lose a system service  *)
(* block nor hand one out twice, and ssb_cnt counts the free ones.         *)
THEOREM BlocksConserved == Spec => []SSBConserved
<1>1. IInv => SSBConserved
  BY DEF IInv
<1> QED
  BY <1>1, Invariance, PTL

(* THEOREM: no task runs, or is about to, while a post of an interrupt     *)
(* handler waits to be executed.                                           *)
THEOREM PostsBeforeTasks == Spec => []PostsDrained
<1>1. IInv => PostsDrained
  BY DEF IInv
<1> QED
  BY <1>1, Invariance, PTL

-----------------------------------------------------------------------------
(* WHO RUNS                                                                *)

(* The ready queue of a priority holds tasks of that priority that do not  *)
(* sleep, each once.                                                       *)
ReadyInv ==
    \A p \in 1..MaxPri :
        /\ Once(rdq[p])
        /\ \A t \in ToSet(rdq[p]) : Prio[t] = p /\ t \notin asleep

(* What makes up for a dispatch that was deferred: dispatching is still    *)
(* inhibited, or the current task is on its way through _kernel_relrun.    *)
Excused ==
    \/ dspint
    \/ lv = "task" /\ imask
    \/ tpc[ctcb] \in {"unlock", "relrun", "entsys0"}

ChoiceInv ==
    /\ lv = "task" => ctcb # NONE
    /\ lv = "res" => nxt = IF ctcb # NONE THEN ctcb ELSE HighestReady
    /\ ctcb # NONE => /\ ctcb \notin asleep /\ pri = Prio[ctcb]
                      /\ ctcb = HighestReady \/ (rdsp /\ Excused)
    /\ isr # <<>> => ~imask

(* A request stays as it was made until it is served, and the lock of the  *)
(* lookup keeps its task current.                                          *)
RequestInv ==
    /\ \A t \in Task : tpc[t] = "stub" => par[t] \in Request
    /\ \A t \in Task : tpc[t] = "stub" /\ par[t].op = "wup" => ctcb = t /\ dlock
    /\ cssb \in Task => tpc[cssb] = "user"
    /\ \A i \in 1..Len(isr) : isr[i] # NONE => par[isr[i]] \in Request

(* LEMMA: the scheduler's choice heads the queue of its priority, and the  *)
(* more urgent queues are empty.                                           *)
LEMMA HighestFacts ==
    ASSUME TypeOK, ReadyInv, NEW t, t = HighestReady, t # NONE
    PROVE  /\ t \in Task /\ t \notin asleep /\ Prio[t] \in 1..MaxPri
           /\ rdq[Prio[t]] # <<>> /\ Head(rdq[Prio[t]]) = t
           /\ \A q \in 1..(Prio[t] - 1) : rdq[q] = <<>>
<1>1. Urgent # {} BY DEF HighestReady
<1>2. PICK p : p = CHOOSE q \in Urgent : TRUE OBVIOUS
<1>3. p \in Urgent /\ t = Head(rdq[p]) BY <1>1, <1>2 DEF HighestReady
<1>4. p \in 1..MaxPri /\ rdq[p] # <<>> /\ \A q \in 1..(p - 1) : rdq[q] = <<>>
      BY <1>3 DEF Urgent
<1>5. rdq[p] \in Seq(Task) BY <1>4 DEF TypeOK
<1>6. t \in ToSet(rdq[p]) /\ t \in Task BY <1>3, <1>4, <1>5, TailOnce
<1>7. Prio[t] = p /\ t \notin asleep BY <1>4, <1>6 DEF ReadyInv
<1> QED BY <1>3, <1>4, <1>6, <1>7

(* LEMMA: the choice stays while nothing enters a more urgent queue and    *)
(* its own queue keeps its head.                                           *)
LEMMA HighestKept ==
    ASSUME TypeOK, ReadyInv, NEW t \in Task, t = HighestReady,
           \A q \in 1..(Prio[t] - 1) : rdq'[q] = rdq[q],
           rdq'[Prio[t]] # <<>>, Head(rdq'[Prio[t]]) = t
    PROVE  HighestReady' = t
<1> USE ConstantsAssumption
<1>1. t # NONE OBVIOUS
<1>2. Prio[t] \in 1..MaxPri /\ \A q \in 1..(Prio[t] - 1) : rdq[q] = <<>>
      BY <1>1, HighestFacts
<1>3. Urgent' = {Prio[t]}
  <2>1. Prio[t] \in Urgent' BY <1>2 DEF Urgent
  <2>2. ASSUME NEW p \in Urgent' PROVE p = Prio[t]
    <3>1. /\ p \in 1..MaxPri /\ rdq'[p] # <<>>
          /\ \A q \in 1..(p - 1) : rdq'[q] = <<>>
          BY <2>2 DEF Urgent
    <3>2. ~(p < Prio[t]) BY <1>2, <3>1
    <3>3. ~(Prio[t] < p) BY <1>2, <3>1
    <3> QED BY <1>2, <3>1, <3>2, <3>3
  <2> QED BY <2>1, <2>2
<1>4. HighestReady' = Head(rdq'[Prio[t]])
  <2>1. Urgent' # {} /\ (CHOOSE p \in Urgent' : TRUE) = Prio[t] BY <1>3
  <2> QED BY <2>1 DEF HighestReady
<1> QED BY <1>4

LEMMA HighestSame ==
    ASSUME UNCHANGED rdq
    PROVE  HighestReady' = HighestReady
BY DEF HighestReady, Urgent

(* LEMMA: the ready queues keep tasks that are awake, each once. *)
LEMMA ReadyStep ==
    ASSUME IInv, ReadyInv, [Next]_vars
    PROVE  ReadyInv'
<1> USE ConstantsAssumption
<1>1. ASSUME UNCHANGED <<rdq, asleep>> PROVE ReadyInv' BY <1>1 DEF ReadyInv
<1>2. TypeOK /\ LevelInv BY DEF IInv
<1>3. rdq \in [1..MaxPri -> Seq(Task)] BY <1>2 DEF TypeOK
<1>4. CASE ExecSleep
  <2>1. CASE UNCHANGED <<rdq, asleep>> BY <2>1, <1>1
  <2>2. CASE ~UNCHANGED <<rdq, asleep>>
    <3>1. PICK t : t = par[cssb].tsk OBVIOUS
    <3>2. t \in Task BY <1>2, <1>4, <3>1, ExecCssb, RequestType DEF ExecSleep, AtSystem
    <3>3. PICK p \in 1..MaxPri : p = Prio[t] BY <3>2
    <3>4. rdq' = [rdq EXCEPT ![p] = RemoveFirst(rdq[p], t)] /\ asleep' = asleep \cup {t}
          BY <1>4, <2>2, <3>1, <3>3 DEF ExecSleep, DeqTCB
    <3>5. Once(rdq[p]) /\ rdq[p] \in Seq(Task) BY <1>3 DEF ReadyInv
    <3>6. /\ ToSet(RemoveFirst(rdq[p], t)) = ToSet(rdq[p]) \ {t}
          /\ Once(RemoveFirst(rdq[p], t))
          BY <3>5, RemoveFirstOnce
    <3>7. ASSUME NEW q \in 1..MaxPri
          PROVE  Once(rdq'[q]) /\ \A u \in ToSet(rdq'[q]) : Prio[u] = q /\ u \notin asleep'
      <4>1. CASE q = p
        BY <1>3, <3>4, <3>6, <4>1 DEF ReadyInv
      <4>2. CASE q # p
        <5>1. rdq'[q] = rdq[q] BY <1>3, <3>4, <4>2
        <5>2. t \notin ToSet(rdq[q]) BY <3>3, <4>2 DEF ReadyInv
        <5> QED BY <3>4, <5>1, <5>2 DEF ReadyInv
      <4> QED BY <4>1, <4>2
    <3> QED BY <3>7 DEF ReadyInv
  <2> QED BY <2>1, <2>2
<1>5. CASE ExecWakeup
  <2>1. PICK t : t = par[cssb].tsk OBVIOUS
  <2>2. t \in Task BY <1>2, <1>5, <2>1, ExecCssb, RequestType DEF ExecWakeup, AtSystem
  <2>3. PICK p \in 1..MaxPri : p = Prio[t] BY <2>2
  <2>4. CASE t \in asleep
    <3>1. rdq' = [rdq EXCEPT ![p] = Append(rdq[p], t)] /\ asleep' = asleep \ {t}
          BY <1>5, <2>1, <2>3, <2>4 DEF ExecWakeup
    <3>2. rdq[p] \in Seq(Task) /\ Once(rdq[p]) /\ t \notin ToSet(rdq[p])
          BY <1>3, <2>4 DEF ReadyInv
    <3>3. ToSet(Append(rdq[p], t)) = ToSet(rdq[p]) \cup {t} /\ Once(Append(rdq[p], t))
          BY <2>2, <3>2, AppendOnce
    <3>4. ASSUME NEW q \in 1..MaxPri
          PROVE  Once(rdq'[q]) /\ \A u \in ToSet(rdq'[q]) : Prio[u] = q /\ u \notin asleep'
      <4>1. CASE q = p
        BY <1>3, <2>3, <3>1, <3>3, <4>1 DEF ReadyInv
      <4>2. CASE q # p
        <5>1. rdq'[q] = rdq[q] BY <1>3, <3>1, <4>2
        <5> QED BY <3>1, <5>1 DEF ReadyInv
      <4> QED BY <4>1, <4>2
    <3> QED BY <3>4 DEF ReadyInv
  <2>5. CASE t \notin asleep
    <3>1. UNCHANGED <<rdq, asleep>> BY <1>5, <2>1, <2>5 DEF ExecWakeup
    <3> QED BY <3>1, <1>1
  <2> QED BY <2>4, <2>5
<1>6. CASE ExecRotate
  <2>1. CASE UNCHANGED rdq
    BY <2>1, <1>1, <1>6 DEF ExecRotate
  <2>2. CASE ~UNCHANGED rdq
    <3>1. PICK p : p = par[cssb].pri OBVIOUS
    <3>2. p \in 1..MaxPri BY <1>2, <1>6, <3>1, ExecCssb, RequestType DEF ExecRotate, AtSystem
    <3>3. /\ rdq[p] # <<>> /\ rdq' = [rdq EXCEPT ![p] = Append(Tail(rdq[p]), Head(rdq[p]))]
          /\ asleep' = asleep
          BY <1>6, <2>2, <3>1 DEF ExecRotate
    <3>4. rdq[p] \in Seq(Task) /\ Once(rdq[p]) BY <1>3, <3>2 DEF ReadyInv
    <3>5. /\ Tail(rdq[p]) \in Seq(Task) /\ Head(rdq[p]) \in Task /\ Once(Tail(rdq[p]))
          /\ Head(rdq[p]) \notin ToSet(Tail(rdq[p]))
          /\ ToSet(rdq[p]) = {Head(rdq[p])} \cup ToSet(Tail(rdq[p]))
          BY <3>3, <3>4, TailOnce
    <3>6. PICK r \in Seq(Task), u \in Task : r = Tail(rdq[p]) /\ u = Head(rdq[p]) BY <3>5
    <3>7. /\ ToSet(Append(r, u)) = ToSet(rdq[p]) /\ Once(Append(r, u))
      <4>1. Once(r) /\ u \notin ToSet(r) /\ ToSet(rdq[p]) = ToSet(r) \cup {u}
            BY <3>5, <3>6
      <4> QED BY <4>1, AppendOnce
    <3>8. ASSUME NEW q \in 1..MaxPri
          PROVE  Once(rdq'[q]) /\ \A v \in ToSet(rdq'[q]) : Prio[v] = q /\ v \notin asleep'
      <4>1. CASE q = p
        <5>1. rdq'[q] = Append(r, u) BY <1>3, <3>3, <3>6, <4>1
        <5> QED BY <3>3, <3>7, <4>1, <5>1 DEF ReadyInv
      <4>2. CASE q # p
        <5>1. rdq'[q] = rdq[q] BY <1>3, <3>3, <4>2
        <5> QED BY <3>3, <5>1 DEF ReadyInv
      <4> QED BY <4>1, <4>2
    <3> QED BY <3>8 DEF ReadyInv
  <2> QED BY <2>1, <2>2
<1>7. CASE \E t \in Task : TaskStep(t)
  BY <1>1, <1>7 DEF TaskStep, TaskRequest, NoExs, DisDsp, EnaDsp, LocCpu, UnlCpu, ClearIms,
                    RelRun, EntSys, EntSys0, tcbs, systbl
<1>8. CASE DeqSSB \/ RelSSB \/ ClearCssb \/ Select \/ Resume \/ Idle
  BY <1>1, <1>8 DEF DeqSSB, RelSSB, ClearCssb, Select, Resume, Idle, tcbs
<1>9. CASE IntStep
  BY <1>1, <1>9 DEF IntStep, IntEnter, GetSSB, EnqSSB, IntReturn, IntDispatch, tcbs
<1>10. CASE UNCHANGED vars
  BY <1>1, <1>10 DEF vars, tcbs
<1> QED BY <1>4, <1>5, <1>6, <1>7, <1>8, <1>9, <1>10 DEF Next, SystemStep

(* LEMMA: a request is served as it was made, and the lock taken before an *)
(* object is looked up keeps the processor with the task until it is.      *)
LEMMA RequestStep ==
    ASSUME IInv, ChoiceInv, RequestInv, [Next]_vars
    PROVE  RequestInv'
<1> USE ConstantsAssumption
<1>1. TypeOK /\ LevelInv BY DEF IInv
<1>2. /\ tpc \in [Task -> StubPc] /\ par \in [Task \cup SSB -> Request \cup {Served}]
      /\ isr \in Seq(SSB \cup {NONE}) /\ dlock \in BOOLEAN
      BY <1>1 DEF TypeOK
<1>3. Len(isr) \in Nat /\ \A i \in 1..Len(isr) : isr[i] \in SSB \cup {NONE}
      BY <1>2, LenProperties, ElementOfSeq
<1>4. ASSUME NEW t \in Task, TaskStep(t) PROVE RequestInv'
  <2>0. Executes(t) /\ isr = <<>> /\ ctcb = t /\ cssb = NONE
        BY <1>1, <1>4 DEF TaskStep, TaskRequest, NoExs, DisDsp, EnaDsp, LocCpu, UnlCpu,
                          ClearIms, RelRun, EntSys, EntSys0, Executes, LevelInv
  <2>1. ASSUME NEW r \in Request, TaskRequest(t, r) PROVE RequestInv'
    <3>1. /\ par' = [par EXCEPT ![t] = r] /\ tpc' = [tpc EXCEPT ![t] = "stub"]
          /\ dlock' = IF r.op = "wup" THEN TRUE ELSE dlock
          /\ UNCHANGED <<ctcb, cssb, isr>>
          BY <2>1 DEF TaskRequest
    <3>2. par'[t] = r /\ \A u \in (Task \cup SSB) \ {t} : par'[u] = par[u] BY <1>2, <3>1
    <3>3. \A u \in Task \ {t} : tpc'[u] = tpc[u] BY <1>2, <3>1
    <3>4. \A i \in 1..Len(isr) : isr[i] # NONE => par'[isr[i]] = par[isr[i]]
          BY <1>3, <3>2
    <3> QED BY <2>0, <3>1, <3>2, <3>3, <3>4 DEF RequestInv
  <2>2. CASE DisDsp(t) \/ LocCpu(t)
    BY <2>2 DEF DisDsp, LocCpu, RequestInv, tcbs, cpu, systbl
  <2>3. CASE NoExs(t) \/ EnaDsp(t) \/ UnlCpu(t) \/ ClearIms(t) \/ RelRun(t)
    <3>1. /\ UNCHANGED <<par, ctcb, cssb, isr>> /\ tpc[t] # "stub"
          BY <2>3 DEF NoExs, EnaDsp, UnlCpu, ClearIms, RelRun, tcbs, systbl
    <3>2. /\ \A u \in Task \ {t} : tpc'[u] = tpc[u]
          /\ tpc'[t] # "stub"
          BY <1>2, <2>3 DEF NoExs, EnaDsp, UnlCpu, ClearIms, RelRun
    <3> QED BY <2>0, <3>1, <3>2 DEF RequestInv
  <2>4. CASE EntSys(t) \/ EntSys0(t)
    <3>1. UNCHANGED <<par, isr>> /\ tpc' = [tpc EXCEPT ![t] = "user"] /\ cssb' \in {cssb, t}
          BY <2>4 DEF EntSys, EntSys0, SaveContext
    <3>2. tpc'[t] = "user" /\ \A u \in Task \ {t} : tpc'[u] = tpc[u] BY <1>2, <3>1
    <3> QED BY <2>0, <3>1, <3>2 DEF RequestInv
  <2> QED BY <1>4, <2>1, <2>2, <2>3, <2>4 DEF TaskStep
<1>5. CASE ExecSleep \/ ExecWakeup \/ ExecRotate
  <2>1. /\ par' = [par EXCEPT ![cssb] = Served]
        /\ UNCHANGED <<cssb, isr, tpc, dlock>>
        /\ ctcb' = ctcb \/ ~dspint
        BY <1>5 DEF ExecSleep, ExecWakeup, ExecRotate, AfterService, RequestDispatch
  <2>2. cssb \in Task \cup SSB BY <1>1, <1>5, ExecCssb DEF ExecSleep, ExecWakeup, ExecRotate, AtSystem
  <2>3. par'[cssb] = Served /\ \A u \in (Task \cup SSB) \ {cssb} : par'[u] = par[u]
        BY <1>2, <2>1, <2>2
  <2>4. isr = <<>> /\ Len(isr) = 0 BY <1>5 DEF ExecSleep, ExecWakeup, ExecRotate, AtSystem
  <2>5. \A u \in Task : tpc[u] = "stub" => par'[u] = par[u]
        BY <2>2, <2>3 DEF RequestInv
  <2>6. \A u \in Task : tpc[u] = "stub" /\ par[u].op = "wup" => ctcb' = u
        BY <2>1 DEF RequestInv, dspint
  <2> QED BY <2>1, <2>4, <2>5, <2>6 DEF RequestInv
<1>6. CASE DeqSSB
  <2>1. UNCHANGED <<par, tpc, dlock, ctcb, isr>> BY <1>6 DEF DeqSSB, tcbs
  <2>2. cssb' \in Task => cssb' = cssb
    <3>1. CASE ssbq = <<>> BY <1>6, <3>1 DEF DeqSSB
    <3>2. CASE ssbq # <<>>
      <4>1. Head(ssbq) \in SSB BY <1>1, <3>2, HeadTailProperties DEF LevelInv
      <4> QED BY <1>6, <3>2, <4>1 DEF DeqSSB
    <3> QED BY <3>1, <3>2
  <2> QED BY <2>1, <2>2 DEF RequestInv
<1>7. CASE RelSSB \/ ClearCssb \/ Select
  <2>1. UNCHANGED <<par, tpc, dlock, ctcb, isr>> /\ cssb' \in {cssb, NONE}
        BY <1>7 DEF RelSSB, ClearCssb, Select, tcbs, systbl
  <2> QED BY <2>1 DEF RequestInv
<1>8. CASE Resume \/ Idle
  <2>1. UNCHANGED <<par, tpc, dlock, cssb, isr>>
        BY <1>8 DEF Resume, Idle, tcbs
  <2>2. ctcb # NONE => ctcb' = ctcb BY <1>8 DEF Resume, Idle, ChoiceInv, AtSystem
  <2> QED BY <2>1, <2>2 DEF RequestInv
<1>9. CASE IntEnter
  <2>1. UNCHANGED <<par, tpc, dlock, ctcb, cssb>> /\ isr' = Append(isr, NONE)
        BY <1>9 DEF IntEnter, systbl, tcbs
  <2>2. /\ Len(isr') = Len(isr) + 1 /\ isr'[Len(isr) + 1] = NONE
        /\ \A i \in 1..Len(isr) : isr'[i] = isr[i]
        BY <1>2, <2>1, AppendProperties
  <2>3. \A i \in 1..Len(isr') : i \in 1..Len(isr) \/ i = Len(isr) + 1 BY <1>3, <2>2
  <2> QED BY <2>1, <2>2, <2>3 DEF RequestInv
<1>10. ASSUME NEW b \in SSB, NEW r \in Request, GetSSB(b, r) PROVE RequestInv'
  <2>1. /\ UNCHANGED <<tpc, dlock, ctcb, cssb>> /\ b \in SSB
        /\ par' = [par EXCEPT ![b] = r] /\ isr' = [isr EXCEPT ![icnt] = b]
        BY <1>10 DEF GetSSB
  <2>2. par'[b] = r /\ \A u \in (Task \cup SSB) \ {b} : par'[u] = par[u] BY <1>2, <2>1
  <2>3. \A u \in Task : par'[u] = par[u] BY <2>2
  <2>4. /\ Len(isr') = Len(isr)
        /\ \A i \in 1..Len(isr) : isr'[i] = b \/ isr'[i] = isr[i]
        BY <1>2, <1>3, <2>1
  <2>5. \A i \in 1..Len(isr) : isr[i] # NONE /\ isr[i] # b => par'[isr[i]] \in Request
        BY <1>3, <2>2 DEF RequestInv
  <2> QED BY <2>1, <2>2, <2>3, <2>4, <2>5 DEF RequestInv
<1>11. CASE EnqSSB
  <2>1. UNCHANGED <<tpc, dlock, ctcb, cssb, par>> /\ isr' = [isr EXCEPT ![icnt] = NONE]
        BY <1>11 DEF EnqSSB, tcbs
  <2>2. /\ Len(isr') = Len(isr)
        /\ \A i \in 1..Len(isr) : isr'[i] = NONE \/ isr'[i] = isr[i]
        BY <1>2, <1>3, <2>1
  <2> QED BY <2>1, <2>2 DEF RequestInv
<1>12. CASE IntReturn \/ IntDispatch
  <2>1. UNCHANGED <<tpc, dlock, ctcb, cssb, par>> /\ isr' = Front(isr) /\ isr # <<>>
    <3>1. UNCHANGED <<tpc, dlock, ctcb, cssb, par>> /\ isr' = Front(isr)
          BY <1>12 DEF IntReturn, IntDispatch, tcbs, systbl
    <3>2. Len(isr) > 0 BY <1>12 DEF IntReturn, IntDispatch, Handling, icnt
    <3> QED BY <3>1, <3>2
  <2>2. /\ Len(isr') = Len(isr) - 1 /\ \A i \in 1..Len(isr') : isr'[i] = isr[i]
        BY <1>2, <2>1, FrontType
  <2>3. \A i \in 1..Len(isr') : i \in 1..Len(isr) BY <1>3, <2>2
  <2> QED BY <2>1, <2>2, <2>3 DEF RequestInv
<1>13. CASE UNCHANGED vars
  BY <1>13 DEF vars, systbl, tcbs, cpu, RequestInv
<1> QED BY <1>4, <1>5, <1>6, <1>7, <1>8, <1>9, <1>10, <1>11, <1>12, <1>13
        DEF Next, SystemStep, IntStep

(* LEMMA: the choice holds on while neither the ready queues nor the       *)
(* system table's idea of who runs change.                                 *)
LEMMA ChoiceSame ==
    ASSUME ChoiceInv, UNCHANGED <<rdq, asleep, ctcb, pri, nxt, lv, rdsp, dsp, dlock, ims, tpc, imask>>,
           isr' # <<>> => isr # <<>> \/ ~imask
    PROVE  ChoiceInv'
<1>1. HighestReady' = HighestReady BY HighestSame
<1>2. Excused' <=> Excused BY DEF Excused, dspint
<1> QED BY <1>1, <1>2 DEF ChoiceInv

(* LEMMA: a dispatch that is asked for is made, or made up for.            *)
LEMMA ChoiceStep ==
    ASSUME IInv, ReadyInv, ChoiceInv, [Next]_vars
    PROVE  ChoiceInv'
<1> USE ConstantsAssumption
<1>1. TypeOK /\ LevelInv BY DEF IInv
<1>2. /\ tpc \in [Task -> StubPc] /\ isr \in Seq(SSB \cup {NONE}) /\ ctcb \in Task \cup {NONE}
      /\ dlock \in BOOLEAN /\ dsp \in BOOLEAN /\ ims \in BOOLEAN /\ imask \in BOOLEAN
      /\ rdsp \in BOOLEAN /\ rdq \in [1..MaxPri -> Seq(Task)]
      BY <1>1 DEF TypeOK
<1>3. ASSUME NEW t \in Task, TaskStep(t) PROVE ChoiceInv'
  <2>0. /\ lv = "task" /\ isr = <<>> /\ ctcb = t /\ isr' = isr
        /\ UNCHANGED <<rdq, asleep, pri, nxt>>
        BY <1>3 DEF TaskStep, TaskRequest, NoExs, DisDsp, EnaDsp, LocCpu, UnlCpu,
                    ClearIms, RelRun, EntSys, EntSys0, Executes, tcbs, cpu, systbl
  <2>1. HighestReady' = HighestReady BY <2>0, HighestSame
  <2>2. t \notin asleep /\ pri = Prio[t] /\ (t = HighestReady \/ (rdsp /\ Excused)) /\ t # NONE
        BY <2>0 DEF ChoiceInv
  <2>3. CASE EntSys(t) \/ EntSys0(t)
    <3>1. /\ lv' \in {"exec", "deq"} /\ SaveContext(t) /\ UNCHANGED dsp
          BY <2>3 DEF EntSys, EntSys0
    <3>2. CASE ~dsp /\ ~imask /\ rdsp
      BY <2>0, <3>1, <3>2 DEF SaveContext, ChoiceInv
    <3>3. CASE ~(~dsp /\ ~imask /\ rdsp)
      <4>1. ctcb' = t /\ rdsp' = rdsp /\ ims' = imask BY <2>0, <3>1, <3>3 DEF SaveContext
      <4>2. ~rdsp \/ dspint' BY <1>2, <3>1, <3>3, <4>1 DEF dspint
      <4>3. t = HighestReady \/ (rdsp' /\ Excused') BY <2>2, <4>1, <4>2 DEF Excused
      <4> QED BY <2>0, <2>1, <2>2, <3>1, <4>1, <4>3 DEF ChoiceInv
    <3> QED BY <3>2, <3>3
  <2>4. CASE ~(EntSys(t) \/ EntSys0(t))
    <3>1. UNCHANGED <<lv, ctcb, rdsp>>
          BY <1>3, <2>4 DEF TaskStep, TaskRequest, NoExs, DisDsp, EnaDsp, LocCpu, UnlCpu,
                            ClearIms, RelRun, cpu, systbl
    <3>2. rdsp /\ Excused => Excused'
      <4>1. SUFFICES ASSUME rdsp, Excused PROVE Excused' OBVIOUS
      <4>2. dspint \/ imask \/ tpc[t] \in {"unlock", "relrun", "entsys0"}
            BY <2>0, <4>1 DEF Excused
      <4>3. ASSUME NEW r \in Request, TaskRequest(t, r) PROVE Excused'
        <5>1. /\ dlock' = IF r.op = "wup" THEN TRUE ELSE dlock
              /\ UNCHANGED <<dsp, ims, imask>> /\ tpc[t] = "user"
              BY <4>3 DEF TaskRequest
        <5> QED BY <2>0, <3>1, <4>2, <5>1 DEF Excused, dspint
      <4>4. CASE DisDsp(t) \/ LocCpu(t)
        BY <2>0, <3>1, <4>4 DEF DisDsp, LocCpu, Excused, dspint
      <4>5. CASE NoExs(t) \/ EnaDsp(t) \/ UnlCpu(t) \/ ClearIms(t)
        <5>1. tpc'[t] \in {"relrun", "unlock"}
              BY <1>2, <4>5 DEF NoExs, EnaDsp, UnlCpu, ClearIms
        <5> QED BY <2>0, <3>1, <5>1 DEF Excused
      <4>6. CASE RelRun(t)
        <5>1. CASE imask \/ dsp
          <6>1. UNCHANGED <<dsp, imask>> BY <4>6 DEF RelRun
          <6> QED BY <2>0, <3>1, <5>1, <6>1 DEF Excused, dspint
        <5>2. CASE ~(imask \/ dsp)
          <6>1. tpc'[t] = "entsys0" BY <1>2, <4>1, <4>6, <5>2 DEF RelRun
          <6> QED BY <2>0, <3>1, <6>1 DEF Excused
        <5> QED BY <5>1, <5>2
      <4> QED BY <1>3, <2>4, <4>3, <4>4, <4>5, <4>6 DEF TaskStep
    <3> QED BY <2>0, <2>1, <2>2, <3>1, <3>2 DEF ChoiceInv
  <2> QED BY <2>3, <2>4
(* A service in progress. *)
<1>4. ASSUME lv = "exec", isr = <<>>, lv' \in {"rel", "clr"},
             UNCHANGED <<isr, pri, dsp, dlock, ims, tpc>>,
             \/ ctcb' = NONE
             \/ /\ ctcb' = ctcb
                /\ ctcb \in asleep' => ctcb \in asleep
                /\ rdsp => rdsp'
                /\ \/ rdsp' /\ dspint
                   \/ /\ \A q \in 1..(pri - 1) : rdq'[q] = rdq[q]
                      /\ pri \in 1..MaxPri /\ rdq[pri] # <<>> =>
                            rdq'[pri] # <<>> /\ Head(rdq'[pri]) = Head(rdq[pri])
      PROVE  ChoiceInv'
  <2>1. CASE ctcb' = NONE BY <1>4, <2>1 DEF ChoiceInv
  <2>2. CASE ctcb' # NONE
    <3>1. PICK t \in Task : t = ctcb /\ t # NONE BY <1>2, <1>4, <2>2
    <3>2. t = ctcb' /\ t \notin asleep' /\ pri = Prio[t] /\ (rdsp => rdsp')
          BY <1>4, <2>2, <3>1 DEF ChoiceInv
    <3>3. Excused \/ dspint => Excused' BY <1>4, <3>1, <3>2 DEF Excused, dspint
    <3>4. t = HighestReady' \/ (rdsp' /\ Excused')
      <4>1. CASE rdsp /\ Excused BY <3>2, <3>3, <4>1
      <4>2. CASE rdsp' /\ dspint BY <3>3, <4>2
      <4>3. CASE ~(rdsp /\ Excused) /\ ~(rdsp' /\ dspint)
        <5>1. t = HighestReady BY <3>1, <4>3 DEF ChoiceInv
        <5>2. pri \in 1..MaxPri /\ rdq[pri] # <<>> /\ Head(rdq[pri]) = t
              BY <1>1, <3>1, <3>2, <5>1, HighestFacts
        <5>3. /\ \A q \in 1..(pri - 1) : rdq'[q] = rdq[q]
              /\ rdq'[pri] # <<>> /\ Head(rdq'[pri]) = t
              BY <1>4, <2>2, <4>3, <5>2
        <5> QED BY <1>1, <3>2, <5>1, <5>3, HighestKept
      <4> QED BY <4>1, <4>2, <4>3
    <3>5. lv' # "task" /\ lv' # "res" /\ isr' = <<>> BY <1>4
    <3> QED BY <1>4, <3>2, <3>4, <3>5 DEF ChoiceInv
  <2> QED BY <2>1, <2>2
<1>5. CASE ExecSleep \/ ExecWakeup \/ ExecRotate
  <2>1. /\ lv = "exec" /\ isr = <<>> /\ lv' \in {"rel", "clr"}
        /\ UNCHANGED <<isr, pri, dsp, dlock, ims, tpc>>
        BY <1>5 DEF ExecSleep, ExecWakeup, ExecRotate, AtSystem, AfterService
  <2>2. pri \in 1..(MaxPri + 1) BY <1>1 DEF TypeOK
  <2>3. CASE ExecSleep
    <3>1. ctcb' = NONE \/ UNCHANGED <<rdq, asleep, ctcb, rdsp>>
          BY <2>3 DEF ExecSleep
    <3>2. CASE ctcb' = NONE BY <2>1, <3>2, <1>4
    <3>3. CASE UNCHANGED <<rdq, asleep, ctcb, rdsp>>
      <4>1. \A q \in 1..(pri - 1) : rdq'[q] = rdq[q] BY <3>3
      <4>2. rdq'[pri] = rdq[pri] BY <3>3
      <4> QED BY <2>1, <3>3, <4>1, <4>2, <1>4
    <3> QED BY <3>1, <3>2, <3>3
  <2>4. CASE ExecWakeup
    <3>1. PICK t : t = par[cssb].tsk OBVIOUS
    <3>2. t \in Task BY <1>1, <2>4, <3>1, ExecCssb, RequestType DEF ExecWakeup, AtSystem
    <3>3. PICK p \in 1..MaxPri : p = Prio[t] BY <3>2
    <3>4. CASE t \in asleep
      <4>1. /\ asleep' = asleep \ {t} /\ rdq' = [rdq EXCEPT ![p] = Append(rdq[p], t)]
            /\ IF pri > p THEN RequestDispatch ELSE UNCHANGED <<rdsp, ctcb>>
            BY <2>4, <3>1, <3>3, <3>4 DEF ExecWakeup
      <4>2. CASE pri > p
        <5>1. ctcb' = NONE \/ (rdsp' = TRUE /\ ctcb' = ctcb /\ dspint)
              BY <4>1, <4>2 DEF RequestDispatch
        <5>2. CASE ctcb' = NONE BY <2>1, <5>2, <1>4
        <5>3. CASE rdsp' = TRUE /\ ctcb' = ctcb /\ dspint BY <2>1, <4>1, <5>3, <1>4
        <5> QED BY <5>1, <5>2, <5>3
      <4>3. CASE ~(pri > p)
        <5>1. UNCHANGED <<rdsp, ctcb>> BY <4>1, <4>3
        <5>2. \A q \in 1..(pri - 1) : rdq'[q] = rdq[q] BY <1>2, <2>2, <4>1, <4>3
        <5>3. pri \in 1..MaxPri /\ rdq[pri] # <<>> =>
                 rdq'[pri] # <<>> /\ Head(rdq'[pri]) = Head(rdq[pri])
          <6>1. SUFFICES ASSUME pri \in 1..MaxPri, rdq[pri] # <<>>
                         PROVE  rdq'[pri] # <<>> /\ Head(rdq'[pri]) = Head(rdq[pri])
                OBVIOUS
          <6>2. CASE pri = p
            <7>1. rdq'[pri] = Append(rdq[pri], t) /\ rdq[pri] \in Seq(Task) BY <1>2, <4>1, <6>1, <6>2
            <7> QED BY <3>2, <6>1, <7>1, AppendOnce
          <6>3. CASE pri # p BY <1>2, <4>1, <6>1, <6>3
          <6> QED BY <6>2, <6>3
        <5> QED BY <2>1, <4>1, <5>1, <5>2, <5>3, <1>4
      <4> QED BY <4>2, <4>3
    <3>5. CASE t \notin asleep
      <4>1. UNCHANGED <<asleep, rdq, rdsp, ctcb>> BY <2>4, <3>1, <3>5 DEF ExecWakeup
      <4>2. (\A q \in 1..(pri - 1) : rdq'[q] = rdq[q]) /\ rdq'[pri] = rdq[pri] BY <4>1
      <4> QED BY <2>1, <4>1, <4>2, <1>4
    <3> QED BY <3>4, <3>5
  <2>5. CASE ExecRotate
    <3>1. PICK p : p = par[cssb].pri OBVIOUS
    <3>2. p \in 1..MaxPri BY <1>1, <2>5, <3>1, ExecCssb, RequestType DEF ExecRotate, AtSystem
    <3>3. asleep' = asleep BY <2>5 DEF ExecRotate
    <3>4. CASE rdq[p] = <<>>
      <4>1. UNCHANGED <<rdq, rdsp, ctcb>> BY <2>5, <3>1, <3>4 DEF ExecRotate
      <4>2. (\A q \in 1..(pri - 1) : rdq'[q] = rdq[q]) /\ rdq'[pri] = rdq[pri] BY <4>1
      <4> QED BY <2>1, <3>3, <4>1, <4>2, <1>4
    <3>5. CASE rdq[p] # <<>>
      <4>1. /\ rdq' = [rdq EXCEPT ![p] = Append(Tail(rdq[p]), Head(rdq[p]))]
            /\ IF pri >= p THEN RequestDispatch ELSE UNCHANGED <<rdsp, ctcb>>
            BY <2>5, <3>1, <3>5 DEF ExecRotate
      <4>2. CASE pri >= p
        <5>1. ctcb' = NONE \/ (rdsp' = TRUE /\ ctcb' = ctcb /\ dspint)
              BY <4>1, <4>2 DEF RequestDispatch
        <5>2. CASE ctcb' = NONE BY <2>1, <5>2, <1>4
        <5>3. CASE rdsp' = TRUE /\ ctcb' = ctcb /\ dspint BY <2>1, <3>3, <5>3, <1>4
        <5> QED BY <5>1, <5>2, <5>3
      <4>3. CASE ~(pri >= p)
        <5>1. UNCHANGED <<rdsp, ctcb>> BY <4>1, <4>3
        <5>2. \A q \in 1..(pri - 1) : rdq'[q] = rdq[q] BY <1>2, <2>2, <3>2, <4>1, <4>3
        <5>3. pri \in 1..MaxPri => rdq'[pri] = rdq[pri] BY <1>2, <2>2, <3>2, <4>1, <4>3
        <5> QED BY <2>1, <3>3, <5>1, <5>2, <5>3, <1>4
      <4> QED BY <4>2, <4>3
    <3> QED BY <3>4, <3>5
  <2> QED BY <1>5, <2>3, <2>4, <2>5
<1>6. CASE DeqSSB \/ RelSSB \/ ClearCssb \/ Select
  <2>1. /\ UNCHANGED <<rdq, asleep, ctcb, pri, rdsp, dsp, dlock, ims, tpc, imask, isr>>
        /\ lv' # "task" /\ lv # "task"
        BY <1>6 DEF DeqSSB, RelSSB, ClearCssb, Select, AtSystem, tcbs, systbl
  <2>2. lv' = "res" => nxt' = IF ctcb # NONE THEN ctcb ELSE HighestReady
        BY <1>6 DEF DeqSSB, RelSSB, ClearCssb, Select
  <2>3. HighestReady' = HighestReady BY <2>1, HighestSame
  <2>4. Excused => Excused' BY <2>1 DEF Excused, dspint
  <2> QED BY <2>1, <2>2, <2>3, <2>4 DEF ChoiceInv
<1>7. CASE Resume
  <2>1. PICK t : t = nxt OBVIOUS
  <2>2. /\ UNCHANGED <<rdq, asleep, rdsp, dsp, dlock, ims, tpc, isr>>
        /\ lv = "res" /\ isr = <<>> /\ lv' = "task" /\ t # NONE /\ pri' = Prio[t] /\ ctcb' = t
        BY <1>7, <2>1 DEF Resume, AtSystem
  <2>3. HighestReady' = HighestReady BY <2>2, HighestSame
  <2>4. CASE ctcb # NONE
    <3>1. t = ctcb BY <2>1, <2>2, <2>4 DEF ChoiceInv
    <3>2. Excused => Excused' BY <2>2, <3>1 DEF Excused, dspint
    <3>3. t \notin asleep /\ (t = HighestReady \/ (rdsp /\ Excused))
          BY <2>4, <3>1 DEF ChoiceInv
    <3> QED BY <2>2, <2>3, <3>2, <3>3 DEF ChoiceInv
  <2>5. CASE ctcb = NONE
    <3>1. t = HighestReady BY <2>1, <2>2, <2>5 DEF ChoiceInv
    <3>2. t \notin asleep BY <1>1, <2>2, <3>1, HighestFacts
    <3> QED BY <2>2, <2>3, <3>1, <3>2 DEF ChoiceInv
  <2> QED BY <2>4, <2>5
<1>8. CASE Idle
  BY <1>8 DEF Idle, AtSystem, ChoiceInv
<1>9. CASE IntEnter
  <2>1. isr = <<>> => Len(isr) = 0 OBVIOUS
  <2>2. isr = <<>> => ~imask BY <1>9, <2>1 DEF IntEnter, icnt
  <2> QED BY <1>9, <2>2, ChoiceSame DEF IntEnter, systbl, tcbs
<1>10. CASE (\E b \in SSB, r \in Request : GetSSB(b, r)) \/ EnqSSB
  <2>1. isr # <<>>
    <3>1. Len(isr) > 0 BY <1>10 DEF GetSSB, EnqSSB, Handling, icnt
    <3> QED BY <3>1
  <2> QED BY <1>10, <2>1, ChoiceSame DEF GetSSB, EnqSSB, tcbs
<1>11. CASE IntReturn \/ IntDispatch
  <2>1. isr # <<>> /\ ~imask
    <3>1. Len(isr) > 0 BY <1>11 DEF IntReturn, IntDispatch, Handling, icnt
    <3>2. isr # <<>> BY <3>1
    <3> QED BY <3>2 DEF ChoiceInv
  <2>2. CASE IntReturn BY <2>1, <2>2, ChoiceSame DEF IntReturn, systbl, tcbs
  <2>3. CASE IntDispatch
    <3>1. /\ UNCHANGED <<rdq, asleep, ctcb, pri, rdsp, dsp, dlock, ims, tpc>>
          /\ lv' = "deq" /\ imask' = FALSE
          BY <2>3 DEF IntDispatch, systbl
    <3>2. HighestReady' = HighestReady BY <3>1, HighestSame
    <3>3. Excused => Excused' BY <2>1, <3>1 DEF Excused, dspint
    <3> QED BY <3>1, <3>2, <3>3 DEF ChoiceInv
  <2> QED BY <1>11, <2>2, <2>3
<1>12. CASE UNCHANGED vars
  BY <1>12, ChoiceSame DEF vars, systbl, tcbs, cpu
<1> QED BY <1>3, <1>5, <1>6, <1>7, <1>8, <1>9, <1>10, <1>11, <1>12
        DEF Next, SystemStep, IntStep

SchedInv == ReadyInv /\ ChoiceInv /\ RequestInv

THEOREM SchedInvariance == Spec => []SchedInv
<1>1. Init => SchedInv
  <2> SUFFICES ASSUME Init PROVE SchedInv OBVIOUS
  <2> USE ConstantsAssumption, InitRdqAssumption
  <2>1. ReadyInv
    <3>2. \A p \in 1..MaxPri : \A i \in 1..Len(InitRdq[p]) : InitRdq[p][i] \in Task
          BY ElementOfSeq
    <3>3. \A p \in 1..MaxPri : Once(InitRdq[p]) BY DEF Once
    <3>4. ASSUME NEW p \in 1..MaxPri, NEW t \in ToSet(InitRdq[p]) PROVE Prio[t] = p
      <4>0. PICK q \in Seq(Task) : q = InitRdq[p] OBVIOUS
      <4>1. PICK i \in 1..Len(q) : q[i] = t
        <5>1. t \in ToSet(q) BY <4>0, <3>4
        <5>2. q \in Seq(Task) OBVIOUS
        <5> QED BY ONLY <5>1, <5>2, ToSetFacts
      <4>2. t \in Task BY <3>2, <4>0, <4>1
      <4> QED BY <4>0, <4>1, <4>2
    <3> QED BY <3>3, <3>4 DEF Init, ReadyInv
  <2>2. ChoiceInv BY DEF Init, ChoiceInv
  <2>3. RequestInv
    <3>1. Len(isr) = 0 /\ cssb \notin Task BY DEF Init
    <3> QED BY <3>1 DEF Init, RequestInv
  <2> QED BY <2>1, <2>2, <2>3 DEF SchedInv
<1>2. IInv /\ SchedInv /\ [Next]_vars => SchedInv'
  BY ReadyStep, ChoiceStep, RequestStep DEF SchedInv
<1> QED BY <1>1, <1>2, Invariance, PTL DEF Spec

(* THEOREM: the task that runs is the one the ready queues demand, unless  *)
(* a dispatch was deferred that is going to be made up for.                *)
THEOREM HighestRunsAlways == Spec => []HighestRuns
<1>1. IInv /\ SchedInv => HighestRuns
  BY DEF SchedInv, ChoiceInv, HighestRuns, Excused
<1> QED BY <1>1, Invariance, SchedInvariance, PTL

(* THEOREM: between the lookup of an object and the service on it no other *)
(* task becomes current.                                                   *)
THEOREM LockHolds == Spec => []LookupLock
<1>1. SchedInv => LookupLock
  BY DEF SchedInv, RequestInv, LookupLock
<1> QED BY <1>1, SchedInvariance, PTL

-----------------------------------------------------------------------------
(* REFINEMENT.  Dispatch implements AtomicService: what the callers see is *)
(* the requests that are outstanding, in order, and the task that runs.    *)

(* Who has argument registers, and what is in them. *)
Holder == Task \cup SSB
Argument == Request \cup {Served}

(* The requests in the blocks of q, when p holds the arguments. *)
Asked(q, p) == [i \in 1..Len(q) |-> p[q[i]]]

LEMMA AskedFacts ==
    ASSUME NEW q \in Seq(Holder), NEW p \in [Holder -> Argument]
    PROVE  /\ Asked(q, p) \in Seq(Argument) /\ Len(Asked(q, p)) = Len(q)
           /\ \A i \in 1..Len(q) : Asked(q, p)[i] = p[q[i]]
<1>1. Len(q) \in Nat /\ \A i \in 1..Len(q) : q[i] \in Holder BY LenProperties, ElementOfSeq
<1>2. Asked(q, p) \in Seq(Argument) BY <1>1 DEF Asked
<1>3. Len(Asked(q, p)) = Len(q) /\ \A i \in 1..Len(q) : Asked(q, p)[i] = p[q[i]]
      BY <1>1 DEF Asked
<1> QED BY <1>2, <1>3

(* LEMMA: a request in front of others. *)
LEMMA InFront ==
    ASSUME NEW R, NEW s \in Seq(R), NEW r \in R
    PROVE  /\ <<r>> \o s \in Seq(R) /\ <<r>> \o s # <<>>
           /\ Head(<<r>> \o s) = r /\ Tail(<<r>> \o s) = s
           /\ \A e \in R : <<r>> \o Append(s, e) = Append(<<r>> \o s, e)
<1>1. <<r>> \in Seq(R) /\ Len(<<r>>) = 1 /\ <<r>>[1] = r /\ Len(s) \in Nat BY LenProperties
<1>2. PICK t : t = <<r>> \o s OBVIOUS
<1>3. /\ t \in Seq(R) /\ Len(t) = 1 + Len(s)
      /\ \A i \in 1..(1 + Len(s)) : t[i] = IF i <= 1 THEN r ELSE s[i - 1]
      BY <1>1, <1>2, ConcatProperties
<1>4. t # <<>> /\ Head(t) = r
  <2>1. Len(t) # 0 BY <1>1, <1>3
  <2>2. t # <<>> BY <2>1
  <2>3. t[1] = r BY <1>1, <1>3
  <2> QED BY <1>3, <2>2, <2>3
<1>5. Tail(t) = s
  <2>1. /\ Tail(t) \in Seq(R) /\ Len(Tail(t)) = Len(s)
        /\ \A i \in 1..Len(s) : Tail(t)[i] = t[i + 1]
        BY <1>1, <1>3, <1>4, HeadTailProperties
  <2>2. \A i \in 1..Len(s) : t[i + 1] = s[i] BY <1>1, <1>3
  <2> QED BY <2>1, <2>2, SeqEqual
<1>6. ASSUME NEW e \in R PROVE <<r>> \o Append(s, e) = Append(t, e)
  <2>1. Append(s, e) = s \o <<e>> /\ Append(t, e) = t \o <<e>>
        BY <1>3, AppendIsConcat
  <2>2. <<e>> \in Seq(R) OBVIOUS
  <2> QED BY <1>1, <1>2, <2>1, <2>2, ConcatAssociative
<1> QED BY <1>2, <1>3, <1>4, <1>5, <1>6

LEMMA AskedPost ==
    ASSUME NEW q \in Seq(Holder), NEW p \in [Holder -> Argument], NEW b \in Holder
    PROVE  /\ Append(q, b) \in Seq(Holder)
           /\ Asked(Append(q, b), p) = Append(Asked(q, p), p[b])
<1>0. PICK s : s = Append(q, b) OBVIOUS
<1>2. /\ s \in Seq(Holder) /\ Len(s) = Len(q) + 1 /\ s[Len(q) + 1] = b
      /\ \A i \in 1..Len(q) : s[i] = q[i]
      BY <1>0, AppendProperties
<1>3. PICK a \in Seq(Argument) : a = Asked(q, p) /\ Len(a) = Len(q) BY AskedFacts
<1>4. /\ Append(a, p[b]) \in Seq(Argument) /\ Len(Append(a, p[b])) = Len(q) + 1
      /\ \A i \in 1..Len(q) : Append(a, p[b])[i] = a[i]
      /\ Append(a, p[b])[Len(q) + 1] = p[b]
      BY <1>3, AppendProperties
<1>5. /\ Asked(s, p) \in Seq(Argument) /\ Len(Asked(s, p)) = Len(q) + 1
      /\ \A i \in 1..(Len(q) + 1) : Asked(s, p)[i] = p[s[i]]
      BY <1>2, AskedFacts
<1>6. \A i \in 1..Len(q) : a[i] = p[q[i]] BY <1>3, AskedFacts
<1>7. ASSUME NEW i \in 1..(Len(q) + 1) PROVE Asked(s, p)[i] = Append(a, p[b])[i]
  <2>1. Len(q) \in Nat BY LenProperties
  <2>2. CASE i = Len(q) + 1 BY <1>2, <1>4, <1>5, <2>2
  <2>3. CASE i \in 1..Len(q) BY <1>2, <1>4, <1>5, <1>6, <2>3
  <2>4. \A n \in Nat : \A j \in 1..(n + 1) : j = n + 1 \/ j \in 1..n OBVIOUS
  <2> QED BY ONLY <2>1, <2>2, <2>3, <2>4, i \in 1..(Len(q) + 1)
<1>8. Asked(s, p) = Append(a, p[b]) BY <1>4, <1>5, <1>7, SeqEqual
<1> QED BY <1>0, <1>2, <1>3, <1>8

LEMMA AskedFirst ==
    ASSUME NEW q \in Seq(Holder), NEW p \in [Holder -> Argument], q # <<>>
    PROVE  Asked(q, p) = <<p[Head(q)]>> \o Asked(Tail(q), p)
<1>1. PICK h \in Holder, t \in Seq(Holder) : h = Head(q) /\ t = Tail(q) /\ Len(t) = Len(q) - 1
      BY HeadTailProperties
<1>2. \A i \in 1..Len(t) : t[i] = q[i + 1] BY <1>1, HeadTailProperties
<1>3. h = q[1] /\ Len(q) \in Nat /\ Len(q) # 0 BY <1>1, EmptySeq
<1>4. PICK a \in Seq(Argument) : a = Asked(t, p) /\ Len(a) = Len(t)
  <2>1. Asked(t, p) \in Seq(Argument) /\ Len(Asked(t, p)) = Len(t)
        BY AskedFacts
  <2> QED BY <2>1
<1>5. \A i \in 1..Len(t) : a[i] = p[t[i]] BY <1>4, AskedFacts
<1>6. PICK r \in Argument : r = p[h] OBVIOUS
<1>7. /\ <<r>> \o a \in Seq(Argument) /\ Len(<<r>> \o a) = 1 + Len(a)
      /\ \A i \in 1..(1 + Len(a)) : (<<r>> \o a)[i] = IF i <= 1 THEN r ELSE a[i - 1]
  <2>1. <<r>> \in Seq(Argument) /\ Len(<<r>>) = 1 /\ <<r>>[1] = r OBVIOUS
  <2>2. /\ <<r>> \o a \in Seq(Argument) /\ Len(<<r>> \o a) = 1 + Len(a)
        /\ \A i \in 1..(1 + Len(a)) : (<<r>> \o a)[i] = IF i <= 1 THEN <<r>>[i] ELSE a[i - 1]
        BY <2>1, ConcatProperties
  <2> QED BY <2>1, <2>2
<1>8. /\ Asked(q, p) \in Seq(Argument) /\ Len(Asked(q, p)) = Len(q)
      /\ \A i \in 1..Len(q) : Asked(q, p)[i] = p[q[i]]
      BY AskedFacts
<1>9. ASSUME NEW i \in 1..Len(q) PROVE Asked(q, p)[i] = (<<r>> \o a)[i]
  <2>1. CASE i = 1 BY <1>1, <1>3, <1>4, <1>6, <1>7, <1>8, <2>1
  <2>2. CASE i # 1
    <3>1. PICK k \in 1..Len(t) : i = k + 1
      <4>1. i - 1 \in 1..Len(t) /\ i = (i - 1) + 1 BY <1>1, <1>3, <2>2
      <4> QED BY <4>1
    <3>2. Asked(q, p)[i] = p[t[k]] BY <1>2, <1>8, <3>1
    <3>3. (<<r>> \o a)[i] = a[k] BY <1>1, <1>3, <1>4, <1>7, <3>1
    <3> QED BY <1>5, <3>1, <3>2, <3>3
  <2> QED BY <2>1, <2>2
<1>10. Len(<<r>> \o a) = Len(q)
  <2>1. Len(a) = Len(q) - 1 /\ Len(<<r>> \o a) = 1 + Len(a) BY <1>1, <1>4, <1>7
  <2> QED BY ONLY <2>1, <1>3
<1>11. Asked(q, p) = <<r>> \o a BY <1>7, <1>8, <1>9, <1>10, SeqEqual
<1> QED BY <1>1, <1>4, <1>6, <1>11

(* LEMMA: the outstanding requests, with a service in progress and without. *)
LEMMA PendingIs ==
    /\ lv = "exec" => Pending = <<par[cssb]>> \o Asked(ssbq, par)
    /\ lv # "exec" => Pending = <<>> \o Asked(ssbq, par)
    /\ lv' = "exec" => Pending' = <<par'[cssb']>> \o Asked(ssbq', par')
    /\ lv' # "exec" => Pending' = <<>> \o Asked(ssbq', par')
BY DEF Pending, Asked

LEMMA PendingBetween ==
    ASSUME TypeOK, LevelInv
    PROVE  /\ ssbq \in Seq(Holder) /\ par \in [Holder -> Argument] /\ SSB \subseteq Holder
           /\ Asked(ssbq, par) \in Seq(Argument)
           /\ lv # "exec" => Pending = Asked(ssbq, par)
           /\ lv # "exec" /\ ssbq = <<>> => Pending = <<>>
<1>1. ssbq \in Seq(Holder)
  <2>1. ssbq \in Seq(SSB) BY DEF LevelInv
  <2> QED BY <2>1 DEF Holder
<1>2. par \in [Holder -> Argument] /\ SSB \subseteq Holder BY DEF TypeOK, Holder, Argument
<1>3. PICK s \in Seq(Argument) : s = Asked(ssbq, par) BY <1>1, <1>2, AskedFacts
<1>4. <<>> \o s = s BY ConcatEmptySeq
<1>5. ssbq = <<>> => s = <<>>
  <2>1. Len(s) = Len(ssbq) BY <1>1, <1>2, <1>3, AskedFacts
  <2>2. ssbq = <<>> => Len(ssbq) = 0 OBVIOUS
  <2> QED BY <2>1, <2>2, EmptySeq
<1> QED BY <1>1, <1>2, <1>3, <1>4, <1>5, PendingIs

(* LEMMA: what leaves the requests alone. *)
LEMMA PendingSame ==
    ASSUME TypeOK, LevelInv, ssbq' = ssbq, \A i \in 1..Len(ssbq) : par'[ssbq[i]] = par[ssbq[i]],
           lv = "exec" <=> lv' = "exec", lv = "exec" => par'[cssb'] = par[cssb]
    PROVE  Pending' = Pending
<1>1. Asked(ssbq', par') = Asked(ssbq, par) BY DEF Asked
<1> QED BY <1>1, PendingIs

(* LEMMA: the blocks that wait are neither held, nor free, nor in service. *)
LEMMA WaitingBlocks ==
    ASSUME TypeOK, LevelInv, SSBConserved, NEW i \in 1..Len(ssbq)
    PROVE  /\ ssbq[i] \in SSB /\ ssbq[i] \notin free /\ ssbq[i] \notin Task
           /\ lv = "exec" => ssbq[i] # cssb
<1>1. ssbq[i] \in SSB BY ElementOfSeq DEF LevelInv
<1>2. ssbq[i] \in Blocks(ssbq) BY DEF Blocks
<1> QED BY <1>1, <1>2, ConstantsAssumption DEF SSBConserved, SSBNotShared, InService

LEMMA Refinement ==
    ASSUME IInv, SchedInv, [Next]_vars
    PROVE  [Kernel!ANext]_(Kernel!avars)
<1> USE ConstantsAssumption
<1>1. /\ TypeOK /\ LevelInv /\ SSBConserved /\ PostsDrained /\ ReadyInv /\ ChoiceInv /\ RequestInv
      BY DEF IInv, SchedInv
<1>2. ASSUME UNCHANGED <<Pending, Running, asleep, wup>> PROVE UNCHANGED Kernel!avars
      BY <1>2 DEF Kernel!avars
<1>3. ASSUME Pending' = Pending, UNCHANGED <<asleep, wup>>, Running # NONE, Running' = NONE
      PROVE  Kernel!ANext
      BY <1>3 DEF Kernel!ANext, Kernel!Preempt
<1>4. \A i \in 1..Len(ssbq) : ssbq[i] \in SSB /\ ssbq[i] \notin Task BY <1>1, WaitingBlocks
<1>5. ASSUME NEW t \in Task, TaskStep(t) PROVE [Kernel!ANext]_(Kernel!avars)
  <2>1. /\ lv = "task" /\ isr = <<>> /\ ctcb = t /\ cssb = NONE /\ ssbq = <<>>
        /\ UNCHANGED <<asleep, wup>> /\ Running = t /\ t # NONE
        BY <1>1, <1>5 DEF TaskStep, TaskRequest, NoExs, DisDsp, EnaDsp, LocCpu, UnlCpu,
              ClearIms, RelRun, EntSys, EntSys0, Executes, LevelInv, PostsDrained, tcbs, Running
  <2>2. Pending = <<>> BY <1>1, <2>1, PendingBetween
  <2>3. CASE EntSys(t)
    <3>1. PICK r \in Request : r = par[t] BY <1>1, <2>3 DEF EntSys, RequestInv
    <3>2. lv' = "exec" /\ cssb' = t /\ ssbq' = <<>> /\ par' = par
          BY <2>1, <2>3 DEF EntSys
    <3>3. Pending' = <<r>>
      <4>1. Asked(ssbq', par') = <<>> BY <1>1, <2>1, <3>2, PendingBetween, AskedFacts DEF LevelInv
      <4>2. <<r>> \o <<>> = <<r>>
        <5>1. <<r>> \in Seq({r}) OBVIOUS
        <5> QED BY <5>1, ConcatEmptySeq
      <4> QED BY <3>1, <3>2, <4>1, <4>2, PendingIs
    <3>4. Running' = NONE BY <3>2 DEF Running
    <3>5. r \in Kernel!Request BY DEF Request, Kernel!Request
    <3>6. Kernel!Call(r) BY <2>1, <2>2, <3>3, <3>4 DEF Kernel!Call
    <3> QED BY <3>5, <3>6 DEF Kernel!ANext
  <2>4. CASE EntSys0(t)
    <3>1. lv' = "deq" /\ ssbq' = ssbq /\ par' = par BY <2>1, <2>4 DEF EntSys0
    <3>2. Pending' = Pending BY <1>1, <2>1, <3>1, PendingSame
    <3>3. Running' = NONE BY <3>1 DEF Running
    <3> QED BY <1>3, <2>1, <3>2, <3>3
  <2>5. CASE ~EntSys(t) /\ ~EntSys0(t)
    <3>1. UNCHANGED <<lv, ctcb, ssbq, cssb>>
          BY <1>5, <2>5 DEF TaskStep, TaskRequest, NoExs, DisDsp, EnaDsp, LocCpu, UnlCpu,
                            ClearIms, RelRun, systbl, cpu
    <3>2. Len(ssbq) = 0 BY <2>1
    <3>3. Pending' = Pending BY <1>1, <2>1, <3>1, <3>2, PendingSame
    <3>4. Running' = Running BY <3>1 DEF Running
    <3> QED BY <1>2, <2>1, <3>3, <3>4
  <2> QED BY <2>3, <2>4, <2>5
<1>6. CASE ExecSleep \/ ExecWakeup \/ ExecRotate
  <2>1. /\ lv = "exec" /\ lv' \in {"rel", "clr"} /\ par' = [par EXCEPT ![cssb] = Served]
        /\ ssbq' = ssbq
        BY <1>6 DEF ExecSleep, ExecWakeup, ExecRotate, AtSystem, AfterService
  <2>2. Running = NONE /\ Running' = NONE BY <2>1 DEF Running
  <2>3. PICK r \in Argument : r = par[cssb] BY <1>1, <2>1, ExecCssb DEF Argument
  <2>4. PICK s \in Seq(Argument) : s = Asked(ssbq, par) BY <1>1, PendingBetween
  <2>5. Pending # <<>> /\ Head(Pending) = r /\ Tail(Pending) = s
    <3>1. Pending = <<r>> \o s BY <2>1, <2>3, <2>4, PendingIs
    <3> QED BY <3>1, InFront
  <2>6. Pending' = s
    <3>1. \A i \in 1..Len(ssbq) : par'[ssbq[i]] = par[ssbq[i]]
      <4>1. \A i \in 1..Len(ssbq) : ssbq[i] \in SSB /\ ssbq[i] # cssb
            BY <1>1, <2>1, WaitingBlocks
      <4>2. par \in [Task \cup SSB -> Request \cup {Served}] BY <1>1 DEF TypeOK
      <4> QED BY <2>1, <4>1, <4>2
    <3>2. Asked(ssbq', par') = s BY <2>1, <2>4, <3>1 DEF Asked
    <3>3. <<>> \o s = s BY ConcatEmptySeq
    <3> QED BY <2>1, <3>2, <3>3, PendingIs
  <2>7. CASE ExecSleep
    <3>1. r.op = "slp" BY <2>3, <2>7 DEF ExecSleep
    <3>2. PICK t \in Task : t = r.tsk BY <3>1, RequestType DEF Argument
    <3>3. \/ UNCHANGED <<asleep, wup>>
          \/ wup[t] > 0 /\ wup' = [wup EXCEPT ![t] = @ - 1] /\ UNCHANGED asleep
          \/ wup[t] = 0 /\ asleep' = asleep \cup {t} /\ UNCHANGED wup
      <4>1. wup[t] \in 0..MaxWup BY <1>1 DEF TypeOK
      <4>2. ~(wup[t] > 0) => wup[t] = 0 BY <4>1
      <4> QED BY <2>3, <2>7, <3>2, <4>2 DEF ExecSleep
    <3>4. Kernel!ServeSleep(t) BY <3>3 DEF Kernel!ServeSleep
    <3> QED BY <2>2, <2>5, <2>6, <3>1, <3>2, <3>4 DEF Kernel!Serve, Kernel!ANext
  <2>8. CASE ExecWakeup
    <3>1. r.op = "wup" BY <2>3, <2>8 DEF ExecWakeup
    <3>2. PICK t \in Task : t = r.tsk BY <3>1, RequestType DEF Argument
    <3>3. IF t \in asleep
          THEN asleep' = asleep \ {t} /\ UNCHANGED wup
          ELSE /\ wup' = IF wup[t] = MaxWup THEN wup ELSE [wup EXCEPT ![t] = @ + 1]
               /\ UNCHANGED asleep
          BY <2>3, <2>8, <3>2 DEF ExecWakeup
    <3>4. wup[t] = MaxWup <=> ~(wup[t] < MaxWup)
      <4>1. wup[t] \in 0..MaxWup BY <1>1 DEF TypeOK
      <4> QED BY <4>1
    <3>5. Kernel!ServeWakeup(t) BY <3>3, <3>4 DEF Kernel!ServeWakeup
    <3> QED BY <2>2, <2>5, <2>6, <3>1, <3>2, <3>5 DEF Kernel!Serve, Kernel!ANext
  <2>9. CASE ExecRotate
    <3>1. r.op = "rot" /\ UNCHANGED <<asleep, wup>> BY <2>3, <2>9 DEF ExecRotate
    <3> QED BY <2>2, <2>5, <2>6, <3>1 DEF Kernel!Serve, Kernel!ANext
  <2> QED BY <1>6, <2>7, <2>8, <2>9
<1>7. CASE DeqSSB
  <2>1. lv = "deq" /\ UNCHANGED <<par, asleep, wup>> /\ lv' \in {"sel", "exec"}
        BY <1>7 DEF DeqSSB, AtSystem, tcbs
  <2>2. Running = NONE /\ Running' = NONE BY <2>1 DEF Running
  <2>3. Pending' = Pending
    <3>1. CASE ssbq = <<>>
      <4>1. lv' = "sel" /\ ssbq' = ssbq BY <1>7, <3>1 DEF DeqSSB
      <4> QED BY <1>1, <2>1, <4>1, PendingSame
    <3>2. CASE ssbq # <<>>
      <4>1. lv' = "exec" /\ cssb' = Head(ssbq) /\ ssbq' = Tail(ssbq) BY <1>7, <3>2 DEF DeqSSB
      <4>2. Asked(ssbq, par) = <<par[Head(ssbq)]>> \o Asked(Tail(ssbq), par)
            BY <1>1, <3>2, PendingBetween, AskedFirst
      <4>3. Pending = Asked(ssbq, par) BY <1>1, <2>1, PendingBetween
      <4> QED BY <2>1, <4>1, <4>2, <4>3, PendingIs
    <3> QED BY <3>1, <3>2
  <2> QED BY <1>2, <2>1, <2>2, <2>3
<1>8. CASE RelSSB \/ ClearCssb \/ Select \/ Idle
  <2>1. /\ lv \notin {"exec", "task"} /\ lv' \notin {"exec", "task"}
        /\ UNCHANGED <<par, ssbq, asleep, wup>>
        BY <1>8 DEF RelSSB, ClearCssb, Select, Idle, AtSystem, tcbs, systbl
  <2>2. Running = NONE /\ Running' = NONE BY <2>1 DEF Running
  <2>3. Pending' = Pending BY <1>1, <2>1, PendingSame
  <2> QED BY <1>2, <2>1, <2>2, <2>3
<1>9. CASE Resume
  <2>1. PICK t \in Task : t = nxt BY <1>1, <1>9 DEF Resume, TypeOK
  <2>2. /\ lv = "res" /\ isr = <<>> /\ lv' = "task" /\ ctcb' = t
        /\ UNCHANGED <<par, ssbq, asleep, wup>>
        BY <1>9, <2>1 DEF Resume, AtSystem
  <2>3. Running = NONE /\ Running' = t BY <2>2 DEF Running
  <2>4. Pending' = Pending BY <1>1, <2>2, PendingSame
  <2>5. Pending = <<>> BY <1>1, <2>2, PendingBetween DEF PostsDrained
  <2>6. t \notin asleep
    <3>1. CASE ctcb # NONE BY <1>1, <2>1, <2>2, <3>1 DEF ChoiceInv
    <3>2. CASE ctcb = NONE
      <4>1. t = HighestReady BY <1>1, <2>1, <2>2, <3>2 DEF ChoiceInv
      <4> QED BY <1>1, <4>1, HighestFacts
    <3> QED BY <3>1, <3>2
  <2>7. Kernel!Run(t) BY <2>2, <2>3, <2>4, <2>5, <2>6 DEF Kernel!Run
  <2> QED BY <2>7 DEF Kernel!ANext
<1>10. CASE IntEnter \/ IntReturn
  <2>1. UNCHANGED <<lv, ctcb, cssb, ssbq, par, asleep, wup>>
        BY <1>10 DEF IntEnter, IntReturn, systbl, tcbs
  <2>2. Running' = Running BY <2>1 DEF Running
  <2>3. Pending' = Pending BY <1>1, <2>1, PendingSame
  <2> QED BY <1>2, <2>1, <2>2, <2>3
<1>11. ASSUME NEW b \in SSB, NEW r \in Request, GetSSB(b, r) PROVE [Kernel!ANext]_(Kernel!avars)
  <2>1. /\ UNCHANGED <<lv, ctcb, cssb, ssbq, asleep, wup>> /\ b \in free
        /\ par' = [par EXCEPT ![b] = r]
        BY <1>11 DEF GetSSB
  <2>2. par \in [Task \cup SSB -> Request \cup {Served}] BY <1>1 DEF TypeOK
  <2>3. Running' = Running BY <2>1 DEF Running
  <2>4. \A i \in 1..Len(ssbq) : par'[ssbq[i]] = par[ssbq[i]]
    <3>1. \A i \in 1..Len(ssbq) : ssbq[i] \in SSB /\ ssbq[i] # b BY <1>1, <2>1, WaitingBlocks
    <3> QED BY <2>1, <2>2, <3>1
  <2>5. lv = "exec" => par'[cssb'] = par[cssb]
    <3>1. lv = "exec" => cssb \in Task \cup SSB BY <1>1, ExecCssb
    <3>2. lv = "exec" => cssb # b
          BY <1>1, <2>1 DEF SSBConserved, SSBNotShared, InService
    <3> QED BY <2>1, <2>2, <3>1, <3>2
  <2>6. Pending' = Pending BY <1>1, <2>1, <2>4, <2>5, PendingSame
  <2> QED BY <1>2, <2>1, <2>3, <2>6
<1>12. CASE EnqSSB
  <2>1. /\ UNCHANGED <<lv, ctcb, cssb, par, asleep, wup>> /\ ssbq' = Append(ssbq, Held)
        /\ icnt > 0 /\ Held # NONE
        BY <1>12 DEF EnqSSB, Handling, tcbs
  <2>2. Running' = Running BY <2>1 DEF Running
  <2>3. PICK b \in SSB : b = Held /\ par[b] \in Request
    <3>1. icnt \in 1..Len(isr) /\ Held = isr[icnt]
      <4>1. Len(isr) \in Nat BY <1>1, LenProperties DEF TypeOK
      <4> QED BY <2>1, <4>1 DEF icnt, Held
    <3>2. isr[icnt] \in SSB \cup {NONE} BY <1>1, <3>1, ElementOfSeq DEF TypeOK
    <3> QED BY <1>1, <2>1, <3>1, <3>2 DEF RequestInv
  <2>4. PICK r \in Request : r = par[b] BY <2>3
  <2>5. PICK s \in Seq(Argument) : s = Asked(ssbq, par) BY <1>1, PendingBetween
  <2>6. Asked(ssbq', par') = Append(s, r)
    <3>1. b \in Holder BY DEF Holder
    <3>2. Asked(Append(ssbq, b), par) = Append(Asked(ssbq, par), par[b])
          BY <1>1, <3>1, PendingBetween, AskedPost
    <3> QED BY <2>1, <2>3, <2>4, <2>5, <3>2
  <2>7. Pending' = Append(Pending, r)
    <3>1. CASE lv = "exec"
      <4>1. PICK h \in Argument : h = par[cssb] BY <1>1, <3>1, ExecCssb DEF Argument
      <4>2. <<h>> \o Append(s, r) = Append(<<h>> \o s, r)
        <5>1. r \in Argument BY DEF Argument
        <5> QED BY <5>1, InFront
      <4>3. Pending = <<h>> \o s /\ Pending' = <<h>> \o Append(s, r)
            BY <2>1, <2>5, <2>6, <3>1, <4>1, PendingIs
      <4> QED BY <4>2, <4>3
    <3>2. CASE lv # "exec"
      <4>1. Pending = <<>> \o s /\ Pending' = <<>> \o Append(s, r)
            BY <2>1, <2>5, <2>6, <3>2, PendingIs
      <4>2. Append(s, r) \in Seq(Argument) BY AppendProperties DEF Argument
      <4>3. <<>> \o s = s /\ <<>> \o Append(s, r) = Append(s, r) BY <4>2, ConcatEmptySeq
      <4> QED BY <4>1, <4>3
    <3> QED BY <3>1, <3>2
  <2>8. r \in Kernel!Request BY DEF Request, Kernel!Request
  <2>9. Kernel!Post(r) BY <2>1, <2>2, <2>7 DEF Kernel!Post
  <2> QED BY <2>8, <2>9 DEF Kernel!ANext
<1>13. CASE IntDispatch
  <2>1. UNCHANGED <<ctcb, cssb, ssbq, par, asleep, wup>> /\ lv' = "deq" /\ cssb = NONE
        BY <1>13 DEF IntDispatch, Returns, systbl
  <2>2. lv # "exec" BY <1>1, <2>1 DEF LevelInv
  <2>3. Pending' = Pending BY <1>1, <2>1, <2>2, PendingSame
  <2>4. Running' = NONE BY <2>1 DEF Running
  <2>5. CASE Running = NONE BY <1>2, <2>1, <2>3, <2>4, <2>5
  <2>6. CASE Running # NONE BY <1>3, <2>1, <2>3, <2>4, <2>6
  <2> QED BY <2>5, <2>6
<1>14. CASE UNCHANGED vars
  <2>1. UNCHANGED <<lv, ctcb, cssb, ssbq, par, asleep, wup>>
        BY <1>14 DEF vars, systbl, tcbs, cpu
  <2>2. Running' = Running BY <2>1 DEF Running
  <2>3. Pending' = Pending BY <1>1, <2>1, PendingSame
  <2> QED BY <1>2, <2>1, <2>2, <2>3
<1> QED BY <1>5, <1>6, <1>7, <1>8, <1>9, <1>10, <1>11, <1>12, <1>13, <1>14
        DEF Next, SystemStep, IntStep

(* THEOREM: whatever the nesting of interrupts and wherever they abandon   *)
(* the system level, the callers see their requests served one at a time,  *)
(* each once, in the order in which they were made, and no task run over   *)
(* one that is outstanding.                                                *)
THEOREM ImplementsAtomicService == Spec => ServesInOrder
<1>1. Init => Kernel!AInit
  <2> SUFFICES ASSUME Init PROVE Kernel!AInit OBVIOUS
  <2>1. TypeOK /\ LevelInv BY InitIInv DEF IInv
  <2>2. lv = "deq" /\ ssbq = <<>> BY DEF Init
  <2>3. Pending = <<>> BY <2>1, <2>2, PendingBetween
  <2>4. Running = NONE BY <2>2 DEF Running
  <2> QED BY <2>3, <2>4 DEF Init, Kernel!AInit
<1>2. IInv /\ SchedInv /\ [Next]_vars => [Kernel!ANext]_(Kernel!avars)
  BY Refinement
<1> QED BY <1>1, <1>2, Invariance, SchedInvariance, PTL DEF Spec, ServesInOrder, Kernel!ASpec
=============================================================================
