----------------------------- MODULE TimeEvent -----------------------------
(***************************************************************************)
(* Alarm and cyclic handlers.  A handler's control block is on the timer   *)
(* queue until it is due; the tick then moves it, with the same links, to  *)
(* the queue of system service blocks, where it is served behind whatever  *)
(* interrupt handlers have posted; serving it calls the handler and        *)
(* connects the block to the timer queue again.  While a block waits to be *)
(* served, or its handler is executing, other handlers (and the handler    *)
(* itself) may start and stop it: the flags PND and RST remember what has  *)
(* to be made up for then.                                                 *)
(*                                                                         *)
(* A service is one step, as Dispatch shows it to be; a handler is not.    *)
(* Tasks get the processor only with every posted block served.            *)
(***************************************************************************)
EXTENDS TimerQueue, FiniteSets

CONSTANTS Alm, Cyc,    \* identifiers of alarm and of cyclic handlers
          Oatr,        \* attributes of each cyclic handler: TA_STA, TA_PHS
          Cyctim,      \* its period
          Cycphs,      \* its initial phase
          AlmTime,     \* the times an alarm may be set to
          Tick,        \* milliseconds per tick
          MaxPost,     \* blocks available for ticks
          MaxTime,     \* bound: the time at which ticks cease
          NONE, TICK

ASSUME TimeEventAssumption ==
    /\ IsFiniteSet(Alm) /\ IsFiniteSet(Cyc) /\ Alm \cap Cyc = {}
    /\ {NONE, TICK} \cap (Alm \cup Cyc) = {} /\ NONE # TICK
    /\ Oatr \in [Cyc -> SUBSET {"STA", "PHS"}]
    /\ Tick \in UW \ {0}
    /\ Cyctim \in [Cyc -> UW \ {0}] /\ Cycphs \in [Cyc -> UW]
    /\ \A c \in Cyc : Cycphs[c] + Tick \in UW
    /\ AlmTime \in SUBSET (UW \ {0})
    /\ MaxPost \in Nat \ {0} /\ MaxTime \in Nat

Object == Alm \cup Cyc

VARIABLES
    systim,     \* the system time
    timq,       \* the timer queue
    ssbq,       \* blocks waiting for service: ticks and handlers
    cssb,       \* the handler that is executing, or NONE
    created,    \* the objects in the tables qalm and qcyc
    creating,   \* a cyclic handler entered in qcyc and not yet started
    msts,       \* flags of each object: STA, PND, RST
    stime,      \* time at which it is due; RST: ltime holds an interval
    due,        \* history: when it is due by the calls that were made
    deferred,   \* history: alarms set while a call of them was still to be made
    want        \* history: the alarms started and neither fired nor stopped

vars == <<systim, timq, ssbq, cssb, created, creating, msts, stime, due, deferred, want>>

PHS(c) == "PHS" \in Oatr[c]

Init ==
    /\ systim = Zero /\ timq = <<>> /\ ssbq = <<>> /\ cssb = NONE
    /\ created = {} /\ creating = NONE
    /\ msts = [x \in Object |-> {}]
    /\ stime = [x \in Object |-> Zero]
    /\ due = [x \in Object |-> 0] /\ deferred = {} /\ want = {}

-----------------------------------------------------------------------------
(* Who may call: a task when nothing waits for service, or the handler     *)
(* that is executing.  An object whose creation has not returned is not    *)
(* used: its identifier is not known to anybody yet.                       *)
AtTask == cssb = NONE /\ ssbq = <<>>
Caller == (AtTask /\ creating = NONE) \/ cssb # NONE
MayUse(x) == Caller /\ x \in created \ {creating}

(* _kernel_enqtim(x, from, d), on the queue q *)
Arm(q, x, from, d) ==
    /\ stime' = [stime EXCEPT ![x] = Advance(from, d)]
    /\ timq' = EnqTim(q, stime', x)

(* A fault: the call still to be made is not told from the one set now. *)
StaAlmUnmarked(a, d) ==
    /\ MayUse(a)
    /\ msts' = [msts EXCEPT ![a] = @ \cup {"STA"}]
    /\ IF "PND" \notin msts[a]
       THEN Arm(IF "STA" \in msts[a] THEN Unlink(timq, a) ELSE timq, a, systim, d)
       ELSE UNCHANGED <<timq, stime>>
    /\ due' = [due EXCEPT ![a] = Value(systim) + d]
    /\ deferred' = IF "PND" \in msts[a] THEN deferred \cup {a} ELSE deferred \ {a}
    /\ want' = want \cup {a}
    /\ UNCHANGED <<systim, ssbq, cssb, created, creating>>

StaAlm(a, d) ==
    /\ MayUse(a)
    /\ IF "PND" \notin msts[a]
       THEN /\ msts' = [msts EXCEPT ![a] = {"STA"}]
            /\ Arm(IF "STA" \in msts[a] THEN Unlink(timq, a) ELSE timq, a, systim, d)
       ELSE /\ msts' = [msts EXCEPT ![a] = {"PND", "RST"}]
            /\ stime' = [stime EXCEPT ![a].ltime = d]
            /\ UNCHANGED timq
    /\ due' = [due EXCEPT ![a] = Value(systim) + d]
    /\ deferred' = IF "PND" \in msts[a] THEN deferred \cup {a} ELSE deferred \ {a}
    /\ want' = want \cup {a}
    /\ UNCHANGED <<systim, ssbq, cssb, created, creating>>

StpAlm(a) ==
    /\ MayUse(a)
    /\ IF "STA" \in msts[a]
       THEN /\ timq' = IF "PND" \notin msts[a] THEN Unlink(timq, a) ELSE timq
            /\ msts' = [msts EXCEPT ![a] = @ \ {"STA", "RST"}]
       ELSE UNCHANGED <<timq, msts>>
    /\ want' = want \ {a}
    /\ UNCHANGED <<deferred, systim, ssbq, cssb, created, creating, stime, due>>

(* A fault: a pending cyclic handler is connected to the timer queue, too. *)
StaCycPending(c) ==
    /\ MayUse(c)
    /\ msts' = [msts EXCEPT ![c] = @ \cup {"STA"}]
    /\ IF ~PHS(c)
       THEN /\ Arm(IF "STA" \in msts[c] THEN Unlink(timq, c) ELSE timq,
                   c, systim, Cyctim[c])
            /\ due' = [due EXCEPT ![c] = Value(systim) + Cyctim[c]]
       ELSE UNCHANGED <<timq, stime, due>>
    /\ UNCHANGED <<deferred, systim, ssbq, cssb, created, creating, want>>

StaCyc(c) ==
    /\ MayUse(c)
    /\ msts' = [msts EXCEPT ![c] = @ \cup {"STA"}]
    /\ IF ~PHS(c) /\ "PND" \notin msts[c]
       THEN /\ Arm(IF "STA" \in msts[c] THEN Unlink(timq, c) ELSE timq,
                   c, systim, Cyctim[c])
            /\ due' = [due EXCEPT ![c] = Value(systim) + Cyctim[c]]
       ELSE UNCHANGED <<timq, stime, due>>
    /\ UNCHANGED <<deferred, systim, ssbq, cssb, created, creating, want>>

StpCyc(c) ==
    /\ MayUse(c)
    /\ timq' = IF "STA" \in msts[c] /\ ~PHS(c) /\ "PND" \notin msts[c]
               THEN Unlink(timq, c) ELSE timq
    /\ msts' = [msts EXCEPT ![c] = @ \ {"STA"}]
    /\ UNCHANGED <<deferred, systim, ssbq, cssb, created, creating, stime, due, want>>

-----------------------------------------------------------------------------
(* Creation and deletion, by tasks.  cre_alm is complete once the table    *)
(* has the block; cre_cyc first enters the block and then enters the       *)
(* kernel to start it: handlers may execute in between.                    *)

CreAlm(a) ==
    /\ AtTask /\ creating = NONE /\ a \notin created
    /\ created' = created \cup {a}
    /\ msts' = [msts EXCEPT ![a] = {}]
    /\ stime' = [stime EXCEPT ![a] = Zero]
    /\ UNCHANGED <<deferred, systim, timq, ssbq, cssb, creating, due, want>>

CreCyc(c) ==
    /\ AtTask /\ creating = NONE /\ c \notin created
    /\ created' = created \cup {c}
    /\ msts' = [msts EXCEPT ![c] = {}]
    /\ stime' = [stime EXCEPT ![c] = Zero]
    /\ creating' = IF Oatr[c] # {} THEN c ELSE NONE
    /\ UNCHANGED <<deferred, systim, timq, ssbq, cssb, due, want>>

CreCycStart ==
    /\ AtTask /\ creating # NONE
    /\ LET c == creating IN
       /\ msts' = [msts EXCEPT ![c] = Oatr[c] \cap {"STA"}]
       /\ Arm(timq, c, systim, Cycphs[c] + Tick)
       /\ due' = [due EXCEPT ![c] = Value(systim) + Cycphs[c] + Tick]
    /\ creating' = NONE
    /\ UNCHANGED <<deferred, systim, ssbq, cssb, created, want>>

DelAlm(a) ==
    /\ AtTask /\ creating = NONE /\ a \in created
    /\ timq' = IF msts[a] = {"STA"} THEN Unlink(timq, a) ELSE timq
    /\ created' = created \ {a}
    /\ want' = want \ {a}
    /\ UNCHANGED <<deferred, systim, ssbq, cssb, creating, msts, stime, due>>

DelCyc(c) ==
    /\ AtTask /\ creating = NONE /\ c \in created
    /\ timq' = IF PHS(c) \/ msts[c] = {"STA"} THEN Unlink(timq, c) ELSE timq
    /\ created' = created \ {c}
    /\ UNCHANGED <<deferred, systim, ssbq, cssb, creating, msts, stime, due, want>>

-----------------------------------------------------------------------------
(* isig_tim: the timer interrupt posts a tick, at any moment.  With no     *)
(* block left the tick is lost.                                            *)
PostTick ==
    LET posted == Cardinality({i \in 1..Len(ssbq) : ssbq[i] = TICK}) IN
    /\ posted < MaxPost
    /\ Value(systim) + (posted + 1) * Tick <= MaxTime
    /\ ssbq' = Append(ssbq, TICK)
    /\ UNCHANGED <<deferred, systim, timq, cssb, created, creating, msts, stime, due, want>>

Serving(x) == cssb = NONE /\ ssbq # <<>> /\ Head(ssbq) = x

(* _kernel_sigtim *)
SigTim ==
    /\ Serving(TICK)
    /\ systim' = Advance(systim, Tick)
    /\ LET fired == DueOf(timq, stime, systim') IN
       /\ ssbq' = Tail(ssbq) \o fired
       /\ msts' = [x \in Object |->
                     IF Contains(fired, x) THEN msts[x] \cup {"PND"} ELSE msts[x]]
       /\ timq' = RestOf(timq, stime, systim')
    /\ UNCHANGED <<deferred, cssb, created, creating, stime, due, want>>

(* A fault: the flag RST goes with PND. *)
FinishForgetful(x, m) ==
    /\ msts' = [msts EXCEPT ![x] = m \ {"PND", "RST"}]
    /\ IF x \in Cyc /\ (PHS(x) \/ "STA" \in m)
       THEN /\ Arm(timq, x, stime[x], Cyctim[x])
            /\ due' = [due EXCEPT ![x] = @ + Cyctim[x]]
       ELSE UNCHANGED <<timq, stime, due>>

(* The end of _kernel_almfunc and of _kernel_cycfunc, which find the flags *)
(* m of x: an alarm set meanwhile is armed from now, a cyclic handler from *)
(* the time it was due.                                                    *)
Finish(x, m) ==
    IF x \in Alm
    THEN IF "RST" \in m
         THEN /\ msts' = [msts EXCEPT ![x] = {"STA"}]
              /\ Arm(timq, x, systim, stime[x].ltime)
              /\ UNCHANGED due
         ELSE /\ msts' = [msts EXCEPT ![x] = m \ {"PND"}]
              /\ UNCHANGED <<timq, stime, due>>
    ELSE /\ msts' = [msts EXCEPT ![x] = m \ {"PND"}]
         /\ IF PHS(x) \/ "STA" \in m
            THEN /\ Arm(timq, x, stime[x], Cyctim[x])
                 /\ due' = [due EXCEPT ![x] = @ + Cyctim[x]]
            ELSE UNCHANGED <<timq, stime, due>>

(* A block comes up for service whose handler was stopped, or restarted,   *)
(* in the meantime: the handler is not called.                             *)
Skip(x) ==
    /\ Serving(x) /\ "STA" \notin msts[x]
    /\ ssbq' = Tail(ssbq)
    /\ Finish(x, msts[x])
    /\ UNCHANGED <<deferred, systim, cssb, created, creating, want>>

CallHandler(x) ==
    /\ Serving(x) /\ "STA" \in msts[x]
    /\ ssbq' = Tail(ssbq)
    /\ cssb' = x
    /\ msts' = IF x \in Alm THEN [msts EXCEPT ![x] = @ \ {"STA"}] ELSE msts
    /\ want' = want \ {x}
    /\ UNCHANGED <<deferred, systim, timq, created, creating, stime, due>>

HandlerReturns ==
    /\ cssb # NONE
    /\ cssb' = NONE
    /\ Finish(cssb, msts[cssb])
    /\ UNCHANGED <<deferred, systim, ssbq, created, creating, want>>

-----------------------------------------------------------------------------
Next ==
    \/ \E a \in Alm : \/ \E d \in AlmTime : StaAlm(a, d)
                      \/ StpAlm(a) \/ CreAlm(a) \/ DelAlm(a)
    \/ \E c \in Cyc : StaCyc(c) \/ StpCyc(c) \/ CreCyc(c) \/ DelCyc(c)
    \/ CreCycStart
    \/ PostTick \/ SigTim
    \/ \E x \in Object : Skip(x) \/ CallHandler(x)
    \/ HandlerReturns

Spec == Init /\ [][Next]_vars

-----------------------------------------------------------------------------
(* PROPERTIES                                                              *)

TypeOK ==
    /\ systim \in Stamp
    /\ timq \in Seq(Object) /\ ssbq \in Seq(Object \cup {TICK})
    /\ cssb \in Object \cup {NONE}
    /\ created \in SUBSET Object /\ creating \in Cyc \cup {NONE}
    /\ msts \in [Object -> SUBSET {"STA", "PND", "RST"}]
    /\ stime \in [Object -> Stamp]
    /\ due \in [Object -> Nat] /\ deferred \in SUBSET Alm /\ want \in SUBSET Alm

Times(q, x) == Cardinality({i \in 1..Len(q) : q[i] = x})

(* The links of a block serve both queues, and starting, stopping and      *)
(* deleting unlink it on the word of its flags alone.  So the flags must   *)
(* tell exactly where the block is, whatever handlers do to each other     *)
(* while ticks pile up; one wrong guess and a list is corrupt.             *)
LinksMatchFlags ==
    \A x \in Object :
        LET linked == \/ x \in Alm /\ msts[x] = {"STA"}
                      \/ x \in Cyc /\ "PND" \notin msts[x] /\ (PHS(x) \/ "STA" \in msts[x])
            known == x \in created \ {creating}
        IN /\ Times(timq, x) = IF known /\ linked THEN 1 ELSE 0
           /\ Times(Append(ssbq, cssb), x) = IF known /\ "PND" \in msts[x] THEN 1 ELSE 0

(* The queue is in order of time, across the carry of the lower word; a    *)
(* cyclic handler stays on its grid: n calls after the start it is due n   *)
(* periods after the first time, however late the calls were made; and an  *)
(* alarm is armed for the time it was set to, or later if it was set while *)
(* a call of its handler was still to be made.                             *)
Punctual ==
    /\ \A i, j \in 1..Len(timq) : i < j => Value(stime[timq[i]]) <= Value(stime[timq[j]])
    /\ \A x \in Object : Contains(timq, x) =>
          \/ Value(stime[x]) = due[x]
          \/ x \in deferred /\ Value(stime[x]) > due[x]

(* No alarm handler is called before its time, even if it was set while    *)
(* an earlier call of it was still to be made.                             *)
NotEarly == [][\A a \in Alm : CallHandler(a) => Value(systim) >= due[a]]_vars

(* An alarm that was started is not lost: until it fires or is stopped it  *)
(* is armed; and once the posted ticks are served none is overdue.         *)
AlarmNotLost ==
    \A a \in want :
        /\ {"STA", "RST"} \cap msts[a] # {}
        /\ cssb = NONE /\ ssbq = <<>> => Contains(timq, a) /\ Value(stime[a]) > Value(systim)

(* uC3stpalm.c calls this service "Stop Alarm Handler Operation": an alarm *)
(* that was stopped is not armed.                                          *)
StopAlarmHandlerOperation ==
    \A a \in Alm \ want :
        cssb = NONE /\ ssbq = <<>> => ~Contains(timq, a)
=============================================================================
