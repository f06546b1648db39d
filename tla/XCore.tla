------------------------------- MODULE XCore -------------------------------
(***************************************************************************)
(* Service calls between cores (XCORE).  Each core runs a kernel of its    *)
(* own.  Memory they share holds for each core a table for one synchronous *)
(* call (synctbl) and a ring of asynchronous ones (asynctbl), each with a  *)
(* spin lock; a software interrupt (SGI) tells the core to look at them.   *)
(*                                                                         *)
(* A task or time event handler calls at system level: it waits for the    *)
(* table of the other core, and then for the answer, and meanwhile serves  *)
(* what others ask of its own core.  An interrupt handler only puts its    *)
(* request into the ring.  The SGI queues a block that has the core drain  *)
(* its ring and serve its table.                                           *)
(*                                                                         *)
(* One action is the code between two accesses to shared memory that       *)
(* another core, or a handler, can tell apart; what is done under a lock   *)
(* is one up to the release.  A spin lock does not mask interrupts: a      *)
(* handler may interrupt its core's system level also while that holds     *)
(* one.  What a service does to the objects of a core is a parameter.      *)
(***************************************************************************)
EXTENDS Integers, Sequences

CONSTANTS Core,
          SyncReq,      \* what can be called: the functions _kernel_v..._1
          AsyncReq,     \* what can be posted: the functions _kernel_v..._2
          InitObj, Effect(_, _), Answer(_, _),  \* the services
          async_max,    \* the size of a ring
          CallTo, PostTo, \* who calls whom, and who posts to whom, and what
          MaxWork,      \* bound: how many calls and posts are made
          FREE, NONE

ASSUME XCoreAssumption ==
    /\ FREE \notin Core
    /\ NONE \notin Core
    /\ async_max \in Nat \ {0}
    /\ CallTo \subseteq {t \in Core \X Core \X SyncReq : t[1] # t[2]}
    /\ PostTo \subseteq {t \in Core \X Core \X AsyncReq : t[1] # t[2]}
    /\ MaxWork \in Nat

VARIABLES
    obj,        \* the kernel objects of each core
    alock, cnt, ptr, ring,  \* asynctbl: lock, entries, where to put, cmdbuf
    slock, fin, func, cmd, reply,
                \* synctbl: lock, fin, func_n is set, request, error and ret_v
    sgi,        \* an SGI is pending
    p1, queued, \* xcore_ssb: its mark p1, and whether it is among the posted blocks
    sys, serve, \* where the system level stands, and its service of the own table
    to, req, got,   \* the call it makes, and the answer
    buffer,     \* the request the driver took from the ring
    isr, ito, ireq, \* the handler, and the post it makes
    work        \* calls and posts made so far

asynctbl == <<alock, cnt, ptr, ring>>
synctbl  == <<slock, fin, func, cmd, reply>>
signals  == <<sgi, p1, queued>>
system   == <<sys, serve, to, req, got, buffer>>
handler  == <<isr, ito, ireq>>
xvars == <<obj, asynctbl, synctbl, signals, system, handler, work>>

XInit ==
    /\ obj = [c \in Core |-> InitObj]
    /\ alock = [c \in Core |-> FREE] /\ slock = [c \in Core |-> FREE]
    /\ cnt = [c \in Core |-> 0] /\ ptr = [c \in Core |-> 0]
    /\ ring = [c \in Core |-> [i \in 0..(async_max - 1) |-> NONE]]
    /\ fin = [c \in Core |-> FALSE] /\ func = [c \in Core |-> FALSE]
    /\ cmd = [c \in Core |-> NONE] /\ reply = [c \in Core |-> NONE]
    /\ sgi = [c \in Core |-> FALSE] /\ p1 = [c \in Core |-> FALSE]
    /\ queued = [c \in Core |-> FALSE]
    /\ sys = [c \in Core |-> "idle"] /\ serve = [c \in Core |-> "none"]
    /\ to = [c \in Core |-> NONE] /\ req = [c \in Core |-> NONE]
    /\ got = [c \in Core |-> NONE] /\ buffer = [c \in Core |-> NONE]
    /\ isr = [c \in Core |-> "none"]
    /\ ito = [c \in Core |-> NONE] /\ ireq = [c \in Core |-> NONE]
    /\ work = 0

(* The system level of c stands at pc, outside a service of its own table, *)
(* and is not interrupted.                                                 *)
At(c, pc) == isr[c] = "none" /\ serve[c] = "none" /\ sys[c] = pc
Goto(c, pc) == sys' = [sys EXCEPT ![c] = pc]
Serving(c, pc) == isr[c] = "none" /\ serve[c] = pc
Handling(c, pc) == isr[c] = pc

-----------------------------------------------------------------------------
(* THE CALLER: _kernel_sync_sys                                            *)

Call(c, d, r) ==
    /\ At(c, "idle") /\ <<c, d, r>> \in CallTo /\ work < MaxWork
    /\ Goto(c, "try")
    /\ to' = [to EXCEPT ![c] = d] /\ req' = [req EXCEPT ![c] = r]
    /\ work' = work + 1
    /\ UNCHANGED <<obj, asynctbl, synctbl, signals, serve, got, buffer, handler>>

Lock(c) ==
    /\ At(c, "try") /\ slock[to[c]] = FREE
    /\ slock' = [slock EXCEPT ![to[c]] = c]
    /\ Goto(c, "fill")
    /\ UNCHANGED <<obj, asynctbl, fin, func, cmd, reply, signals, serve, to, req, got, buffer,
                   handler, work>>

(* A fault: the caller only waits for its answer. *)
AttendNot(c) ==
    /\ At(c, "try") /\ slock[to[c]] # FREE
    /\ serve' = [serve EXCEPT ![c] = "fin"]
    /\ UNCHANGED <<obj, asynctbl, synctbl, signals, sys, to, req, got, buffer, handler, work>>

(* While the table is taken, and while there is no answer: look at the own *)
(* table before looking again.                                             *)
Attend(c) ==
    /\ \/ At(c, "try") /\ slock[to[c]] # FREE
       \/ At(c, "wait") /\ ~fin[to[c]]
    /\ serve' = [serve EXCEPT ![c] = "fin"]
    /\ UNCHANGED <<obj, asynctbl, synctbl, signals, sys, to, req, got, buffer, handler, work>>

(* func_n comes last: until then nobody looks at the request. *)
Publish(c) ==
    /\ At(c, "fill")
    /\ fin' = [fin EXCEPT ![to[c]] = FALSE] /\ cmd' = [cmd EXCEPT ![to[c]] = req[c]]
    /\ func' = [func EXCEPT ![to[c]] = TRUE]
    /\ Goto(c, "signal")
    /\ UNCHANGED <<obj, asynctbl, slock, reply, signals, serve, to, req, got, buffer,
                   handler, work>>

Signal(c) ==
    /\ At(c, "signal")
    /\ sgi' = [sgi EXCEPT ![to[c]] = TRUE]
    /\ Goto(c, "wait")
    /\ UNCHANGED <<obj, asynctbl, synctbl, p1, queued, serve, to, req, got, buffer, handler, work>>

Receive(c) ==
    /\ At(c, "wait") /\ fin[to[c]]
    /\ got' = [got EXCEPT ![c] = reply[to[c]]]
    /\ Goto(c, "clear")
    /\ UNCHANGED <<obj, asynctbl, synctbl, signals, serve, to, req, buffer, handler, work>>

(* A fault: the function stays in the table. *)
ClearFuncNot(c) ==
    /\ At(c, "clear")
    /\ Goto(c, "release")
    /\ UNCHANGED <<obj, asynctbl, synctbl, signals, serve, to, req, got, buffer, handler, work>>

(* func_n is cleared before fin, and fin before the table is released. *)
ClearFunc(c) ==
    /\ At(c, "clear")
    /\ func' = [func EXCEPT ![to[c]] = FALSE]
    /\ Goto(c, "release")
    /\ UNCHANGED <<obj, asynctbl, slock, fin, cmd, reply, signals, serve, to, req, got, buffer,
                   handler, work>>

Release(c) ==
    /\ At(c, "release")
    /\ fin' = [fin EXCEPT ![to[c]] = FALSE]
    /\ slock' = [slock EXCEPT ![to[c]] = FREE]
    /\ Goto(c, "idle")
    /\ to' = [to EXCEPT ![c] = NONE] /\ req' = [req EXCEPT ![c] = NONE]
    /\ got' = [got EXCEPT ![c] = NONE]
    /\ UNCHANGED <<obj, asynctbl, func, cmd, reply, signals, serve, buffer, handler, work>>

-----------------------------------------------------------------------------
(* THE SERVER: what a waiting caller, and the driver, do for the own table *)

Leave(c) ==
    /\ serve' = [serve EXCEPT ![c] = "none"]
    /\ sys' = [sys EXCEPT ![c] = IF @ = "own" THEN "idle" ELSE @]

(* The request is served if the table is locked, without fin and with a    *)
(* function.                                                               *)
SeeFin(c) ==
    /\ Serving(c, "fin") /\ slock[c] # FREE /\ ~fin[c]
    /\ serve' = [serve EXCEPT ![c] = "func"]
    /\ UNCHANGED <<obj, asynctbl, synctbl, signals, sys, to, req, got, buffer, handler, work>>

SeeFunc(c) ==
    /\ Serving(c, "func") /\ func[c]
    /\ serve' = [serve EXCEPT ![c] = "run"]
    /\ UNCHANGED <<obj, asynctbl, synctbl, signals, sys, to, req, got, buffer, handler, work>>

SeeNothing(c) ==
    /\ \/ Serving(c, "fin") /\ (slock[c] = FREE \/ fin[c])
       \/ Serving(c, "func") /\ ~func[c]
    /\ Leave(c)
    /\ UNCHANGED <<obj, asynctbl, synctbl, signals, to, req, got, buffer, handler, work>>

(* The functions _kernel_v..._1: the service, its answer, then fin. *)
Run(c) ==
    /\ Serving(c, "run")
    /\ obj' = [obj EXCEPT ![c] = Effect(@, cmd[c])]
    /\ reply' = [reply EXCEPT ![c] = Answer(obj[c], cmd[c])]
    /\ serve' = [serve EXCEPT ![c] = "finish"]
    /\ UNCHANGED <<asynctbl, slock, fin, func, cmd, signals, sys, to, req, got, buffer,
                   handler, work>>

Finish(c) ==
    /\ Serving(c, "finish")
    /\ fin' = [fin EXCEPT ![c] = TRUE]
    /\ Leave(c)
    /\ UNCHANGED <<obj, asynctbl, slock, func, cmd, reply, signals, to, req, got, buffer,
                   handler, work>>

-----------------------------------------------------------------------------
(* THE DRIVER: _ddr_xcore_func_drv                                         *)

(* The block leaves the queue of posted blocks; its mark is cleared only   *)
(* by the driver.                                                          *)
Begin(c) ==
    /\ At(c, "idle") /\ queued[c]
    /\ queued' = [queued EXCEPT ![c] = FALSE]
    /\ Goto(c, "unmark")
    /\ UNCHANGED <<obj, asynctbl, synctbl, sgi, p1, serve, to, req, got, buffer, handler, work>>

(* A fault: the mark stays. *)
UnmarkNot(c) ==
    /\ At(c, "unmark")
    /\ Goto(c, "look")
    /\ UNCHANGED <<obj, asynctbl, synctbl, signals, serve, to, req, got, buffer, handler, work>>

Unmark(c) ==
    /\ At(c, "unmark")
    /\ p1' = [p1 EXCEPT ![c] = FALSE]
    /\ Goto(c, "look")
    /\ UNCHANGED <<obj, asynctbl, synctbl, sgi, queued, serve, to, req, got, buffer, handler, work>>

Look(c) ==
    /\ At(c, "look") /\ cnt[c] > 0
    /\ Goto(c, "take")
    /\ UNCHANGED <<obj, asynctbl, synctbl, signals, serve, to, req, got, buffer, handler, work>>

Drained(c) ==
    /\ At(c, "look") /\ cnt[c] = 0
    /\ Goto(c, "own")
    /\ serve' = [serve EXCEPT ![c] = "fin"]
    /\ UNCHANGED <<obj, asynctbl, synctbl, signals, to, req, got, buffer, handler, work>>

Oldest(c) == LET i == ptr[c] - cnt[c] IN IF i < 0 THEN i + async_max ELSE i

Take(c) ==
    /\ At(c, "take") /\ alock[c] = FREE
    /\ alock' = [alock EXCEPT ![c] = c]
    /\ buffer' = [buffer EXCEPT ![c] = ring[c][Oldest(c)]]
    /\ cnt' = [cnt EXCEPT ![c] = @ - 1]
    /\ Goto(c, "unlock")
    /\ UNCHANGED <<obj, ptr, ring, synctbl, signals, serve, to, req, got, handler, work>>

(* The functions _kernel_v..._2: nobody gets the answer. *)
Execute(c) ==
    /\ At(c, "unlock")
    /\ alock' = [alock EXCEPT ![c] = FREE]
    /\ obj' = [obj EXCEPT ![c] = Effect(@, buffer[c])]
    /\ buffer' = [buffer EXCEPT ![c] = NONE]
    /\ Goto(c, "look")
    /\ UNCHANGED <<cnt, ptr, ring, synctbl, signals, serve, to, req, got, handler, work>>

-----------------------------------------------------------------------------
(* INTERRUPTS, one at a time on each core                                  *)

(* ddr_xcore_sgi_isr, _kernel_xcore_enqssb: a block that is marked already *)
(* is not queued again.                                                    *)
Sgi(c) ==
    /\ Handling(c, "none") /\ sgi[c]
    /\ sgi' = [sgi EXCEPT ![c] = FALSE]
    /\ p1' = [p1 EXCEPT ![c] = TRUE]
    /\ queued' = [queued EXCEPT ![c] = @ \/ ~p1[c]]
    /\ UNCHANGED <<obj, asynctbl, synctbl, system, handler, work>>

(* Another handler posts: _kernel_async_sys. *)
Interrupt(c, d, r) ==
    /\ Handling(c, "none") /\ <<c, d, r>> \in PostTo /\ work < MaxWork
    /\ isr' = [isr EXCEPT ![c] = "lock"]
    /\ ito' = [ito EXCEPT ![c] = d] /\ ireq' = [ireq EXCEPT ![c] = r]
    /\ work' = work + 1
    /\ UNCHANGED <<obj, asynctbl, synctbl, signals, system>>

Following(i) == IF i + 1 >= async_max THEN 0 ELSE i + 1

(* A fault: one entry more than there is room for. *)
PutBeyond(c) ==
    /\ Handling(c, "lock") /\ alock[ito[c]] = FREE /\ cnt[ito[c]] <= async_max
    /\ alock' = [alock EXCEPT ![ito[c]] = c]
    /\ ring' = [ring EXCEPT ![ito[c]][ptr[ito[c]]] = ireq[c]]
    /\ cnt' = [cnt EXCEPT ![ito[c]] = @ + 1]
    /\ ptr' = [ptr EXCEPT ![ito[c]] = Following(@)]
    /\ isr' = [isr EXCEPT ![c] = "accepted"]
    /\ UNCHANGED <<obj, synctbl, signals, system, ito, ireq, work>>

Put(c) ==
    /\ Handling(c, "lock") /\ alock[ito[c]] = FREE /\ cnt[ito[c]] < async_max
    /\ alock' = [alock EXCEPT ![ito[c]] = c]
    /\ ring' = [ring EXCEPT ![ito[c]][ptr[ito[c]]] = ireq[c]]
    /\ cnt' = [cnt EXCEPT ![ito[c]] = @ + 1]
    /\ ptr' = [ptr EXCEPT ![ito[c]] = Following(@)]
    /\ isr' = [isr EXCEPT ![c] = "accepted"]
    /\ UNCHANGED <<obj, synctbl, signals, system, ito, ireq, work>>

Refuse(c) ==
    /\ Handling(c, "lock") /\ alock[ito[c]] = FREE /\ cnt[ito[c]] >= async_max
    /\ alock' = [alock EXCEPT ![ito[c]] = c]
    /\ isr' = [isr EXCEPT ![c] = "refused"]
    /\ UNCHANGED <<obj, cnt, ptr, ring, synctbl, signals, system, ito, ireq, work>>

Returned(c) ==
    /\ isr' = [isr EXCEPT ![c] = "none"]
    /\ ito' = [ito EXCEPT ![c] = NONE] /\ ireq' = [ireq EXCEPT ![c] = NONE]

Posted(c) ==
    /\ Handling(c, "accepted")
    /\ alock' = [alock EXCEPT ![ito[c]] = FREE]
    /\ isr' = [isr EXCEPT ![c] = "notify"]
    /\ UNCHANGED <<obj, cnt, ptr, ring, synctbl, signals, system, ito, ireq, work>>

Refused(c) ==
    /\ Handling(c, "refused")
    /\ alock' = [alock EXCEPT ![ito[c]] = FREE]
    /\ Returned(c)
    /\ UNCHANGED <<obj, cnt, ptr, ring, synctbl, signals, system, work>>

Notify(c) ==
    /\ Handling(c, "notify")
    /\ sgi' = [sgi EXCEPT ![ito[c]] = TRUE]
    /\ Returned(c)
    /\ UNCHANGED <<obj, asynctbl, synctbl, p1, queued, system, work>>

-----------------------------------------------------------------------------
Caller(c) ==
    \/ Lock(c) \/ Attend(c) \/ Publish(c) \/ Signal(c) \/ Receive(c) \/ ClearFunc(c) \/ Release(c)
Server(c) == SeeFin(c) \/ SeeFunc(c) \/ SeeNothing(c) \/ Run(c) \/ Finish(c)
Driver(c) ==
    \/ Begin(c) \/ Unmark(c) \/ Look(c) \/ Drained(c) \/ Take(c) \/ Execute(c)
Handler(c) == Put(c) \/ Refuse(c) \/ Posted(c) \/ Refused(c) \/ Notify(c)

XNext ==
    \E c \in Core :
        \/ \E d \in Core, r \in SyncReq : Call(c, d, r)
        \/ Caller(c) \/ Server(c) \/ Driver(c)
        \/ Sgi(c)
        \/ \E d \in Core, r \in AsyncReq : Interrupt(c, d, r)
        \/ Handler(c)

XSpec == XInit /\ [][XNext]_xvars

(* A core that has something to do does it; nothing obliges a task to call *)
(* or an interrupt to come.                                                *)
XFairSpec ==
    /\ XSpec
    /\ \A c \in Core : WF_xvars(Caller(c) \/ Server(c) \/ Driver(c) \/ Handler(c))
                    /\ WF_xvars(Sgi(c))

-----------------------------------------------------------------------------
(* PROPERTIES                                                              *)

XTypeOK ==
    /\ alock \in [Core -> Core \cup {FREE}] /\ slock \in [Core -> Core \cup {FREE}]
    /\ cnt \in [Core -> 0..async_max] /\ ptr \in [Core -> 0..(async_max - 1)]
    /\ ring \in [Core -> [0..(async_max - 1) -> AsyncReq \cup {NONE}]]
    /\ fin \in [Core -> BOOLEAN] /\ func \in [Core -> BOOLEAN]
    /\ sgi \in [Core -> BOOLEAN] /\ p1 \in [Core -> BOOLEAN] /\ queued \in [Core -> BOOLEAN]
    /\ sys \in [Core -> {"idle", "try", "fill", "signal", "wait", "clear", "release",
                          "unmark", "look", "take", "unlock", "own"}]
    /\ serve \in [Core -> {"none", "fin", "func", "run", "finish"}]
    /\ to \in [Core -> Core \cup {NONE}] /\ ito \in [Core -> Core \cup {NONE}]
    /\ isr \in [Core -> {"none", "lock", "accepted", "refused", "notify"}]
    /\ req \in [Core -> SyncReq \cup {NONE}] /\ cmd \in [Core -> SyncReq \cup {NONE}]
    /\ ireq \in [Core -> AsyncReq \cup {NONE}] /\ buffer \in [Core -> AsyncReq \cup {NONE}]
    /\ work \in 0..MaxWork

DrivesOn(c) == sys[c] \in {"unmark", "look", "take", "unlock"}
Notified(c) == sgi[c] \/ queued[c] \/ DrivesOn(c)

(* No request is forgotten: once its sender has signalled it, an entry of  *)
(* the ring or a request in the table that is not answered has an SGI      *)
(* pending, the block queued, or a driver at work that still comes to it;  *)
(* whatever SGIs are merged into one, and whenever the block is marked     *)
(* while its driver already runs.                                          *)
NoRequestForgotten ==
    \A d \in Core :
        /\ cnt[d] > 0 /\ ~(\E c \in Core : ito[c] = d /\ isr[c] \in {"accepted", "notify"})
              => Notified(d)
        /\ func[d] /\ ~fin[d] /\ ~(\E c \in Core : to[c] = d /\ sys[c] = "signal")
              => Notified(d) \/ (sys[d] = "own" /\ serve[d] # "none")

(* What callers and servers see is what a service that takes effect once,  *)
(* at one moment, would show.                                              *)
Slot(c, i) ==
    LET j == ptr[c] - cnt[c] + i - 1 IN IF j < 0 THEN j + async_max ELSE j
Waiting(c) == [i \in 1..cnt[c] |-> ring[c][Slot(c, i)]]
BoxOf(c) == IF sys[c] = "unlock" THEN <<buffer[c]>> \o Waiting(c) ELSE Waiting(c)
Box == [c \in Core |-> BoxOf(c)]

Answered(c) ==
    \/ sys[c] \in {"clear", "release"}
    \/ sys[c] \in {"signal", "wait"} /\ (fin[to[c]] \/ serve[to[c]] = "finish")
AnswerTo(c) ==
    IF ~Answered(c) THEN NONE
    ELSE IF sys[c] \in {"clear", "release"} THEN got[c] ELSE reply[to[c]]
CallFrom(c) == [to |-> to[c], req |-> req[c], done |-> Answered(c), ans |-> AnswerTo(c)]
CallOf == [c \in Core |-> CallFrom(c)]

Remote == INSTANCE RemoteService WITH box <- Box, call <- CallOf
IsRemoteService == Remote!RSpec

(* Handlers that spin for each other's rings, having interrupted drivers   *)
(* that hold them.                                                         *)
Entangled ==
    \E S \in (SUBSET Core) \ {{}} :
        \A c \in S : isr[c] = "lock" /\ ito[c] \in S /\ sys[c] = "unlock"

(* Every call and every post returns, and what was posted is executed,     *)
(* unless handlers entangle: cores that call each other at the same time   *)
(* serve each other.                                                       *)
Busy(c) == sys[c] # "idle" \/ isr[c] # "none" \/ cnt[c] > 0
CallsReturn == (\E c \in Core : Busy(c)) ~> ((\A c \in Core : ~Busy(c)) \/ Entangled)

=============================================================================
