# µC3/Standard in TLA+

µC3/Standard is an ITRON-style real-time kernel (`Kernel/Standard`), here in its AArch64 port,
shipped with device drivers, a TCP/IP stack and an OpenAMP port. This directory holds TLA+
models of the kernel, the TLC configurations that check them, and TLAPS proofs.
Paths below are relative to `src/Kernel/Standard/src` unless they begin with `src/`.

## 1. The system

### Inventory

| Component | State | Operations | Interacts by | What must hold |
|---|---|---|---|---|
| **Dispatcher** (`AArch64/GCC/uC3dsp.S`, `uC3krncm1.c`) | the system table: inhibitors `dsp`, `dlock`, `ims`; deferred request `rdsp`; service in progress `cssb`; current task `ctcb`, its priority `pri`; pool and queue of system service blocks (SSB); ready queues | system entry, dispatch loop, interrupt entry/exit, `getssb`/`enqssb`/`relssb`, `dis_dsp`, `ena_dsp`, `loc_cpu`, `unl_cpu` | every service is a function pointer and arguments in a TCB or an SSB, executed at the system level | services atomic, in order, once; no block lost or shared; the most urgent task runs; posts first |
| **Time** (`uC3sigtim.c`) | system time (two words), timer queue | `enqtim`, `isig_tim`/`sigtim`, `set_tim`, `get_tim` | the queue links TCBs and time event blocks alike | order across the word overflow; nobody early, nobody forgotten |
| **Alarm, cyclic handlers** (`uC3*alm.c`, `uC3*cyc.c`) | block with flags STA, PND, RST, PHS; due time | create, delete, start, stop, expire, call | an expired block moves from the timer queue to the SSB queue by the same links | links agree with flags; cycles drift-free; alarms neither early nor lost; stop stops |
| **Tasks** (`uC3cretsk.c` ...) | state and wait reason, base and current priority, activation, wakeup and suspension counts | create, delete, activate, start, exit, terminate, change priority, rotate | ready queue, every wait queue | flags tell which queues a task is on |
| **Task synchronisation** (`uC3slptsk.c` ...) | as above | sleep, wake, release, suspend, resume, delay | timer queue | no wakeup lost; every early end of a wait unlinks everything |
| **Semaphores** | count, wait queues (FIFO or by priority) | create, delete, wait, poll, signal | ready and timer queue | nobody waits beside a free resource |
| **Mutexes** (`uC3locmtx.c`) | owner, chain of a task's mutexes, inherited/ceiling priority | lock, unlock, and hooks in release, terminate, timeout, change priority | priorities of tasks, transitively | mutual exclusion; current priority = most urgent of base, ceilings and waiters |
| **Event flags** (`uC3*flg.c`) | pattern, wait queue | create, delete, set, clear, wait | wait queue, timeouts | nobody waits for a pattern that is shown |
| **Data queues** (`uC3*dtq.c`) | ring of words, two wait queues | create, delete, send, forced send, receive | a word moves from a waiting sender into the ring, or past it to a waiting receiver | one line of values, in order |
| **Mailboxes** (`uC3*mbx.c`) | list heads, links in the messages themselves | create, delete, send, receive | the memory belongs to the sender, then to the receiver | the links lead through exactly what was sent and not received |
| **Message buffers** (`uC3*mbf.c`) | byte ring, two wait queues | create, delete, send, receive, look at the senders | every end of a sender's wait may make room for the next to be first | messages whole and in order; no sender left that fits |
| **Rendezvous ports** (`uC3*por.c`, `uC3rplrdv.c`) | queues of callers and acceptors, parameters in the callers' TCBs | create, delete, call, accept, forward, reply | a caller is in a queue or, in rendezvous, in none | matching patterns meet; a reply fits |
| **Memory pools, kernel memory** (`uC3krncm1.c`, `uC3*mp?.c`) | free lists, wait queues | create, delete, get, release, look at the waiters | waiters of varying size | no byte given out twice or lost; neighbours merged; nobody waits for what is free |
| **XCORE** (`XCORE/`, `src/Driver/Standard/src/DDR_AArch64_MP_XCORE.c`) | per core, in shared memory: a table for one synchronous call, a ring of asynchronous ones, a spin lock for each; the driver's block | `v*` variants of the services: call and wait, post from a handler; driver | software interrupts (SGI) between cores; a waiting caller serves its own core | each remote call executed once, answered once to its caller; posts in order; calls that cross return |
| Overrun, exceptions, hooks, configuration, references | handler tables | define, start, stop, read | the tick | - |
| Drivers, network, OpenAMP, Linux layers, samples | - | - | call the kernel | outside this project for now |

### What is hard here

*One processor, two kinds of concurrency.* Tasks are preempted wherever dispatching is possible;
interrupt handlers nest on anything whose interrupt mask is open, the system level included. No
service is written with locks: instead every service is made a message (its function and arguments in
a TCB or an SSB) that one loop executes. The argument for this is in the order of a few dozen
instructions of `uC3dsp.S`, among them an interrupt exit that *abandons* the interrupted system level.

*Deferral.* Three inhibitors make a dispatch wait in one flag. Each way of lifting one must make up for it.

*Shared links.* A TCB is linked in the ready queue or a wait queue with one pair of links, and in the timer
queue with another; a time event block uses one pair for the timer queue and the SSB queue. Nothing but
a few flag bits says which link is in use, and every service that ends a wait early unlinks by them.

*Waiters behind waiters.* Where requests differ in size (memory pools, message buffers) the end of one wait may let the
next one go on, so that a release, a termination, a change of priority and a timeout each have to look at the queue again.

*Cores.* Tables between cores are written field by field and looked at without their locks; an interrupt between cores that comes while one is
pending is lost, and a core that waits for another is itself waited for. Spin locks do not keep interrupts out.

*Time.* Due times are two-word sums; several ticks may pile up; a handler is called later than it was due,
and other handlers start and stop it in between.

`PROJECT.json` lists these hazards line by line with the properties that cover them.

## 2. Modules

| Module | Models | State | Actions |
|---|---|---|---|
| `AtomicService` | what the dispatcher promises: requests are served one at a time, each once, in order, in one step; a task runs only with none outstanding | `pending`, `running`, `asleep`, `wup` | `Call`, `Post`, `Serve`, `Run`, `Preempt` |
| `Dispatch` | `uC3dsp.S` and the service call stubs, at the grain of what the hardware cannot split | the system table; TCB fields the dispatcher uses; processor: `lv`, `imask`, `nxt`, `tpc`, `isr` | one per masked section of `entsys`, `relrun`, `dispatch`, `entint`/`retint`, SSB pool |
| `Queue` | `Keep`: the kernel's lists when some of their entries have been unlinked | - | - |
| `TimerQueue` | SYSTIM and `_kernel_enqtim` as operators | - | - |
| `TimeEvent` | alarm and cyclic handlers with the SSB queue between expiry and call | `timq`, `ssbq`, `cssb`, flags `msts`, `stime`, tables | one per service; tick, skip, call, return |
| `TaskSync` | tasks, synchronisation, delays, semaphores, timeouts | TCB fields, ready, wait and timer queues | one per service; tick; dispatch |
| `Mutex` | mutexes on top of `TaskSync`: ownership, inheritance, ceilings, and what they do to the other services | `lockmtx`, `bpri`; `owner`, `mpri`, `mtxq`, `mtxatr` | one per service that touches a mutex, a wait for one or a priority |
| `Waiting` | what waiting for an object is, whatever the object: queues, flags, reasons, timeouts, `rel_wai`, `ter_tsk`, `chg_pri`, creation and deletion | `que`, `sque`, `msts`, `wsts`, `wobj`, `par`, `cpri`, `timq`; `chk`, `post`, `owed`, `out` | `TimeOut`, `RelWai`, `TerTsk`, `ChgPri`; `Create`, `Delete`, `Block`, `Wake` for the kinds |
| `Semaphore`, `EventFlag`, `DataQueue`, `Mailbox`, `MessageBuffer`, `Rendezvous`, `FixedPool`, `MemPool` | one kind of object each | its control block | one per service |
| `Channel` | what a data queue promises: one line of values | `cap`, `fifo`, `line`, `got` | `Open`, `Put`, `Get`, `Overwrite`, `GiveUp`, ... |
| `Objects` | the kinds together | `overtaken` | `Service`, `Serving`, `Overtaken` |
| `DataChannel` | the mapping from one data queue of `Objects` to `Channel` | | |
| `RemoteService` | what XCORE promises: a call takes effect once, between call and return; posts in order | `obj`, `box`, `call` | `Ask`, `Serve`, `Return`, `Post`, `Execute` |
| `XCore` | calls and posts between cores | `asynctbl`, `synctbl`, `signals`; what each core's `system` level and `handler` is at | `Call` ... `Release`; `SeeFin` ... `Finish`; `Begin` ... `Execute`; `Sgi`, `Interrupt` ... `Notify` |
| `MCDispatch`, `MCTimeEvent`, `MCTaskSync`, `MCMutex`, `MCObjects`, `MCXCore` | instances for TLC | | |
| `QueueLemmas` | what the operators of `Queue` and `TimerQueue` on queues and on times do, for the proofs | | |
| `DispatchProofs`, `TimeEventProofs`, `TaskSyncProofs`, `MutexProofs`, `XCoreProofs` | theorems about `Dispatch`, `TimeEvent`, `TaskSync`, `Mutex` and `XCore` | | |
| `ObjectsProofs` | theorems about `Objects`: pools, waits and queues, nobody waits for what is there | | |
| `MessageProofs` | more of them, resting on these: rings, memory waited for, mailboxes, types, the channel | | |

**How they compose.** `Dispatch` uses three stand-in services - one that blocks the caller (`slp_tsk`), one
that readies a task (`wup_tsk`), one that reorders (`rot_rdq`) - because these are the three effects a service
can have on scheduling. Its run checks that it implements `AtomicService`; on the strength of that,
`TaskSync` and `TimeEvent` take a service as one step. `Dispatch`'s `PostsDrained` is what lets `TimeEvent`
say that *tasks* only act when no block waits for service, while *handlers* act at any time in between.
`TimeEvent` and `TaskSync` share `TimerQueue`. `Mutex` extends `TaskSync` and replaces its actions where mutexes matter.
`XCore` stands above all of them: a core is its kernel, `obj`, on which a service works with `Effect` and `Answer`, both parameters; that a service is
one step on its own core is what the other modules are about, and the driver is a block posted to it, as in `Dispatch`.
`Objects` starts from the same atomic services but leaves scheduling and the order of timeouts to `TaskSync`: there any ready
task may call next and any timeout may elapse next, which allows more than the code does. The kinds of object extend
`Waiting` and know nothing of each other.

### Correspondence and abstractions

*Dispatch.* `lv` says where the level below the interrupts stands: `task`; or the system level, `exec` (a service
about to execute), `rel` (`relssb`), `clr` (clearing `cssb`), `deq` (`deqssb`), `sel` (`dispatch_4`), `res`
(`dispatch_5`), `idle`. `isr` is the stack of nested handlers, each with the SSB it took but has not posted. `tpc`
says where a task stands in a stub: `stub` (object looked up), `unlock` (`unl_cpu` between enabling interrupts
and clearing `ims`), `relrun`, `entsys0`. A service function is one step because a handler reads nothing it
writes except through masked sections; interrupts are enabled in it, but commute. `saved` is `tcb.sp # 0`, by which
the interrupt exit tells a running task from one being switched. `par` is reset to a dummy after execution as
the function writes its result over `p1`. `loc_cpu` only masks interrupts; it is `entsys` that records it in
`ims`. A stale TRUE in `rdsp` is possible and harmless. Not modelled: services called by handlers while an SSB executes (they
run in line, as part of that service), `chg_ims` called by interrupt handlers, FPU contexts, trace hooks, statistics.

*TimeEvent.* A time is a record of two words, the lower one modulo `Word`. `due`, `want` and `deferred` are history: when each block
is due by the calls made, which alarms have been started and neither fired nor stopped, and which were started while their previous call was
still pending. The code arms these when that call has been made, counting from then: if ticks have passed since, the alarm is later
than was asked for by as many, which `Punctual` allows for `deferred` and for nothing else. Assumption: an
object is not used before the call that creates it has returned (`cre_cyc` publishes the block before it starts
it; a handler guessing the number could connect it twice). A period is at least one tick. A stopped cyclic handler whose call
is pending and that is started again fires at once: the code's behaviour, kept.

*TaskSync.* The error checks whose outcome is a mere return code are guards (a call that fails changes nothing). Waits
with dispatching disabled are refused. Tasks hold no mutexes here, so the base priority equals the current one.
CPU lock and `dlock` do not outlive a service (that is `Dispatch`'s subject). `ext_tsk` leaves `rdsp` set in the code, which makes
the next kernel entry choose the running task once more; the model clears it. `due` is history, as above.

*Mutex.* One service here makes several priority changes in turn, each a walk from task to owner to owner. The operators
take and return the kernel's state as a record `k` (`Now` is the current one, `Become(k)` makes one the next), so that a
service is the composition the code is: `Abandoned(Dequeued(Now, t), ...)`. `Turn` is one round of the loop of
`_kernel_chgpri`, `Changed` the loop; it is bounded by `MaxTurns`, more than any walk can take. The services of
`TaskSync` that touch neither mutexes nor priorities are left out of `MNext`, except `slp_tsk` and `wup_tsk`, which let an
owner block for another reason. Suspension, semaphores and queued activations are `TaskSync`'s; the instances here have none.
`Rank` is an assumption about callers: that they lock mutexes of different ranks in ascending order, which excludes
deadlock. The passing runs make it; `mutex_cycle` gives all mutexes one rank and so drops it.
Two-phase deletion (`del_mtx` frees the memory after the service) is one step.

*Waiting.* The queue named `que` is in order of arrival always (`que`, `wque` and `aque` in the code), `sque` in order of priority if the object has
TA_TPRI. An array of queues by priority is one sequence in that order. `par` holds those of `p1`..`p5` that
matter while the task waits. A call that need not wait names no caller, so it may come from a handler. `Wake` and `Release`
unlink by the flags as the code does, so an inconsistency would show. `objs` are the identifiers that exist; `ids` those that the
tables were made for at start-up, which no step changes. `out` is what the last step gave to a receiver.
`owed` is history too: it names an object when the first of its waiters may have become servable by a step after which the
code looks at no queue (see below), until a queue is looked at again. Suspension, mutexes and waits for no object are `TaskSync`'s and `Mutex`'s.

*XCore.* `sys` says where the system level of a core stands: in `_kernel_sync_sys` (`try` to `release`), in `_ddr_xcore_func_drv` (`unmark` to
`own`) or in neither; `serve` where it stands in looking at its own table, which happens in three places of the code with the same tests; `isr` where a
handler stands in `_kernel_async_sys`. An action is what the code does between two accesses to shared memory that another party can tell
apart. The fields written under a lock are one action with the last of them where nobody looks before it: `Publish` ends with `func_n`,
`Put` and `Take` change the ring up to the release of its lock, which is `Posted`, `Refused` or part of `Execute`. The tests of lock, `fin` and `func_n`
that a server makes one after the other are steps of their own (the first two are one: `fin` of an unlocked table is not set), as are the
answer, `func_n`, and `fin` with the lock, which a caller gives up in that order. One handler at a time runs on a core, the SGI's included; it may interrupt its
core's system level anywhere. SGIs are one flag per core. Not modelled: `SYNCCALL_ASYNC_MODE`, nested handlers of one core,
the flags `ready` and the checks of core numbers (start-up), trace and error hooks.

*Loops.* `_kernel_chkmpl` and `_kernel_chkmbf` serve the first waiter again and again. An iteration is a step. In a service nothing else happens
while `chk` names the object (`ChkMpl`, `ChkMbf`). After the timeout of `tget_mpl` the same loop runs when the kernel has returned, in the task's context
and with interrupts enabled (`uC3getmpl.c:152-158`): `post` says that the task has still to look or is looking, `LookMpl` is an iteration, and between two of them
any other call may come, those at the same pool and the termination of the task included.

*What a look outside the kernel may run into.* The code protects this look against nothing. A call may come in the middle of an iteration, where the free list and the
queue are half changed; `del_mpl`, which knows nothing of the look, may delete the pool, so that the loop reads through the null pointer in the table of pools or goes on with
a stale control block; and a task that serves one more urgent than itself clears `ctcb` (`uC3krncm1.c:295`) and runs on, without being the current task. `Overtaken` is that something of this kind happens:
it may happen to any look that is outstanding, at any time, and may make a free block of the pool one given out, or the reverse, with nobody owning it. From there the code's
behaviour is undefined (in C as well), so the model records it in `overtaken` and stops. `PoolApart`, `PoolWhole` and the half of `NoIdleMemory` about pools say what holds *until*
then, as their first disjunct states; no property of `Objects` speaks of what follows, and no program that uses `tget_mpl` with a timeout, with
another task or handler that uses the pool, can rely on them. If the pool is deleted and created again before the look, this is a look at the new pool; that the model
allows the same between two iterations is a behaviour more than the code has, and nothing depends on it.

*Data.* A word or message is a model value and a pattern a set of bits. A byte of a message buffer's header stands for the length and
a byte of the message for the message, so the ring, its wrap and the two-part copies are the code's. Blocks of a memory pool are
extents; the free list, which is in order of address, is the set of its blocks; the header of a block is part of its size. The
kernel allocates control blocks and queues from memory with the same `_kernel_getmem`; that creation fails for want of memory is left out.

## 3. Runs

| Run | Instance | Checks |
|---|---|---|
| `dispatch` | 2 tasks of different priority, 2 SSBs (symmetric), interrupts nested 2 deep, wakeup limit 1 | `TypeOK`, `SSBConserved`, `PostsDrained`, refinement of `AtomicService` (`ServesInOrder`) |
| `dispatch_sched` | 3 tasks, two of one priority, 1 SSB, no nesting | `HighestRuns`, `LookupLock`, and under `FairSpec` `PostsServed` |
| `timeevent` | 1 alarm, 2 cyclic handlers (with and without TA_PHS), alarm times 1 to 3, 2 ticks may pile up, `Word` = 4, time to 7 | `TypeOK`, `LinksMatchFlags`, `Punctual`, `AlarmNotLost`, `NotEarly` |
| `timeevent_stop` | the same | `StopAlarmHandlerOperation`: **violated** |
| `tasksync` | 2 tasks alike, FIFO semaphore, all timeouts, `Word` = 3 | `TypeOK`, `QueuesMatchState`, `SuspensionCounted`, `TimeoutsExact` |
| `tasksync_sched` | 3 tasks, two of one initial priority, semaphore by priority, activations queued, no time | `RunsMostUrgent`, `NoIdleResource` |
| `mutex` | 3 tasks alike; 2 mutexes (one inherits, the other inherits, has a ceiling or is FIFO), or one waited for with timeouts; 2 priorities | `MTypeOK`, `OwnersMatchChains`, `WaitersMatchState`, `NoInversion`, `RunsMostUrgent`, `PriorityRestored` |
| `mutex_inherit` | 3 tasks of 3 priorities, 2 inheriting mutexes | `InheritsFromWaiters`: **violated** |
| `mutex_cycle` | the same, locked in any order | `ReleasedFromWaiting`: **violated** |
| `objects` | 3 tasks alike, 2 priorities; one object of one of eight kinds, or two ports | `TypeOK`, `QueuesMatchWaits`, `NoIdleWait`, `LinkedInOrder`, `BlocksKept`, `PoolApart`, `PoolWhole`, `NoIdleMemory`, `RingHolds`, `ReplyFits`, `NoMatchWaits`, refinement of `Channel` (`DataQueueIsChannel`) |
| `rdv_forward` | the two ports, calls forwarded into queues in order of priority | `CallersWait`: **violated** |
| `xcore` | 3 cores, any 3 calls and posts among those of `MCCallTo` and `MCPostTo`, rings of 2 | `XTypeOK`, `NoRequestForgotten`, refinement of `RemoteService` (`IsRemoteService`), and under `XFairSpec` `CallsReturn` |

*Bounds.* Two blocks with two nested handlers are the least with which a block can be taken by a handler that
interrupted another one, or be retaken while `cssb` still names it; queue order shows with two posts and a task's call. With
the blocks all in use `getssb` fails, so exhaustion is reached. Three tasks are needed for two of equal priority to
compete under a third. `Word` is 3 or 4 so that due times cross the overflow of the lower word within the time bound
(`MaxTime`); the addition is the code's, so a larger word shows nothing new. The wakeup and nesting limits
are reached. The counters are those of the code, limited by the code's own checks (TMAX_*); only time is cut off by a bound.

Two mutexes and three tasks make the shortest chain, an urgent task that waits for the owner of one mutex, who waits for
the owner of the other; and two waiters for one mutex, so that one remains at a hand-over. A fourth task or a third mutex would lengthen the
chain by turns of the same loop.
That instance is at the limit of what finishes in time, so `ChainsOrTimeouts` cuts it: once a task waits with a timeout there is only one
mutex, and dispatching is enabled. Chains of two with timeouts are left out.

Three calls and posts in `xcore` (`MaxWork`) are two cores that wait for the table of a third, which calls one of them; or a call
among posts; or three posts, of which the ring of two refuses one. Every meeting of caller, server, driver, handler and SGI that the
code provides for happens. A core may have nothing left to do, or wait for ever for a lock (see `Entangled` below), so deadlock is not checked in this run.

In `objects` a system has the objects of one of `MCConfigs`: the kinds share no state but the waiting of tasks, each of which waits for
one object, so that two kinds together show no more than each with tasks that block elsewhere (ready tasks that do not call). Ports come in two,
as a call is forwarded from one to the other. Three tasks are two that wait in one queue and one that acts, or an acceptor, a caller
and one that forwards. All tasks are alike, so they are symmetric; the refinement mapping does not name them. Per kind:
a semaphore counts to 2; a data queue has no room or room for 2 words, of 2; a mailbox has 2 messages of 2 priorities; the byte ring has no
room or 5 bytes, for messages of 1 and 3 with a header of 1, so that messages wrap at every place; a fixed pool has 2 blocks; a memory pool
has 8 or 10 bytes in units of 2 for blocks of 4 and 6, so that a block is split, left over, merged below, above and on both sides. Memory
pools and message buffers are in order of priority, in which the queue can change most; the replies of the two ports differ by one
(`MaxRmsz`), so that a forwarded call meets one that is too large. `AcpTimed` makes acceptors wait with a timeout
(a wait without is the same but for one step); `FwdPri` keeps the passing run away from the fault `rdv_forward` shows.

*Fairness* (`FairSpec` of `Dispatch`): the processor executes code of the system level whenever no handler is active, and a
handler runs to its end (weak fairness of the system level as a whole and of a handler's remaining
steps). Nothing obliges a task to call a service, a handler to take a block, or an interrupt to arrive. `PostsServed` is
conditional on interrupts ceasing: with interrupts for ever, nothing below them need run.

`XFairSpec` lets each core go on whenever it has a step of the system level or a handler to make, and take a pending SGI; nothing obliges
a task to call or another interrupt to come. `CallsReturn` says that then every core comes to rest. It needs `Attend`: a caller that only waited
would leave two cores that call each other waiting for ever. `WF` on a spin lock's step is right here though it is disabled
while the lock is held, because the bounded number of requests leaves nobody to take the lock for ever; with requests without end a spinning core may starve.

### Disagreements found

* `timeevent_stop`: `sta_alm` on an alarm whose previous call is still pending sets PND and RST but not STA
  (`uC3staalm.c:37`); `stp_alm` acts only if STA is set (`uC3stpalm.c:25`), so it returns E_OK without effect and
  the alarm is armed again after the pending block is served. That `stp_alm` clears RST (`:32`) shows the intent.
* `rdv_forward`: `fwd_por` to a port with TA_TPRI clears TTS_WAI and TTS_TMR of the caller it queues (`uC3fwdpor.c:57`, `&= TTS_FIFO` where `&= ~TTS_FIFO`
  is meant). The caller is in the queue but not waiting: `rel_wai` refuses it, its timeout and `ter_tsk` leave it linked.
* `mutex_cycle`: two tasks wait for each other's inheriting mutex; base priorities are lowered; `rel_wai` is called for one of
  them. It disconnects the task (`uC3relwai.c:34`), then has the owner's priority recomputed (`:58`), which goes round the cycle and
  finds the task still marked as waiting for the mutex, so connects it to that queue again (`uC3chgpri.c:42-43`); then `:68` connects
  the same links to the ready queue. `ter_tsk` has the same order; the tick readies the task first and does not.
* `mutex_inherit`: a mutex handed over while others wait gets the new owner's priority as the inherited one (`uC3locmtx.c:242`) rather than
  that of the most urgent waiter left. After `chg_pri` of the owner, it stays at its old priority although nobody it blocks is so urgent.
  The weaker `PriorityRestored` holds: a task whose mutexes nobody wants has its base priority.

Not contradicted by any text of the repository, so kept in the models as behaviour, but worth a look:

* `ter_tsk` of a suspended task, followed by an activation, leaves its suspension count above zero; a later `sus_tsk` takes one `rsm_tsk` more to undo.
* A task may go on waiting for what is there (`owed`), until the next look at the queue: the sender that becomes first when the one before it times
  out (`uC3sigtim.c:107`) or gives its message directly to a receiver (`uC3rcvmbf.c:106`); the task that joins the queue of a memory pool
  as its most urgent waiter although its request fits (`uC3getmpl.c:87`); those behind a task that is terminated between its timeout and its look at the pool.
  `NoIdleMemory` leaves these out, so it does not say that they get on; that none but these exist is what it does say.
* `tget_mpl` walks the queue and the free list outside the kernel after a timeout (`uC3getmpl.c:152-158`), where it can be preempted: a block can be given out twice or lost, a task woken twice,
  a deleted pool read (see *What a look outside the kernel may run into*). The repository says nothing of it.
* `rpl_rdv` and `fwd_por` ignore the lower half of the rendezvous number (`uC3rplrdv.c:68`): a late answer ends the caller's next rendezvous.
* `fwd_por` of a call that has to wait keeps the address of the forwarder's message (`uC3fwdpor.c:46`), which is read when the call is accepted.
* Two cores' drivers, each holding the lock of its ring (`XCORE/uC3xcore.c:260`), are interrupted by handlers that post to the other's core: both handlers spin in
  `:109`, above the holders, for ever. `CallsReturn` exempts this (`Entangled`). It takes four posts, so the run does not reach it.
* `cre_mbx` returns a queue to the kernel's memory that a mailbox without TA_TPRI never had, when memory for its lists is short (`uC3crembx.c:84`).

## 4. Proofs

`DispatchProofs` proves, for any finite pool of blocks, any set of tasks and priorities, any depth of nesting and any
initial ready queues that hold each task once, with no assumption but `ConstantsAssumption` and `InitRdqAssumption`:

* `Invariance`: `Spec => []IInv`, with `IInv == TypeOK /\ LevelInv /\ SSBConserved /\ PostsDrained`;
* `TypeCorrect`, `BlocksConserved`, `PostsBeforeTasks`: the three invariants the run `dispatch` checks;
* `SchedInvariance`: `Spec => []SchedInv`, with `SchedInv == ReadyInv /\ ChoiceInv /\ RequestInv`;
* `HighestRunsAlways`, `LockHolds`: the two invariants of `dispatch_sched`;
* `ImplementsAtomicService`: `Spec => ServesInOrder`, the refinement of `AtomicService`.

None of the conjuncts of `IInv` is inductive alone. `SSBConserved` needs to know, when the interrupt exit restarts the loop, that
no block was in service; `PostsDrained` that a task resumes only through `sel`. `LevelInv` says what the processor's
position implies about the shared state: no service is in progress (`cssb`) where the loop is between services or a task
runs; one is at `exec`, and a block at `rel`; the queue holds blocks only (a TCB is never queued, so that branch of `entsys` is dead).
`ReadyInv` says that each ready queue holds only tasks of its priority that do not sleep, each once; `ChoiceInv` that the current task
is the one the ready queues demand, or a dispatch is deferred and something is left that makes up for it; `RequestInv` that a request stays as it was made until it is
served, and that the lock of the lookup keeps its task current.
The `...Step` lemmas each show one conjunct preserved by every action; `NoBlockMoves` covers the actions that move no block.

The refinement maps the state to the requests that are outstanding in their order (`Pending`: the service in progress, then the queue) and to the
task that runs (`Running`: none from the moment it enters the kernel until it is resumed). The execution of a service function is `Serve`, `enqssb` is `Post`, `entsys` of a task is
`Call`, the resumption is `Run`; a task that loses the processor in `_kernel_relrun` or at an interrupt exit is `Preempt`. Everything else is a stutter, in particular what
an interrupt exit does to the system level it abandons, as by `LevelInv` no service is executing there.

`QueueLemmas` holds what the other proofs need to know of queues: inserting, removing, appending, splitting, `Keep` as the selection of
a subset (`KeepSelects`), walking along a ring (`WalkFacts`), sums (`SumsGrow`), addition with carry (`AdvanceExact`), that what is repeated stays in a set or gets somewhere (`StaysIn`, `Iterates`), and that a timer queue stays in order of time. `Keep` is a recursive function, and what it computes is
proved by induction; as the library's induction theorems cannot be instantiated here, `LeastOf` (a set of numbers that is not empty has a least
element) is proved from the theory of finite intervals and `SetInduction` from it, both stated for a *set* instead of a predicate.

`TimeEventProofs` proves of `TimeEvent`, for any handlers, periods, phases, attributes, word size and number of waiting ticks, from the assumptions of
the modules:

* `InitHolds`, `NextHolds`, `Invariance`: `Spec => []IInv`, with `IInv == TypeOK /\ Flags /\ Links /\ Timing /\ Wanted`;
* `TypeCorrect`, `LinksCorrect`, `PunctualAlways`, `AlarmKept`, `NeverEarly`: every property of the run `timeevent`.

`Flags` lists the combinations of flags that occur, `Links` says of each in which list the block is, `Timing` what its time is then: on the
timer queue, the time the calls made it due; waiting for its call, a time that has come; started anew meanwhile (RST), an interval that does not
lead to a time before the due one. `Wanted` says that an alarm that is to fire has STA or RST. The order of the timer queue is used where a tick takes
blocks off its front, and the carry of the addition in every service that arms one.

`TaskSyncProofs` proves of `TaskSync`, for any tasks, priorities, semaphores, counters, timeouts and word size, from the assumptions of the modules:

* `Invariance`: `Spec => []IInv`;
* `TypeCorrect`, `QueuesMatch`, `SuspensionsCounted`, `ResourcesHandedOn`, `MostUrgentRuns`, `TimeoutsAlwaysExact`: every property of the runs
  `tasksync` and `tasksync_sched`.

`IInv` has, besides `TypeOK`, `SuspensionCounted` and `NoIdleResource`: which combinations of flags there are (`Flagged`); that the members of every ready queue, of every
wait queue and of the timer queue are exactly the tasks whose flags, reason and priority say so, each once (`OnRdq`, `OnSemq`, `OnTimq`); that a timeout's time is the due one (`Timed`); and that
the task chosen is the first of the ready queues unless a dispatch is deferred (`Chosen`). A service takes a task off one queue and puts it on another, and in between the
flags and the links disagree; `OffRdq`, `OffSemq` and `OffTimq` say what holds then, for given queues and flags, with the tasks under way excepted. The lemmas
`RdqDrop`, `RdqEnter`, `SemqDrop`, ... are about one such move, `EnterStep` and `BlockStep` about the two ways in which all services end, and each service is a composition of these.
`sigtim` wakes all tasks whose time has come at once; `Keep` is what it leaves of the wait queues.

`ObjectsProofs` proves of `Objects`, first of the pools, for any tasks, objects, sizes and alignment, from the assumptions of the modules alone:

* `PoolsStayApart`, `PoolsStayWhole`: `Spec => []PoolApart` and `Spec => []PoolWhole`, through `PoolsKept == MplTypeOK /\ (overtaken \/ PoolInv)`;
* `BlocksStayKept`: `Spec => []BlocksKept`, through `BlocksInv == MpfTypeOK /\ BlocksKept`.

`PoolInv` is what the first two say where no look was overtaken. That the blocks are apart needs that sizes are positive numbers, and that nothing is lost needs it too: two free blocks below a returned one would
both end where it starts, and only one would be joined (`OneNeighbour`). The argument is about one pool, as a set of extents: `TakenSound` and
`TakenWhole` for `_kernel_getmem`, `ReturnedSound` and `ReturnedWhole` for `_kernel_relmem` by its four cases, which all are `JoinParts` and `JoinApart`
of a block with its neighbours; `OnePool` carries it to the system, in which one step changes one pool. The iterations of a look, in a service or by a task, are the same step for
this (`PoolServed`), so other calls between them do no harm; only `Overtaken` leaves `PoolInv`, and says so. For the fixed pools
`TailKept` and `ConsKept` say what taking the first block of a list without repetition, and putting one in front, preserve. No fact about which task
waits is needed: `GiveKeeps` and the lemmas after it only use that a block given out is free and one returned is held.

Then, with `MessageProofs`, which extends it, for any tasks, priorities, objects, attributes, capacities, patterns and sizes, from the assumptions of the modules and
`FwdPri = FALSE` - no call is forwarded into a queue in order of priority, which is the fault that `rdv_forward` shows:

* `QueuesAlwaysMatchWaits`: `Spec => []QueuesMatchWaits`;
* `RepliesAlwaysFit`: `Spec => []ReplyFits`;
* `NobodyWaitsIdly`: `Spec => []NoIdleWait`, `CallersMeetAcceptors`: `Spec => []NoMatchWaits`;
* in `MessageProofs`, `RingAlwaysHolds`: `Spec => []RingHolds`;
* `NoMemoryWaitsIdly`: `Spec => []NoIdleMemory`;
* `LinksAlwaysInOrder`: `Spec => []LinkedInOrder`, without that condition;
* `TypesAlwaysHold`: `Spec => []TypeOK`;
* `DataQueueKeepsItsPromise`: `Spec => DataQueueIsChannel`, the refinement of `Channel` by whichever data queue `dtq1` is.

What the properties say of queues is turned round: the invariant speaks of tasks. `Queued` says that the members of each queue are exactly the tasks whose reason and
object name it, each once and in order, `Flagged` what the flags of a task are by its reason, `Asking` that the object is of the kind of
the reason and the parameters are such as that kind expects. With these, `SemIdle`, `FlgIdle`, `DtqIdle`, `MbxIdle`, `PorIdle` and `MpfIdle` say of each task
that waits what its object is like. The first part is about waiting alone: all that happens to a wait is that it begins (`BlockKeeps`), ends (`ReleaseKeeps`) or that its
task moves in the queue (`ChgPriKeeps`), and only the rendezvous does two at a time; each service is shown to be one of these. `Begins(W)` is what the second part needs of the first: waits go on as they
were, or end, or begin for one of the reasons `W`. So a service of another kind cannot disturb what is known of a kind (`Untouched`), and of its own services
(`SemHolds`, ...) only those count that make something free while somebody waits. `ReplyFits` needs that a caller still waiting at a port was promised no more there than its buffer holds (`Asks`).

`RingInv` says of every message buffer that what is free and what the messages in it take are its size, that the place to put is that many bytes from the place to get, and
what lies in between. `TakingFacts`, `TakingAppend` and `TakingTail` are about the bytes that a sequence of messages takes (a sum, by induction as below),
`RingPut` and `RingGet` about one ring, in which a message is put behind the others or taken from their front; where a byte lies is a walk along the ring, and the walks' arithmetic is in `QueueLemmas`.
It needs of the tasks that wait only that a sender's message is not longer than its buffer allows (`Asks`).

`NoIdleMemory` is about who looks: requests differ in size, so the end of one wait may be what lets the next go on, and the kernel, or the task that
timed out, looks at the queue again. `Looked` says that where the first request fits, somebody has to look: it is
`Pending` in `chk`, in `post`, or, where the code does not look, recorded in `owed`. `Posted` says that who has to look at a pool does not wait. A step either leaves the first task
of a queue and its request as they were and frees nothing (`Still`; `SemStill` ... `PorStill` for the other kinds of object), or makes somebody look (`TaskStill`,
`MplLooked`, `MbfLooked`), or is itself the look, which ends only when the first request does not fit (`ServingLooked`, and `MplLooked` for a look outside the kernel). All of it is said of the time before a look
was overtaken; a step that overtakes one leaves queues and buffers alone, so of message buffers it holds after it too. `MbfIdle` is about the receivers, as in the first part.

`MailInv` says of every mailbox what `LinkedInOrder` does (`Chain`), that a message is in it once and that no message is in two: a link belongs to a message, so a service of one mailbox would otherwise
break the list of another. `ChainAppend`, `ChainTail` and `ChainSame` are about one list; a message that is sent or received changes the list of its
priority and leaves the others (`SndMbxKeeps`, `RcvMbxKeeps`). `TypesAlwaysHold` takes the types from the invariants of the other theorems; what they do not have is that the place to put in a data queue stays in
its ring, which needs that a word is stored only where there is room or a ring to overwrite (`StoreTyped`, `DtqTyped`).

The refinement of `Channel` maps a data queue to the words in its ring from the oldest on, followed by those of the senders in the order of their queue (`Line`). Its invariant is that of the
theorems before it, with `DtqTypeOK`; what it needs of it is that the ring is full while senders wait and empty, with no sender, while receivers do (`Idles`): so a word handed to a receiver is
the head of the line, and a sender's word that moves into the ring stays where it was in the line. `StoreLine` and `DropLine` say what the two counters do to the words in the ring across its end,
`JoinsOffered` and `LeavesOffered` what a task that joins or leaves the queue does to the words of the senders, and `LineOverwrites` ... `LineMoves`, on sequences alone, what that is to the two
joined together. The `Shows...` lemmas are the steps of `Channel`; each service, and each end of a wait, is one of them (`SndShows`, `RcvShows`, `ReleaseShows`, `ChgPriShows`, ...), and what
happens to other objects is `Pause` (`SemAside` ... `MbfQuiet`): it gives nothing to a receiver of this queue and leaves its control block (`SameRing`) and the senders in it as they are.

`MutexProofs` proves of `Mutex`, for any tasks, mutexes, attributes, ceilings, priorities, timeouts and word size, from the assumptions of the
modules and `LockOrder` - callers lock mutexes in an order:

* `MInvariance`: `MSpec => []MIInv`;
* `MutexTypes`, `OwnersMatch`, `WaitersMatch`, `NoInversions`, `PrioritiesRestored`, `MostUrgentRunsOn`: every property of the run `mutex`.

`LockOrder` is not only there for the prover. Without it two tasks may wait for each other, and then `WaitersMatch` is false: `rel_wai` leaves a ready task in a
wait queue (`mutex_cycle`). `Rank` gives every mutex its place, and that any two differ is all that `LockOrder` says; `LocMtx` has the guard. In the invariant it becomes a part
of `Backed`: no task waits for a mutex before one it holds.

`MIInv` says that the kernel's state is `Whole`: all queues match the tasks (`Linked`), the processor the ready queues (`Running`), the chains the owners (`Chained`), owners
exist and are not dormant (`Backed`), a mutex passes on a priority at least as high as its waiters' and none when nobody waits (`Offered`), and each task has the most urgent of its own
priority and those passed on to it (`Inheriting`). The last two are more than `NoInversion` and `PriorityRestored` and need each other. `Offered` is
one-sided on purpose: a mutex may pass on more than its waiters have (`mutex_inherit`), and it is not until the last waiter leaves that it passes on nothing.

Between the changes of one service none of this holds, so `Part` says it with exceptions: the tasks that are off their wait queue or off the timer queue and not ready yet (`X`, `Y`), the one
whose chain is being given up and the mutexes of it (`x`, `M`). A service that leaves the processor undecided for a moment is `Calm`, which is `Part` without
`Running`. Each operator of `Mutex` has a lemma that says from which `Part` to which it leads - `ReadiedFacts`, `MovedFacts`, `HandedOverFacts`,
`AllHandedOverFacts`, `AbandonedFacts`, `TimedOutFacts`, in the first half of the module; a service's proof, in the second, puts them together in the order of the code; the last of them gives `Whole` with no exceptions.

The hard one is `_kernel_chgpri`, which walks from a task to the owner of the mutex it waits for and on, and at each changes a priority. `OnWay` is what holds between two turns: everything is as
in `Whole` but the priority of the one task that is next, and the one it is to have is at hand. A turn (`TurnFacts`) settles that task and leaves only the next owner wrong, or nobody:
it stops early where the mutex passes on another waiter's priority or the owner has a priority as high from elsewhere. That the walk ends is `LockOrder` again: `NthTurn` says that turn
`i` comes to a task *after* which there are `i` others (`After`: they wait for a mutex below one it owns), none of which it can be itself, so there are fewer turns than tasks, and `MaxTurns` is not
what ends the loop. `Released` (`del_mtx`), the hand-over of a whole chain and the timeouts of one tick are repeated in the same way, with a set that shrinks.

`XCoreProofs` proves of `XCore`, for any cores, services, callers and ring size, from `XCoreAssumption` alone:

* `RingsHold`, `RequestsRemembered`: `XSpec => []XTypeOK` and `XSpec => []NoRequestForgotten`, through `XInv`;
* `XCoreIsRemoteService`: `XSpec => IsRemoteService`, the refinement.

`XInv` adds to the two what each party relies on. `LockInv`: a table is locked by the one caller that holds it. `TableInv`: it has a function from
`Publish` to `ClearFunc`, and `fin` only while its holder waits or leaves. `ServerInv`: who has begun to serve finds the request still there, since its
holder cannot leave without the answer; so a request is served once. `DriverInv`: the block is marked while it is queued and until the driver unmarks it, so
that an SGI either queues it or finds a driver that has not looked yet. Each `...Step` lemma shows one of them preserved, action by action. The
refinement maps a ring to the sequence of its entries from the oldest on, with the one the driver has taken in front, and a core to the call it is in.
`PutAppends` and `TakeOldest` are the arithmetic of the ring; `OthersStay` says that whatever happens in a table concerns
the call of its holder only; the `...Shows` lemmas say for each party what of its steps `RemoteService` sees: `Run` is `Serve`, `Put` is `Post`,
`Execute` and `Call` and `Release` are what they are called, all else is a stutter. That needs no property of the rings' locks: it would hold of any order of `Put` and `Take`,
which the locks make single steps.

Only model-checked: liveness under fairness (`PostsServed`, `CallsReturn`), which is out of the prover's reach. The four properties that runs find violated are not theorems. Every
other property of a passing run is one.

## 5. Plan

In this order; done items marked.

1. `AtomicService`, `Dispatch`, `DispatchProofs` with the refinement - done.
2. `Queue`, `TimerQueue`, `TimeEvent`, `TimeEventProofs` - done. `TaskSync`, `TaskSyncProofs` - done for tasks without mutexes.
3. `Mutex`, `MutexProofs` - done.
4. `Waiting`, the eight kinds of object, `Channel`, `Objects` - done.
5. Two-phase creation and deletion with posts that name the deleted object; the overrun handler.
6. `RemoteService`, `XCore`, `XCoreProofs` - done. Handlers that nest on one core; the asynchronous mode of calls.
7. `ObjectsProofs`, `MessageProofs` - done.

## 6. Not modelled

Register-level code (context save formats, FPU, MMU, GIC, timers), the references (`ref_*`, which change nothing), hooks and tracing, start-up
and configuration, the network stack (a product of its own on top of the kernel), vendored OpenAMP/libmetal, Yocto layers,
samples. Of the kernel itself: creation and deletion of tasks and what a full kernel memory does to creation, the overrun
handler, and `set_tim` and `get_tim`; of XCORE the start-up and the mode in which calls do not wait. The kernel is a small share of the repository: most of its
lines are device headers, vendored drivers, middleware and the network stack.
