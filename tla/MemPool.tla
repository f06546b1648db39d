------------------------------- MODULE MemPool -------------------------------
(***************************************************************************)
(* Variable-sized memory pools (uC3crempl.c, uC3delmpl.c, uC3getmpl.c,     *)
(* uC3relmpl.c) and the kernel's memory management under them,             *)
(* _kernel_getmem and _kernel_relmem (uC3krncm1.c).  The free memory is a  *)
(* list of blocks in order of address, from which the first block that is  *)
(* large enough is taken, its lower end if it is larger; what is returned  *)
(* is joined with its neighbours.  A set of blocks stands for the list.    *)
(*                                                                         *)
(* Tasks are served in the order of the queue, by _kernel_chkmpl, as long  *)
(* as the first one's request fits.  The iterations of its loop are steps  *)
(* here.  In a service nothing else happens before the loop has ended      *)
(* (chk).  But tget_mpl walks the queue after a timeout as a task, when    *)
(* the kernel has returned: other calls come between its iterations, and   *)
(* one that comes in the middle of an iteration, or that deletes the pool, *)
(* leaves memory and queues in a state for which the code has no meaning.  *)
(* The model notes that as overtaken, shows what may become of the memory, *)
(* and ends there: no property says anything of what follows.              *)
(***************************************************************************)
EXTENDS Waiting

CONSTANTS Mpl,
          ALIGN,        \* _kernel_ALIGN_SIZE: blocks are multiples of it
          MplSz, BlkSz, \* the sizes of pools and of blocks that are asked for
          MplAtr        \* attributes to create pools with

ASSUME MemPoolAssumption ==
    /\ Mpl \subseteq Obj /\ ALIGN \in Nat \ {0}
    /\ MplSz \subseteq Nat \ {0} /\ BlkSz \subseteq Nat \ {0}
    /\ MplAtr \subseteq SUBSET {"TPRI"}

VARIABLES
    allsz,      \* the size of each pool
    mem,        \* its free blocks
    held,       \* the blocks that were given out, by address and rounded size
    overtaken   \* a look at a pool outside the kernel was overtaken by a call
mplvars == <<allsz, mem, held>>

MplInit ==
    /\ allsz = [o \in Mpl |-> 0]
    /\ mem = [o \in Mpl |-> {}] /\ held = mem
    /\ overtaken = FALSE

-----------------------------------------------------------------------------
RoundUp(n)   == n + ((ALIGN - (n % ALIGN)) % ALIGN)
RoundDown(n) == n - (n % ALIGN)
End(b)       == b.adr + b.size

(* _kernel_getmem: b is the first free block of n bytes or more. *)
FirstFit(o, n, b) ==
    /\ b \in mem[o] /\ b.size >= n
    /\ \A c \in mem[o] : c.size >= n => b.adr <= c.adr

(* A fault: what is left is not where the block given out ends. *)
TakenBelow(o, n, b) ==
    (mem[o] \ {b}) \cup (IF b.size = n THEN {}
                         ELSE {[adr |-> b.adr, size |-> b.size - n]})

Taken(o, n, b) ==
    (mem[o] \ {b}) \cup (IF b.size = n THEN {}
                         ELSE {[adr |-> b.adr + n, size |-> b.size - n]})

(* A fault: the free block above is not joined. *)
ReturnedBelow(o, b) ==
    LET below == {c \in mem[o] : End(c) = b.adr}
        from  == IF below = {} THEN b.adr ELSE (CHOOSE c \in below : TRUE).adr
    IN (mem[o] \ below) \cup {[adr |-> from, size |-> End(b) - from]}

(* _kernel_relmem: a block joins the free one that ends where it starts    *)
(* and the one that starts where it ends.                                  *)
Returned(o, b) ==
    LET below == {c \in mem[o] : End(c) = b.adr}
        above == {c \in mem[o] : c.adr = End(b)}
        from  == IF below = {} THEN b.adr ELSE (CHOOSE c \in below : TRUE).adr
        to    == IF above = {} THEN End(b) ELSE End(CHOOSE c \in above : TRUE)
    IN (mem[o] \ (below \cup above)) \cup {[adr |-> from, size |-> to - from]}

(* A block has its size in front of it. *)
Need(blksz) == RoundUp(blksz + ALIGN)
Fits(o, blksz) == \E b \in mem[o] : b.size >= Need(blksz)

Give(o, blksz) == \E b \in mem[o] :
    /\ FirstFit(o, Need(blksz), b)
    /\ mem'  = [mem EXCEPT ![o] = Taken(o, Need(blksz), b)]
    /\ held' = [held EXCEPT ![o] = @ \cup {[adr |-> b.adr, size |-> Need(blksz)]}]
    /\ UNCHANGED allsz

(* cre_mpl: the kernel's memory is rounded up, the caller's down. *)
CreMpl(o, a, sz) ==
    /\ Create(o, a) /\ sz # 0
    /\ allsz' = [allsz EXCEPT ![o] = sz]
    /\ mem' = [mem EXCEPT ![o] = {[adr |-> 0, size |-> sz]}]
    /\ held' = [held EXCEPT ![o] = {}]

(* A call that timed out may still have to look at the pool. *)
DelMpl(o) ==
    /\ Delete(o)
    /\ allsz' = [allsz EXCEPT ![o] = 0]
    /\ mem' = [mem EXCEPT ![o] = {}] /\ held' = [held EXCEPT ![o] = {}]

(* get_mpl, pget_mpl and tget_mpl that need not wait: nobody is waiting *)
GetMpl(o, blksz) ==
    /\ o \in objs /\ blksz + ALIGN <= allsz[o]
    /\ sque[o] = <<>>
    /\ Give(o, blksz)
    /\ GivesNothing
    /\ UNCHANGED <<waiting, steady>>

(* A task waits behind others even if its request fits and, in order of    *)
(* priority, it is the first of them.                                      *)
GetMplWait(t, o, blksz, timed) ==
    /\ Ready(t) /\ o \in objs /\ blksz + ALIGN <= allsz[o]
    /\ sque[o] # <<>> \/ ~Fits(o, blksz)
    /\ Block(t, o, "MPL", blksz, timed)
    /\ owed' = IF Head(sque'[o]) = t /\ Fits(o, blksz) THEN owed \cup {o} ELSE owed
    /\ GivesNothing
    /\ UNCHANGED <<ids, objs, atr, cpri, chk, post, mplvars>>

RelMpl(o, b) ==
    /\ o \in objs /\ b \in held[o]
    /\ mem'  = [mem EXCEPT ![o] = Returned(o, b)]
    /\ held' = [held EXCEPT ![o] = @ \ {b}]
    /\ chk' = o /\ GivesNothing
    /\ UNCHANGED <<allsz, waiting, ids, objs, atr, cpri, post, owed>>

(* The first task in the queue waits for n bytes that are there. *)
Serves(o, n) == sque[o] # <<>> /\ n = par[Head(sque[o])] /\ Fits(o, n)

(* An iteration of _kernel_chkmpl: the first task gets its block. *)
ServeFirst(o) == \E n \in BlkSz :
    /\ Serves(o, n) /\ Give(o, n)
    /\ Wake({Head(sque[o])})

(* It ends the loop: nobody waits, or not for what is there. *)
ServesNobody(o) ==
    /\ \A n \in BlkSz : ~Serves(o, n)
    /\ owed' = owed \ {o}
    /\ UNCHANGED <<mplvars, waiting>>

(* In a service, rel_mpl or one that looks after a wait or a priority *)
ChkMpl(o) ==
    /\ chk = o /\ o \in objs
    /\ \/ ServeFirst(o) /\ UNCHANGED <<chk, owed>>
       \/ ServesNobody(o) /\ chk' = NONE
    /\ GivesNothing
    /\ UNCHANGED <<ids, objs, atr, cpri, post>>

(* In tget_mpl after a timeout, as a task: an undisturbed iteration *)
LookMpl(t) ==
    /\ post[t] \in objs \cap Mpl
    /\ \/ ServeFirst(post[t]) /\ UNCHANGED <<post, owed>>
       \/ ServesNobody(post[t]) /\ post' = [post EXCEPT ![t] = NONE]
    /\ GivesNothing
    /\ UNCHANGED <<ids, objs, atr, cpri, chk>>

(* The same when it goes wrong.  A call in the middle of an iteration      *)
(* changes the free list too, and one of the two changes is lost: a block  *)
(* is lost, or is free although it was given out.  Or it changes a queue   *)
(* that is being changed; or the pool was deleted, so that the address of  *)
(* its control block is null, or that which the loop has read is stale; or *)
(* a more urgent task was served, so that t runs on but is the current     *)
(* task no longer and cannot call again.                                   *)
Overtaken(t) ==
    /\ post[t] \in Mpl
    /\ overtaken' = TRUE
    /\ \/ \E b \in mem[post[t]] \cup held[post[t]] :
             mem' = [mem EXCEPT ![post[t]] = IF b \in @ THEN @ \ {b} ELSE @ \cup {b}]
       \/ UNCHANGED mem
    /\ UNCHANGED <<wvars, allsz, held>>

MplNext ==
    \/ \E o \in Mpl \cap ids :
          \/ \E a \in MplAtr, n \in MplSz :
                CreMpl(o, a, RoundUp(n)) \/ CreMpl(o, a, RoundDown(n))
          \/ DelMpl(o)
          \/ \E n \in BlkSz :
                \/ GetMpl(o, n)
                \/ \E t \in Task, timed \in BOOLEAN : GetMplWait(t, o, n, timed)
          \/ \E b \in held[o] : RelMpl(o, b)
    \/ \E t \in Task : LookMpl(t)

-----------------------------------------------------------------------------
Extent == [adr : Nat, size : Nat]

MplTypeOK ==
    /\ allsz \in [Mpl -> Nat]
    /\ mem \in [Mpl -> SUBSET Extent] /\ held \in [Mpl -> SUBSET Extent]
    /\ overtaken \in BOOLEAN

Apart(b, c) == End(b) <= c.adr \/ End(c) <= b.adr

(* As long as no look outside the kernel was overtaken, the blocks of a    *)
(* pool, free or given out, lie in it and apart, each with room for its    *)
(* header.                                                                 *)
PoolApart == overtaken \/ \A o \in Mpl :
    /\ mem[o] \cap held[o] = {}
    /\ \A b \in mem[o] \cup held[o] : 0 < b.size /\ End(b) <= allsz[o]
    /\ \A b, c \in mem[o] \cup held[o] : b # c => Apart(b, c)

(* As long as none was, nothing is lost between them, and free memory is   *)
(* not left in pieces.                                                     *)
PoolWhole == overtaken \/ \A o \in Mpl :
    /\ \A x \in 0..(allsz[o] - 1) :
          \E b \in mem[o] \cup held[o] : b.adr <= x /\ x < End(b)
    /\ \A b, c \in mem[o] : End(b) # c.adr

(* As long as none was, the first task in a queue waits for a block that   *)
(* is not there; but for the pools that one which timed out has still to   *)
(* look at, and for those that the code leaves without a look (owed): it   *)
(* was terminated before, or the task came to be the first as it arrived.  *)
NoIdleMpl == overtaken \/ \A o \in objs \cap Mpl :
    chk = NONE /\ sque[o] # <<>> /\ Fits(o, par[Head(sque[o])])
        => o \in owed \/ \E t \in Task : post[t] = o

=============================================================================
