---------------------------- MODULE ObjectsProofs ----------------------------
(***************************************************************************)
(* Proofs about the objects of Objects and the tasks that wait for them,   *)
(* for any tasks, priorities, objects, attributes and sizes: the queues    *)
(* match what the tasks wait for, whichever kinds of object there are;     *)
(* nobody waits for what is there; variable-sized pools never overlap,     *)
(* lose or leave in pieces any memory, until a look at one outside the     *)
(* kernel is overtaken; and fixed-sized pools lose no block.               *)
(*                                                                         *)
(* What the properties say of queues is said here of the tasks in them, by *)
(* their reason, object and parameters; that these are the same (Queued)   *)
(* is shown of the few things that happen to a wait: it begins (Block), it *)
(* ends (Release), or the task moves in its queue.  Every service is one   *)
(* of these, and a change to the control block of one object.              *)
(***************************************************************************)
EXTENDS DataChannel, QueueLemmas

-----------------------------------------------------------------------------
(* THE MEMORY OF THE POOLS                                                 *)

(* The two invariants of a pool of size N, with free blocks M and blocks H *)
(* that were given out, and their types: PoolApart and PoolWhole are about *)
(* each pool alone.                                                        *)
Sound(M, H, N) ==
    /\ M \in SUBSET Extent /\ H \in SUBSET Extent /\ N \in Nat
    /\ M \cap H = {}
    /\ \A b \in M \cup H : 0 < b.size /\ End(b) <= N
    /\ \A b, c \in M \cup H : b # c => Apart(b, c)

Whole(M, H, N) ==
    /\ \A x \in 0..(N - 1) : \E b \in M \cup H : b.adr <= x /\ x < End(b)
    /\ \A b, c \in M : End(b) # c.adr

(* LEMMA: a remainder lies below the divisor and is at most the number. *)
LEMMA Remainder ==
    ASSUME NEW n \in Nat, NEW a \in Nat \ {0}
    PROVE  n % a \in 0..(a - 1) /\ n % a <= n
  BY SMT

(* LEMMA: sizes are rounded to sizes, and never up to less. *)
LEMMA RoundType ==
    ASSUME NEW n \in Nat
    PROVE  /\ RoundUp(n) \in Nat /\ RoundUp(n) >= n
           /\ RoundDown(n) \in Nat
  BY Remainder, MemPoolAssumption DEF RoundUp, RoundDown

(* LEMMA: a block that is given out is not empty. *)
LEMMA NeedType ==
    ASSUME NEW n \in Nat
    PROVE  Need(n) \in Nat \ {0}
<1>1. n + ALIGN \in Nat /\ n + ALIGN > 0
  BY MemPoolAssumption
<1> QED
  BY <1>1, RoundType DEF Need

-----------------------------------------------------------------------------
(* What _kernel_getmem does to a pool. *)

(* LEMMA: the lower end of a free block, and what is left of it. *)
LEMMA SplitParts ==
    ASSUME NEW b \in Extent, NEW n \in Nat \ {0}, b.size >= n,
           NEW h, h = [adr |-> b.adr, size |-> n],
           NEW r, r = [adr |-> b.adr + n, size |-> b.size - n],
           NEW c \in Extent, c.size > 0, Apart(b, c)
    PROVE  /\ h \in Extent /\ r \in Extent /\ h # r
           /\ End(h) <= End(b) /\ End(r) = End(b) /\ End(h) = r.adr
           /\ Apart(h, c) /\ Apart(c, h) /\ h # c
           /\ Apart(r, c) /\ Apart(c, r) /\ (b.size # n => r # c)
  BY DEF Extent, End, Apart

(* LEMMA: taking a block keeps the blocks apart. *)
LEMMA TakenSound ==
    ASSUME NEW M, NEW H, NEW N, Sound(M, H, N),
           NEW b \in M, NEW n \in Nat \ {0}, b.size >= n,
           NEW h, h = [adr |-> b.adr, size |-> n],
           NEW r, r = [adr |-> b.adr + n, size |-> b.size - n]
    PROVE  Sound((M \ {b}) \cup (IF b.size = n THEN {} ELSE {r}), H \cup {h}, N)
<1> DEFINE R == IF b.size = n THEN {} ELSE {r}
           M2 == (M \ {b}) \cup R
<1>0. b \in Extent /\ b.size > 0 /\ End(b) <= N /\ b \notin H /\ N \in Nat
  BY DEF Sound
<1>1. h \in Extent /\ r \in Extent /\ h # r /\ End(h) <= N /\ End(r) <= N
      /\ h.size > 0 /\ (b.size # n => r.size > 0) /\ Apart(h, r) /\ Apart(r, h)
  BY <1>0 DEF Extent, End, Apart
<1>2. ASSUME NEW c \in (M \ {b}) \cup H
      PROVE  /\ Apart(h, c) /\ Apart(c, h) /\ h # c
             /\ Apart(r, c) /\ Apart(c, r) /\ (b.size # n => r # c)
  <2>1. c \in Extent /\ c.size > 0 /\ Apart(b, c)
    BY <1>0 DEF Sound
  <2> QED
    BY <1>0, <2>1, SplitParts
<1>3. M2 \in SUBSET Extent /\ H \cup {h} \in SUBSET Extent
  BY <1>1 DEF Sound
<1>4. M2 \cap (H \cup {h}) = {}
  BY <1>1, <1>2 DEF Sound
<1>5. ASSUME NEW c \in M2 \cup (H \cup {h})
      PROVE  0 < c.size /\ End(c) <= N
  BY <1>1 DEF Sound
<1>6. ASSUME NEW c \in M2 \cup (H \cup {h}), NEW d \in M2 \cup (H \cup {h}), c # d
      PROVE  Apart(c, d)
  <2>1. /\ c \in (M \ {b}) \cup H \/ c = h \/ (c = r /\ b.size # n)
        /\ d \in (M \ {b}) \cup H \/ d = h \/ (d = r /\ b.size # n)
    OBVIOUS
  <2>2. CASE c \in (M \ {b}) \cup H /\ d \in (M \ {b}) \cup H
    BY <1>6, <2>2 DEF Sound
  <2> QED
    BY <1>1, <1>2, <1>6, <2>1, <2>2
<1> QED
  BY <1>0, <1>3, <1>4, <1>5, <1>6 DEF Sound

(* LEMMA: taking a block loses nothing and leaves no pieces. *)
LEMMA TakenWhole ==
    ASSUME NEW M, NEW H, NEW N, Sound(M, H, N), Whole(M, H, N),
           NEW b \in M, NEW n \in Nat \ {0}, b.size >= n,
           NEW h, h = [adr |-> b.adr, size |-> n],
           NEW r, r = [adr |-> b.adr + n, size |-> b.size - n]
    PROVE  Whole((M \ {b}) \cup (IF b.size = n THEN {} ELSE {r}), H \cup {h}, N)
<1> DEFINE R == IF b.size = n THEN {} ELSE {r}
           M2 == (M \ {b}) \cup R
<1>0. b \in Extent /\ b.size > 0 /\ N \in Nat
  BY DEF Sound
<1>1. ASSUME NEW x \in 0..(N - 1)
      PROVE  \E c \in M2 \cup (H \cup {h}) : c.adr <= x /\ x < End(c)
  <2>1. PICK c \in M \cup H : c.adr <= x /\ x < End(c)
    BY DEF Whole
  <2>2. CASE c # b
    BY <2>1, <2>2
  <2>3. CASE c = b /\ x < End(h)
    BY <2>1, <2>3
  <2>4. CASE c = b /\ ~ x < End(h)
    <3>1. b.size # n /\ r.adr <= x /\ x < End(r)
      BY <1>0, <2>1, <2>4 DEF Extent, End
    <3> QED
      BY <3>1
  <2> QED
    BY <2>2, <2>3, <2>4
<1>2. ASSUME NEW c \in M2, NEW d \in M2
      PROVE  End(c) # d.adr
  <2>1. CASE c \in M /\ d \in M
    BY <2>1 DEF Whole
  <2>2. CASE c \in M \ {b} /\ d = r /\ b.size # n
    <3>1. c \in Extent /\ c.size > 0 /\ Apart(c, b)
      BY <2>2 DEF Sound
    <3> QED
      BY <1>0, <2>2, <3>1 DEF Extent, End, Apart
  <2>3. CASE c = r /\ b.size # n /\ d \in M
    <3>1. End(c) = End(b)
      BY <1>0, <2>3 DEF Extent, End
    <3> QED
      BY <2>3, <3>1 DEF Whole
  <2>4. CASE c = r /\ d = r /\ b.size # n
    BY <1>0, <2>4 DEF Extent, End
  <2> QED
    BY <2>1, <2>2, <2>3, <2>4
<1> QED
  BY <1>1, <1>2 DEF Whole

-----------------------------------------------------------------------------
(* What _kernel_relmem does to a pool. *)

(* LEMMA: one block at most ends, and one begins, at a place. *)
LEMMA OneNeighbour ==
    ASSUME NEW M, NEW H, NEW N, Sound(M, H, N),
           NEW c \in M, NEW d \in M, End(c) = End(d) \/ c.adr = d.adr
    PROVE  c = d
<1>1. c \in Extent /\ d \in Extent /\ c.size > 0 /\ d.size > 0
  BY DEF Sound
<1>2. c # d => Apart(c, d)
  BY DEF Sound
<1> QED
  BY <1>1, <1>2 DEF Extent, End, Apart

(* b becomes part of the block between from and to. *)
Joins(M, N, b, below, above, from, to) ==
    /\ below = {c \in M : End(c) = b.adr} /\ above = {c \in M : c.adr = End(b)}
    /\ from \in Nat /\ to \in Nat /\ to <= N /\ from <= b.adr /\ End(b) <= to
    /\ \A c \in below : c.adr = from
    /\ \A c \in above : End(c) = to
    /\ below = {} => from = b.adr
    /\ above = {} => to = End(b)

(* LEMMA: the block that a returned one becomes part of: from where the    *)
(* free block below begins to where the one above ends.                    *)
LEMMA JoinParts ==
    ASSUME NEW M, NEW H, NEW N, Sound(M, H, N), NEW b \in H,
           NEW below, below = {c \in M : End(c) = b.adr},
           NEW above, above = {c \in M : c.adr = End(b)},
           NEW from, from = IF below = {} THEN b.adr
                            ELSE (CHOOSE c \in below : TRUE).adr,
           NEW to, to = IF above = {} THEN End(b)
                        ELSE End(CHOOSE c \in above : TRUE)
    PROVE  Joins(M, N, b, below, above, from, to)
<1>0. b \in Extent /\ End(b) <= N /\ N \in Nat
  BY DEF Sound
<1>1. \A c \in below : c.adr = from
  BY OneNeighbour
<1>2. \A c \in above : End(c) = to
  BY OneNeighbour
<1>3. from \in Nat /\ from <= b.adr
  <2>1. CASE below = {}
    BY <1>0, <2>1 DEF Extent
  <2>2. CASE below # {}
    <3>1. PICK c \in below : c.adr = from
      BY <1>1, <2>2
    <3>2. c \in Extent /\ End(c) = b.adr
      BY <3>1 DEF Sound
    <3> QED
      BY <3>1, <3>2, <1>0 DEF Extent, End
  <2> QED
    BY <2>1, <2>2
<1>4. to \in Nat /\ End(b) <= to /\ to <= N
  <2>1. CASE above = {}
    BY <1>0, <2>1 DEF Extent, End
  <2>2. CASE above # {}
    <3>1. PICK c \in above : End(c) = to
      BY <1>2, <2>2
    <3>2. c \in Extent /\ c.adr = End(b) /\ End(c) <= N
      BY <3>1 DEF Sound
    <3> QED
      BY <3>1, <3>2, <1>0 DEF Extent, End
  <2> QED
    BY <2>1, <2>2
<1> QED
  BY <1>1, <1>2, <1>3, <1>4 DEF Joins

(* LEMMA: the joined block lies apart from what was apart from its parts.  *)
LEMMA JoinApart ==
    ASSUME NEW M, NEW H, NEW N, Sound(M, H, N), NEW b \in H,
           NEW below, NEW above, NEW from, NEW to,
           Joins(M, N, b, below, above, from, to),
           NEW j, j = [adr |-> from, size |-> to - from],
           NEW d \in (M \ (below \cup above)) \cup (H \ {b})
    PROVE  j \in Extent /\ Apart(j, d) /\ Apart(d, j) /\ j # d
<1>1. /\ b \in Extent /\ b.size > 0 /\ d \in Extent /\ d.size > 0
      /\ Apart(b, d)
  BY DEF Sound
<1>2. from \in Nat /\ to \in Nat /\ from <= b.adr /\ End(b) <= to
  BY DEF Joins
<1>3. j \in Extent /\ j.size > 0 /\ End(j) = to /\ j.adr = from
  BY <1>1, <1>2 DEF Extent, End
<1>4. End(d) <= b.adr => End(d) <= from
  <2>1. CASE below = {}
    BY <2>1 DEF Joins
  <2>2. CASE below # {}
    <3>1. PICK c \in below : c.adr = from
      BY <2>2 DEF Joins
    <3>2. c \in Extent /\ c.size > 0 /\ End(c) = b.adr /\ Apart(c, d)
      BY <3>1 DEF Joins, Sound
    <3> QED
      BY <1>1, <3>1, <3>2 DEF Extent, End, Apart
  <2> QED
    BY <2>1, <2>2
<1>5. End(b) <= d.adr => to <= d.adr
  <2>1. CASE above = {}
    BY <2>1 DEF Joins
  <2>2. CASE above # {}
    <3>1. PICK c \in above : End(c) = to
      BY <2>2 DEF Joins
    <3>2. c \in Extent /\ c.size > 0 /\ c.adr = End(b) /\ Apart(c, d)
      BY <3>1 DEF Joins, Sound
    <3> QED
      BY <1>1, <3>1, <3>2 DEF Extent, End, Apart
  <2> QED
    BY <2>1, <2>2
<1>6. Apart(j, d) /\ Apart(d, j)
  BY <1>1, <1>3, <1>4, <1>5 DEF Apart
<1>7. j # d
  BY <1>1, <1>3, <1>6 DEF Extent, End, Apart
<1> QED
  BY <1>3, <1>6, <1>7

(* LEMMA: returning a block keeps the blocks apart. *)
LEMMA ReturnedSound ==
    ASSUME NEW M, NEW H, NEW N, Sound(M, H, N), NEW b \in H,
           NEW below, NEW above, NEW from, NEW to,
           Joins(M, N, b, below, above, from, to)
    PROVE  Sound((M \ (below \cup above)) \cup {[adr |-> from, size |-> to - from]},
                 H \ {b}, N)
<1> DEFINE j == [adr |-> from, size |-> to - from]
           rest == (M \ (below \cup above)) \cup (H \ {b})
<1>0. b \in Extent /\ b.size > 0 /\ N \in Nat
  BY DEF Sound
<1>1. from \in Nat /\ to \in Nat /\ to <= N /\ from <= b.adr /\ End(b) <= to
  BY DEF Joins
<1>2. j \in Extent /\ j.size > 0 /\ End(j) <= N
  BY <1>0, <1>1 DEF Extent, End
<1>3. \A d \in rest : Apart(j, d) /\ Apart(d, j) /\ j # d
  BY JoinApart
<1>4. \A d \in rest : d \in Extent /\ 0 < d.size /\ End(d) <= N
  BY DEF Sound
<1>5. \A c, d \in rest : c # d => Apart(c, d)
  BY DEF Sound
<1>6. M \cap H = {}
  BY DEF Sound
<1> HIDE DEF j
<1> QED
  BY <1>0, <1>2, <1>3, <1>4, <1>5, <1>6 DEF Sound, j

(* LEMMA: returning a block loses nothing and joins all pieces. *)
LEMMA ReturnedWhole ==
    ASSUME NEW M, NEW H, NEW N, Sound(M, H, N), Whole(M, H, N), NEW b \in H,
           NEW below, NEW above, NEW from, NEW to,
           Joins(M, N, b, below, above, from, to)
    PROVE  Whole((M \ (below \cup above)) \cup {[adr |-> from, size |-> to - from]},
                 H \ {b}, N)
<1> DEFINE j == [adr |-> from, size |-> to - from]
           M2 == (M \ (below \cup above)) \cup {j}
<1>0. b \in Extent /\ b.size > 0 /\ N \in Nat
  BY DEF Sound
<1>1. from \in Nat /\ to \in Nat /\ from <= b.adr /\ End(b) <= to
  BY DEF Joins
<1>2. j.adr = from /\ End(j) = to
  BY <1>1 DEF End
<1> HIDE DEF j
<1>3. ASSUME NEW x \in 0..(N - 1)
      PROVE  \E c \in M2 \cup (H \ {b}) : c.adr <= x /\ x < End(c)
  <2>1. PICK c \in M \cup H : c.adr <= x /\ x < End(c)
    BY DEF Whole
  <2>2. c \in Extent
    BY DEF Sound
  <2>3. CASE c \in M2 \cup (H \ {b})
    BY <2>1, <2>3
  <2>4. CASE c = b
    BY <1>0, <1>1, <1>2, <2>1, <2>4 DEF Extent, End
  <2>5. CASE c \in below
    <3>1. c.adr = from /\ End(c) = b.adr
      BY <2>5 DEF Joins
    <3> QED
      BY <1>0, <1>1, <1>2, <2>1, <2>2, <3>1 DEF Extent, End
  <2>6. CASE c \in above
    <3>1. End(c) = to /\ c.adr = End(b)
      BY <2>6 DEF Joins
    <3> QED
      BY <1>0, <1>1, <1>2, <2>1, <2>2, <3>1 DEF Extent, End
  <2> QED
    BY <2>3, <2>4, <2>5, <2>6
<1>4. ASSUME NEW c \in M2, NEW d \in M2
      PROVE  End(c) # d.adr
  <2>1. CASE c \in M /\ d \in M
    BY <2>1 DEF Whole
  <2>2. CASE c \in M \ (below \cup above) /\ d = j
    <3>1. CASE below = {}
      BY <1>2, <2>2, <3>1 DEF Joins
    <3>2. CASE below # {}
      BY <1>2, <2>2, <3>2 DEF Joins, Whole
    <3> QED
      BY <3>1, <3>2
  <2>3. CASE c = j /\ d \in M \ (below \cup above)
    <3>1. CASE above = {}
      BY <1>2, <2>3, <3>1 DEF Joins
    <3>2. CASE above # {}
      BY <1>2, <2>3, <3>2 DEF Joins, Whole
    <3> QED
      BY <3>1, <3>2
  <2>4. CASE c = j /\ d = j
    BY <1>0, <1>1, <1>2, <2>4 DEF Extent, End
  <2> QED
    BY <2>1, <2>2, <2>3, <2>4
<1> QED
  BY <1>3, <1>4 DEF Whole, j

-----------------------------------------------------------------------------
(* The steps of the services. *)

(* The inductive invariant: what getmem and relmem do to one pool is right *)
(* only while its blocks are apart and cover it, and both are about        *)
(* numbers only while the types are right.                                 *)
PoolShape ==
    /\ allsz \in [Mpl -> Nat]
    /\ mem \in [Mpl -> SUBSET Extent] /\ held \in [Mpl -> SUBSET Extent]

PoolInv ==
    /\ PoolShape
    /\ \A o \in Mpl : /\ Sound(mem[o], held[o], allsz[o])
                      /\ Whole(mem[o], held[o], allsz[o])

(* It holds until a look at a pool outside the kernel is overtaken.        *)
PoolsKept == MplTypeOK /\ (overtaken \/ PoolInv)

(* LEMMA: it says of all pools what the properties say. *)
LEMMA PoolFacts ==
    ASSUME PoolsKept
    PROVE  PoolApart /\ PoolWhole
<1>1. CASE overtaken BY <1>1 DEF PoolApart, PoolWhole
<1>2. CASE PoolInv BY <1>2 DEF PoolInv, PoolApart, PoolWhole, Sound, Whole
<1> QED BY <1>1, <1>2 DEF PoolsKept

(* LEMMA: a change to one pool that is right for it keeps the invariant. *)
LEMMA OnePool ==
    ASSUME PoolInv, NEW o \in Mpl, NEW M, NEW H, NEW N,
           Sound(M, H, N), Whole(M, H, N),
           mem' = [mem EXCEPT ![o] = M], held' = [held EXCEPT ![o] = H],
           allsz' = [allsz EXCEPT ![o] = N]
    PROVE  PoolInv'
<1>1. PoolShape' BY DEF PoolInv, PoolShape, Sound
<1>2. \A p \in Mpl : /\ Sound(mem'[p], held'[p], allsz'[p])
                     /\ Whole(mem'[p], held'[p], allsz'[p])
  BY DEF PoolInv, PoolShape
<1> QED BY <1>1, <1>2 DEF PoolInv, Sound, Whole, Apart, End

(* LEMMA: giving a block of a pool keeps the invariant. *)
LEMMA GiveKeeps ==
    ASSUME PoolInv, NEW o \in Mpl, NEW n \in Nat, Give(o, n)
    PROVE  PoolInv'
<1>1. PICK b \in mem[o] :
          /\ FirstFit(o, Need(n), b)
          /\ mem'  = [mem EXCEPT ![o] = Taken(o, Need(n), b)]
          /\ held' = [held EXCEPT ![o] =
                         @ \cup {[adr |-> b.adr, size |-> Need(n)]}]
          /\ UNCHANGED allsz
  BY DEF Give
<1> DEFINE k == Need(n)
           h == [adr |-> b.adr, size |-> k]
           r == [adr |-> b.adr + k, size |-> b.size - k]
<1>2. k \in Nat \ {0} /\ b.size >= k
  BY <1>1, NeedType DEF FirstFit
<1>3. Sound(mem[o], held[o], allsz[o]) /\ Whole(mem[o], held[o], allsz[o])
  BY DEF PoolInv
<1>4. Taken(o, k, b) = (mem[o] \ {b}) \cup (IF b.size = k THEN {} ELSE {r})
  BY DEF Taken
<1> HIDE DEF k
<1>5. Sound(Taken(o, k, b), held[o] \cup {h}, allsz[o])
  <2>1. Sound((mem[o] \ {b}) \cup (IF b.size = k THEN {} ELSE {r}),
              held[o] \cup {h}, allsz[o])
    BY <1>2, <1>3, TakenSound
  <2> QED
    BY <1>4, <2>1, Zenon
<1>6. Whole(Taken(o, k, b), held[o] \cup {h}, allsz[o])
  <2>1. Whole((mem[o] \ {b}) \cup (IF b.size = k THEN {} ELSE {r}),
              held[o] \cup {h}, allsz[o])
    BY <1>2, <1>3, TakenWhole
  <2> QED
    BY <1>4, <2>1, Zenon
<1>7. /\ mem' = [mem EXCEPT ![o] = Taken(o, k, b)]
      /\ held' = [held EXCEPT ![o] = held[o] \cup {h}]
      /\ allsz' = [allsz EXCEPT ![o] = allsz[o]]
  BY <1>1 DEF k, PoolInv, PoolShape
<1> QED
  BY <1>5, <1>6, <1>7, OnePool

(* LEMMA: a new pool is one free block. *)
LEMMA CreMplKeeps ==
    ASSUME PoolInv, NEW o \in Mpl, NEW a, NEW sz \in Nat, CreMpl(o, a, sz)
    PROVE  PoolInv'
<1> DEFINE b == [adr |-> 0, size |-> sz]
<1>1. b \in Extent /\ End(b) = sz /\ sz > 0 /\ b.size = sz /\ b.adr = 0
  BY DEF CreMpl, Extent, End
<1>2. Sound({b}, {}, sz)
  BY <1>1 DEF Sound
<1>3. Whole({b}, {}, sz)
  BY <1>1 DEF Whole
<1> QED
  BY <1>2, <1>3, OnePool DEF CreMpl

(* LEMMA: a deleted pool has no memory. *)
LEMMA DelMplKeeps ==
    ASSUME PoolInv, NEW o \in Mpl, DelMpl(o)
    PROVE  PoolInv'
<1>1. Sound({}, {}, 0) /\ Whole({}, {}, 0)
  BY DEF Sound, Whole
<1> QED
  BY <1>1, OnePool DEF DelMpl

(* LEMMA: returning a block keeps the invariant. *)
LEMMA RelMplKeeps ==
    ASSUME PoolInv, NEW o \in Mpl, NEW b \in held[o], RelMpl(o, b)
    PROVE  PoolInv'
<1> DEFINE below == {c \in mem[o] : End(c) = b.adr}
           above == {c \in mem[o] : c.adr = End(b)}
           from  == IF below = {} THEN b.adr
                    ELSE (CHOOSE c \in below : TRUE).adr
           to    == IF above = {} THEN End(b)
                    ELSE End(CHOOSE c \in above : TRUE)
<1>1. Sound(mem[o], held[o], allsz[o]) /\ Whole(mem[o], held[o], allsz[o])
  BY DEF PoolInv
<1>2. Joins(mem[o], allsz[o], b, below, above, from, to)
  BY <1>1, JoinParts
<1>3. Returned(o, b) = (mem[o] \ (below \cup above))
                          \cup {[adr |-> from, size |-> to - from]}
  BY DEF Returned
<1> HIDE DEF below, above, from, to
<1>4. Sound(Returned(o, b), held[o] \ {b}, allsz[o])
  BY <1>1, <1>2, <1>3, ReturnedSound
<1>5. Whole(Returned(o, b), held[o] \ {b}, allsz[o])
  BY <1>1, <1>2, <1>3, ReturnedWhole
<1>6. /\ mem' = [mem EXCEPT ![o] = Returned(o, b)]
      /\ held' = [held EXCEPT ![o] = held[o] \ {b}]
      /\ allsz' = [allsz EXCEPT ![o] = allsz[o]]
  BY DEF RelMpl, PoolInv, PoolShape
<1> QED
  BY <1>4, <1>5, <1>6, OnePool

(* LEMMA: a service that leaves the pools alone keeps it. *)
LEMMA PoolsUntouched ==
    ASSUME PoolInv, UNCHANGED mplvars
    PROVE  PoolInv'
BY DEF PoolInv, PoolShape, Sound, Whole, mplvars, Apart, End

(* LEMMA: so does an iteration of _kernel_chkmpl that is not disturbed. *)
LEMMA LooksKeep ==
    ASSUME PoolInv, NEW o \in Mpl, ServeFirst(o) \/ ServesNobody(o)
    PROVE  PoolInv'
<1>1. CASE \E n \in BlkSz : Give(o, n)
  BY <1>1, GiveKeeps, MemPoolAssumption
<1>2. CASE UNCHANGED mplvars
  BY <1>2, PoolsUntouched
<1> QED
  BY <1>1, <1>2 DEF ServeFirst, ServesNobody

(* LEMMA: every service of the pools keeps it. *)
LEMMA MplNextKeeps ==
    ASSUME PoolInv, MplNext
    PROVE  PoolInv'
<1>1. CASE \E o \in Mpl \cap ids, a \in MplAtr, n \in MplSz :
              CreMpl(o, a, RoundUp(n)) \/ CreMpl(o, a, RoundDown(n))
  <2>1. PICK o \in Mpl, a \in MplAtr, n \in MplSz :
              CreMpl(o, a, RoundUp(n)) \/ CreMpl(o, a, RoundDown(n))
    BY <1>1
  <2>2. RoundUp(n) \in Nat /\ RoundDown(n) \in Nat
    BY RoundType, MemPoolAssumption
  <2> QED
    BY <2>1, <2>2, CreMplKeeps
<1>2. CASE \E o \in Mpl \cap ids : DelMpl(o)
  BY <1>2, DelMplKeeps
<1>3. CASE \E o \in Mpl \cap ids, n \in BlkSz : GetMpl(o, n)
  <2>1. PICK o \in Mpl, n \in BlkSz : Give(o, n)
    BY <1>3 DEF GetMpl
  <2> QED
    BY <2>1, GiveKeeps, MemPoolAssumption
<1>4. CASE \E o \in Mpl \cap ids, n \in BlkSz, t \in Task, timed \in BOOLEAN :
              GetMplWait(t, o, n, timed)
  BY <1>4, PoolsUntouched DEF GetMplWait
<1>5. CASE \E o \in Mpl \cap ids : \E b \in held[o] : RelMpl(o, b)
  BY <1>5, RelMplKeeps
<1>6. CASE \E t \in Task : LookMpl(t)
  <2>1. PICK o \in Mpl : ServeFirst(o) \/ ServesNobody(o)
    BY <1>6 DEF LookMpl
  <2> QED
    BY <2>1, LooksKeep
<1> QED
  BY <1>1, <1>2, <1>3, <1>4, <1>5, <1>6 DEF MplNext

(* LEMMA: at first there is no memory. *)
LEMMA PoolInit ==
    ASSUME Init
    PROVE  PoolsKept
<1>1. PoolShape /\ overtaken = FALSE /\ \A o \in Mpl : mem[o] = {} /\ held[o] = {} /\ allsz[o] = 0
  BY DEF Init, MplInit, PoolShape
<1>2. Sound({}, {}, 0) /\ Whole({}, {}, 0)
  BY DEF Sound, Whole
<1> QED
  BY <1>1, <1>2 DEF PoolsKept, PoolInv, PoolShape, MplTypeOK

(* What a step that is no service leaves as it is: a look that is          *)
(* overtaken changes nothing but pools.                                    *)
apart == <<wvars, semcnt, flgptn, dtqvars, mbxvars, mbfvars, mpfvars>>

(* LEMMA: the steps there are. *)
LEMMA StepCases ==
    ASSUME [Next]_vars
    PROVE  /\ UNCHANGED apart \/ Service \/ Serving
           /\ UNCHANGED vars \/ (overtaken' /\ UNCHANGED apart)
                \/ (~overtaken /\ ~overtaken' /\ (Service \/ Serving))
BY DEF Next, Overtaken, vars, apart

(* LEMMA: every service keeps the invariant. *)
LEMMA PoolServed ==
    ASSUME PoolInv, Service \/ Serving
    PROVE  PoolInv'
<1>2. CASE Service
  <2>1. CASE MplNext
    BY <2>1, MplNextKeeps
  <2>2. CASE UNCHANGED mplvars
    BY <2>2, PoolsUntouched
  <2> QED
    BY <1>2, <2>1, <2>2 DEF Service
<1>3. CASE Serving
  <2>1. CASE \E o \in Mpl : ServeFirst(o) \/ ServesNobody(o)
    BY <2>1, LooksKeep
  <2>2. CASE UNCHANGED mplvars
    BY <2>2, PoolsUntouched
  <2> QED
    BY <1>3, <2>1, <2>2 DEF Serving, ChkMpl
<1> QED
  BY <1>2, <1>3

(* LEMMA: so does every step but one that overtakes a look, which leaves   *)
(* at least blocks.                                                        *)
LEMMA PoolStep ==
    ASSUME PoolsKept, [Next]_vars
    PROVE  PoolsKept'
<1>1. CASE UNCHANGED vars
  <2>1. UNCHANGED mplvars /\ UNCHANGED overtaken BY <1>1 DEF vars
  <2>2. PoolInv => PoolInv' BY <2>1, PoolsUntouched
  <2> QED BY <2>1, <2>2 DEF PoolsKept, MplTypeOK, mplvars
<1>2. CASE ~overtaken /\ (Service \/ Serving) /\ UNCHANGED overtaken
  <2>1. PoolInv' BY <1>2, PoolServed DEF PoolsKept
  <2> QED BY <1>2, <2>1 DEF PoolsKept, PoolInv, PoolShape, MplTypeOK
<1>3. ASSUME NEW t \in Task, Overtaken(t) PROVE PoolsKept'
  <2>1. post[t] \in Mpl /\ overtaken' /\ UNCHANGED <<allsz, held>> BY <1>3 DEF Overtaken
  <2>2. mem[post[t]] \in SUBSET Extent /\ held[post[t]] \in SUBSET Extent
    BY <2>1 DEF PoolsKept, MplTypeOK
  <2>3. mem' \in [Mpl -> SUBSET Extent]
    <3>1. CASE UNCHANGED mem BY <3>1 DEF PoolsKept, MplTypeOK
    <3>2. CASE ~UNCHANGED mem
      <4>1. PICK b \in mem[post[t]] \cup held[post[t]] :
               mem' = [mem EXCEPT ![post[t]] = IF b \in @ THEN @ \ {b} ELSE @ \cup {b}]
        BY <1>3, <3>2 DEF Overtaken
      <4>2. b \in Extent BY <2>2
      <4>3. \A M \in SUBSET Extent :
               (IF b \in M THEN M \ {b} ELSE M \cup {b}) \in SUBSET Extent
        BY <4>2
      <4> QED BY <2>1, <4>1, <4>3 DEF PoolsKept, MplTypeOK
    <3> QED BY <3>1, <3>2
  <2>4. overtaken' = TRUE BY <1>3 DEF Overtaken
  <2> QED BY <2>1, <2>3, <2>4 DEF PoolsKept, MplTypeOK
<1> QED
  BY <1>1, <1>2, <1>3 DEF Next

(* THEOREM: until a look at a pool outside the kernel is overtaken, in     *)
(* every pool the blocks, free or given out, lie apart and in it, over any *)
(* sequence of creating, taking, waiting, returning, timing out, looking   *)
(* late and deleting (uC3krncm1.c, uC3getmpl.c, uC3relmpl.c).              *)
THEOREM PoolsStayApart == Spec => []PoolApart
<1>1. PoolsKept /\ [Next]_vars => PoolsKept'
  BY PoolStep
<1>2. PoolsKept => PoolApart
  BY PoolFacts
<1> QED
  BY PoolInit, <1>1, <1>2, PTL DEF Spec

(* THEOREM: until then they cover the pool, and no two free blocks lie     *)
(* side by side: no memory is lost to the headers, the rounding or the     *)
(* order of returns, nor to other services between the iterations of a     *)
(* late look (uC3getmpl.c, tget_mpl).                                      *)
THEOREM PoolsStayWhole == Spec => []PoolWhole
<1>1. PoolsKept /\ [Next]_vars => PoolsKept'
  BY PoolStep
<1>2. PoolsKept => PoolWhole
  BY PoolFacts
<1> QED
  BY PoolInit, <1>1, <1>2, PTL DEF Spec

-----------------------------------------------------------------------------
(* The blocks of fixed-sized pools. *)

(* A pool with n blocks of which those of f are free and those of l lent. *)
Kept(f, c, l, n) ==
    /\ c = Len(f)
    /\ Members(f) \cup l = 1..n /\ Members(f) \cap l = {}
    /\ \A i, j \in 1..Len(f) : f[i] = f[j] => i = j

(* The inductive invariant. *)
BlocksInv == MpfTypeOK /\ BlocksKept

(* LEMMA: it says the same of each pool alone. *)
LEMMA BlocksByPool ==
    BlocksInv <=> /\ MpfTypeOK
                  /\ \A o \in objs \cap Mpf :
                        Kept(free[o], blkcnt[o], lent[o], BlkCnt[o])
BY DEF BlocksInv, BlocksKept, Kept

(* LEMMA: a change to one pool that is right for it keeps the invariant. *)
LEMMA OneMpf ==
    ASSUME BlocksInv, NEW o \in Mpf, NEW f \in Seq(Nat), NEW c \in Nat,
           NEW l \in SUBSET Nat, Kept(f, c, l, BlkCnt[o]),
           free' = [free EXCEPT ![o] = f], blkcnt' = [blkcnt EXCEPT ![o] = c],
           lent' = [lent EXCEPT ![o] = l], objs' \subseteq objs \cup {o}
    PROVE  BlocksInv'
<1>1. MpfTypeOK /\ \A p \in objs \cap Mpf :
                      Kept(free[p], blkcnt[p], lent[p], BlkCnt[p])
  BY BlocksByPool
<1>2. MpfTypeOK'
  BY <1>1 DEF MpfTypeOK
<1>3. \A p \in objs' \cap Mpf :
         Kept(free'[p], blkcnt'[p], lent'[p], BlkCnt[p])
  BY <1>1 DEF MpfTypeOK
<1> QED
  BY <1>2, <1>3 DEF BlocksInv, BlocksKept, Kept

(* LEMMA: taking the first block of the list. *)
LEMMA TailKept ==
    ASSUME NEW f \in Seq(Nat), f # <<>>, NEW c \in Nat, NEW l, NEW n,
           Kept(f, c, l, n)
    PROVE  /\ Tail(f) \in Seq(Nat) /\ c - 1 \in Nat /\ Head(f) \in Nat
           /\ Kept(Tail(f), c - 1, l \cup {Head(f)}, n)
<1>1. /\ Tail(f) \in Seq(Nat) /\ Len(Tail(f)) = Len(f) - 1 /\ Len(f) \in Nat
      /\ Head(f) = f[1] /\ Head(f) \in Nat /\ Len(f) > 0
      /\ \A i \in 1..Len(Tail(f)) : Tail(f)[i] = f[i + 1]
  BY HeadTailProperties, EmptySeq, LenProperties
<1>2. Members(f) = Members(Tail(f)) \cup {Head(f)}
  <2>1. ASSUME NEW x \in Members(f), x # Head(f)
        PROVE  x \in Members(Tail(f))
    <3>1. PICK i \in 1..Len(f) : x = f[i]
      BY DEF Members
    <3>2. i # 1 /\ i - 1 \in 1..Len(Tail(f)) /\ Tail(f)[i - 1] = x
      BY <1>1, <2>1, <3>1
    <3> QED
      BY <3>2 DEF Members
  <2>2. ASSUME NEW x \in Members(Tail(f))
        PROVE  x \in Members(f)
    <3>1. PICK i \in 1..Len(Tail(f)) : x = Tail(f)[i]
      BY DEF Members
    <3>2. i + 1 \in 1..Len(f) /\ f[i + 1] = x
      BY <1>1, <3>1
    <3> QED
      BY <3>2 DEF Members
  <2>3. Head(f) \in Members(f)
    BY <1>1 DEF Members
  <2> QED
    BY <2>1, <2>2, <2>3
<1>3. Head(f) \notin Members(Tail(f))
  <2> SUFFICES ASSUME NEW i \in 1..Len(Tail(f)), Tail(f)[i] = Head(f)
               PROVE  FALSE
    BY DEF Members
  <2>1. i + 1 \in 1..Len(f) /\ f[i + 1] = f[1] /\ 1 \in 1..Len(f)
    BY <1>1
  <2>2. i + 1 = 1
    BY <2>1 DEF Kept
  <2> QED
    BY <2>2
<1>4. ASSUME NEW i \in 1..Len(Tail(f)), NEW j \in 1..Len(Tail(f)),
             Tail(f)[i] = Tail(f)[j]
      PROVE  i = j
  <2>1. i + 1 \in 1..Len(f) /\ j + 1 \in 1..Len(f) /\ f[i + 1] = f[j + 1]
    BY <1>1, <1>4
  <2>2. i + 1 = j + 1
    BY <2>1 DEF Kept
  <2> QED
    BY <2>2
<1>5. c = Len(f) /\ Members(f) \cup l = 1..n /\ Members(f) \cap l = {}
  BY DEF Kept
<1> QED
  BY <1>1, <1>2, <1>3, <1>4, <1>5 DEF Kept

(* LEMMA: a block that was lent is linked in front of the list. *)
LEMMA ConsKept ==
    ASSUME NEW f \in Seq(Nat), NEW c \in Nat, NEW l, NEW n,
           Kept(f, c, l, n), NEW b \in l, b \in Nat
    PROVE  /\ <<b>> \o f \in Seq(Nat)
           /\ Kept(<<b>> \o f, c + 1, l \ {b}, n)
<1> DEFINE g == <<b>> \o f
<1>1. /\ g \in Seq(Nat) /\ Len(g) = Len(f) + 1 /\ Len(f) \in Nat
      /\ g[1] = b /\ \A i \in 1..Len(f) : g[i + 1] = f[i]
      /\ \A i \in 2..Len(g) : g[i] = f[i - 1] /\ i - 1 \in 1..Len(f)
  OBVIOUS
<1> HIDE DEF g
<1>2. Members(g) = Members(f) \cup {b}
  <2>1. ASSUME NEW x \in Members(g), x # b
        PROVE  x \in Members(f)
    <3>1. PICK i \in 1..Len(g) : x = g[i]
      BY DEF Members
    <3>2. i \in 2..Len(g)
      BY <1>1, <2>1, <3>1
    <3> QED
      BY <1>1, <3>1, <3>2 DEF Members
  <2>2. ASSUME NEW x \in Members(f)
        PROVE  x \in Members(g)
    <3>1. PICK i \in 1..Len(f) : x = f[i]
      BY DEF Members
    <3>2. i + 1 \in 1..Len(g) /\ g[i + 1] = x
      BY <1>1, <3>1
    <3> QED
      BY <3>2 DEF Members
  <2>3. b \in Members(g)
    BY <1>1 DEF Members
  <2> QED
    BY <2>1, <2>2, <2>3
<1>3. b \notin Members(f) /\ \A i \in 2..Len(g) : g[i] # b
  BY <1>1 DEF Kept, Members
<1>4. ASSUME NEW i \in 1..Len(g), NEW j \in 1..Len(g), g[i] = g[j]
      PROVE  i = j
  <2>1. CASE i = 1 /\ j = 1
    BY <2>1
  <2>2. CASE i = 1 /\ j # 1
    BY <1>1, <1>3, <1>4, <2>2
  <2>3. CASE i # 1 /\ j = 1
    BY <1>1, <1>3, <1>4, <2>3
  <2>4. CASE i # 1 /\ j # 1
    <3>1. f[i - 1] = f[j - 1] /\ i - 1 \in 1..Len(f) /\ j - 1 \in 1..Len(f)
      BY <1>1, <1>4, <2>4
    <3>2. i - 1 = j - 1
      BY <3>1 DEF Kept
    <3> QED
      BY <3>2
  <2> QED
    BY <2>1, <2>2, <2>3, <2>4
<1>5. c = Len(f) /\ Members(f) \cup l = 1..n /\ Members(f) \cap l = {}
  BY DEF Kept
<1>6. Kept(g, c + 1, l \ {b}, n)
  BY <1>1, <1>2, <1>3, <1>4, <1>5 DEF Kept
<1> QED
  BY <1>1, <1>6 DEF g

(* LEMMA: a service that creates no pool and changes none keeps the        *)
(* invariant.                                                              *)
LEMMA MpfUntouched ==
    ASSUME BlocksInv, UNCHANGED mpfvars, objs' \cap Mpf \subseteq objs
    PROVE  BlocksInv'
<1>1. UNCHANGED <<free, blkcnt, lent>>
  BY DEF mpfvars
<1>2. MpfTypeOK'
  BY <1>1 DEF BlocksInv, MpfTypeOK
<1>3. \A o \in objs' \cap Mpf : Kept(free'[o], blkcnt'[o], lent'[o], BlkCnt[o])
  BY <1>1, BlocksByPool
<1> QED
  BY <1>2, <1>3 DEF BlocksInv, BlocksKept, Kept, Members

(* LEMMA: every service of the pools keeps it. *)
LEMMA MpfNextKeeps ==
    ASSUME BlocksInv, MpfNext
    PROVE  BlocksInv'
<1> PICK o \in Mpf \cap ids :
       \/ \E a \in MpfAtr : CreMpf(o, a)
       \/ DelMpf(o) \/ GetMpf(o)
       \/ \E b \in lent[o] : RelMpf(o, b)
       \/ \E t \in Task, timed \in BOOLEAN : GetMpfWait(t, o, timed)
  BY DEF MpfNext
<1>0. /\ free \in [Mpf -> Seq(Nat)] /\ blkcnt \in [Mpf -> Nat]
      /\ lent \in [Mpf -> SUBSET Nat]
      /\ o \in objs => Kept(free[o], blkcnt[o], lent[o], BlkCnt[o])
  BY BlocksByPool DEF MpfTypeOK
<1>1. ASSUME NEW a \in MpfAtr, CreMpf(o, a)
      PROVE  BlocksInv'
  <2> DEFINE f == [i \in 1..BlkCnt[o] |-> i]
  <2>1. BlkCnt[o] \in Nat
    BY FixedPoolAssumption
  <2>2. f \in Seq(Nat) /\ Len(f) = BlkCnt[o]
    BY <2>1
  <2>3. Members(f) = 1..BlkCnt[o]
    BY <2>1, <2>2 DEF Members
  <2>4. Kept(f, BlkCnt[o], {}, BlkCnt[o])
    BY <2>1, <2>2, <2>3 DEF Kept
  <2> HIDE DEF f
  <2> QED
    BY <1>1, <2>1, <2>2, <2>4, OneMpf DEF CreMpf, Create, f
<1>2. CASE DelMpf(o)
  <2>1. MpfTypeOK'
    BY <1>0, <1>2 DEF DelMpf, MpfTypeOK
  <2>2. \A p \in objs' \cap Mpf :
           /\ p \in objs /\ free'[p] = free[p] /\ blkcnt'[p] = blkcnt[p]
           /\ lent'[p] = lent[p]
    BY <1>0, <1>2 DEF DelMpf, Delete
  <2> QED
    BY <2>1, <2>2 DEF BlocksInv, BlocksKept, Members
<1>3. CASE GetMpf(o)
  <2>1. o \in objs /\ free[o] # <<>> /\ objs' = objs
        /\ free' = [free EXCEPT ![o] = Tail(free[o])]
        /\ blkcnt' = [blkcnt EXCEPT ![o] = blkcnt[o] - 1]
        /\ lent' = [lent EXCEPT ![o] = lent[o] \cup {Head(free[o])}]
    BY <1>3 DEF GetMpf, steady
  <2>2. /\ Tail(free[o]) \in Seq(Nat) /\ blkcnt[o] - 1 \in Nat
        /\ Head(free[o]) \in Nat
        /\ Kept(Tail(free[o]), blkcnt[o] - 1, lent[o] \cup {Head(free[o])},
                BlkCnt[o])
    BY <1>0, <2>1, TailKept
  <2>3. lent[o] \cup {Head(free[o])} \in SUBSET Nat
    BY <1>0, <2>2
  <2> QED
    BY <2>1, <2>2, <2>3, OneMpf
<1>4. ASSUME NEW b \in lent[o], RelMpf(o, b)
      PROVE  BlocksInv'
  <2>1. CASE UNCHANGED mpfvars
    BY <1>4, <2>1, MpfUntouched DEF RelMpf, steady
  <2>2. CASE /\ free' = [free EXCEPT ![o] = <<b>> \o @]
             /\ blkcnt' = [blkcnt EXCEPT ![o] = @ + 1]
             /\ lent' = [lent EXCEPT ![o] = @ \ {b}]
    <3>1. o \in objs /\ objs' = objs /\ b \in Nat
      BY <1>0, <1>4 DEF RelMpf, steady
    <3>2. /\ <<b>> \o free[o] \in Seq(Nat)
          /\ Kept(<<b>> \o free[o], blkcnt[o] + 1, lent[o] \ {b}, BlkCnt[o])
      BY <1>0, <3>1, ConsKept
    <3>3. blkcnt[o] + 1 \in Nat /\ lent[o] \ {b} \in SUBSET Nat
      BY <1>0
    <3> QED
      BY <2>2, <3>1, <3>2, <3>3, OneMpf
  <2> QED
    BY <1>4, <2>1, <2>2 DEF RelMpf
<1>5. CASE \E t \in Task, timed \in BOOLEAN : GetMpfWait(t, o, timed)
  BY <1>5, MpfUntouched DEF GetMpfWait, steady
<1> QED
  BY <1>1, <1>2, <1>3, <1>4, <1>5

(* LEMMA: the other objects are none of these pools. *)
LEMMA OthersApart ==
    /\ Flg \cap Mpf = {} /\ Dtq \cap Mpf = {} /\ Mbx \cap Mpf = {}
    /\ Mbf \cap Mpf = {} /\ Por \cap Mpf = {} /\ Mpl \cap Mpf = {}
    /\ Sem \cap Mpf = {}
<1>1. /\ Kind[1] = Flg /\ Kind[2] = Dtq /\ Kind[3] = Mbx /\ Kind[4] = Mbf
      /\ Kind[5] = Por /\ Kind[6] = Mpf /\ Kind[7] = Mpl
      /\ Kind[8] = Sem
  BY DEF Kind
<1>2. \A i \in {1, 2, 3, 4, 5, 7, 8} : Kind[i] \cap Kind[6] = {}
  BY ObjectsAssumption
<1> QED
  BY <1>1, <1>2

(* LEMMA: a step of another kind of object creates none of these pools. *)
LEMMA OthersCreateNone ==
    ASSUME TaskNext \/ SemNext \/ FlgNext \/ DtqNext \/ MbxNext \/ MbfNext
             \/ PorNext \/ MplNext \/ Serving
    PROVE  objs' \cap Mpf \subseteq objs
<1>1. CASE TaskNext
  BY <1>1 DEF TaskNext, TimeOut, RelWai, TerTsk, ChgPri
<1>2. CASE FlgNext
  BY <1>2, OthersApart DEF FlgNext, CreFlg, DelFlg, SetFlg, ClrFlg, WaiFlg,
     WaiFlgWait, Create, Delete, steady
<1>3. CASE DtqNext
  BY <1>3, OthersApart DEF DtqNext, CreDtq, DelDtq, SndDtq, SndDtqWait,
     RcvDtq, RcvDtqWait, Create, Delete, steady
<1>4. CASE MbxNext
  BY <1>4, OthersApart DEF MbxNext, CreMbx, DelMbx, SndMbx, RcvMbx,
     RcvMbxWait, Create, Delete, steady
<1>5. CASE MbfNext
  BY <1>5, OthersApart DEF MbfNext, CreMbf, DelMbf, SndMbf, SndMbfWait,
     RcvMbf, RcvMbfWait, Create, Delete, steady
<1>6. CASE PorNext
  <2>1. ASSUME NEW o, NEW c, NEW ptn, NEW n, NEW timed,
               \/ CalPor(c, o, ptn, timed) \/ CalPorWait(c, o, ptn, n, timed)
               \/ AcpPor(o, ptn) \/ AcpPorWait(c, o, ptn, timed)
               \/ FwdPor(c, o, ptn, n) \/ FwdPorWait(c, o, ptn, n)
               \/ RplRdv(c, n)
        PROVE  objs' = objs
    <3>1. CASE CalPor(c, o, ptn, timed)
      BY <3>1 DEF CalPor, steady
    <3>2. CASE CalPorWait(c, o, ptn, n, timed)
      BY <3>2 DEF CalPorWait, steady
    <3>3. CASE AcpPor(o, ptn)
      BY <3>3 DEF AcpPor, steady
    <3>4. CASE AcpPorWait(c, o, ptn, timed)
      BY <3>4 DEF AcpPorWait, steady
    <3>5. CASE FwdPor(c, o, ptn, n)
      BY <3>5 DEF FwdPor, steady
    <3>6. CASE FwdPorWait(c, o, ptn, n)
      BY <3>6 DEF FwdPorWait, steady
    <3>7. CASE RplRdv(c, n)
      BY <3>7 DEF RplRdv, steady
    <3> QED
      BY <2>1, <3>1, <3>2, <3>3, <3>4, <3>5, <3>6, <3>7
  <2>2. ASSUME NEW o \in Por, (\E a : CrePor(o, a)) \/ DelPor(o)
        PROVE  objs' \cap Mpf \subseteq objs
    BY <2>2, OthersApart DEF CrePor, DelPor, Create, Delete
  <2> QED
    BY <1>6, <2>1, <2>2 DEF PorNext
<1>7. CASE MplNext
  <2>1. ASSUME NEW o \in Mpl, (\E a, n : CreMpl(o, a, n)) \/ DelMpl(o)
        PROVE  objs' \cap Mpf \subseteq objs
    BY <2>1, OthersApart DEF CreMpl, DelMpl, Create, Delete
  <2>2. ASSUME NEW o, NEW t, NEW n, NEW timed,
               \/ GetMpl(o, n) \/ GetMplWait(t, o, n, timed) \/ RelMpl(o, n) \/ LookMpl(t)
        PROVE  objs' = objs
    BY <2>2 DEF GetMpl, GetMplWait, RelMpl, LookMpl, steady
  <2> QED
    BY <1>7, <2>1, <2>2 DEF MplNext
<1>8. CASE Serving
  BY <1>8 DEF Serving, ChkMpl, ChkMbf
<1>9. CASE SemNext
  BY <1>9, OthersApart DEF SemNext, CreSem, DelSem, WaiSem, WaiSemWait,
     SigSem, Create, Delete, steady
<1> QED
  BY <1>1, <1>2, <1>3, <1>4, <1>5, <1>6, <1>7, <1>8, <1>9

(* LEMMA: at first there is no pool. *)
LEMMA BlocksInit ==
    ASSUME Init
    PROVE  BlocksInv
BY DEF Init, WInit, MpfInit, BlocksInv, MpfTypeOK, BlocksKept

(* LEMMA: every step keeps the invariant. *)
LEMMA BlocksStep ==
    ASSUME BlocksInv, [Next]_vars
    PROVE  BlocksInv'
<1>1. CASE UNCHANGED apart
  BY <1>1, MpfUntouched DEF apart, wvars, steady
<1>2. CASE Service
  <2>1. CASE MpfNext
    BY <2>1, MpfNextKeeps
  <2>2. CASE /\ UNCHANGED mpfvars
             /\ TaskNext \/ SemNext \/ FlgNext \/ DtqNext \/ MbxNext
                  \/ MbfNext \/ PorNext \/ MplNext
    BY <2>2, MpfUntouched, OthersCreateNone
  <2> QED
    BY <1>2, <2>1, <2>2 DEF Service
<1>3. CASE Serving
  <2>1. UNCHANGED mpfvars
    BY <1>3 DEF Serving
  <2> QED
    BY <1>3, <2>1, MpfUntouched, OthersCreateNone
<1> QED
  BY <1>1, <1>2, <1>3, StepCases

(* THEOREM: every block of a fixed-sized pool stays in its free list once  *)
(* or lent once, whatever is taken, handed over, timed out, returned or    *)
(* deleted (uC3getmpf.c, uC3relmpf.c).                                     *)
THEOREM BlocksStayKept == Spec => []BlocksKept
<1>1. BlocksInv /\ [Next]_vars => BlocksInv'
  BY BlocksStep
<1>2. BlocksInv => BlocksKept
  BY DEF BlocksInv
<1> QED
  BY BlocksInit, <1>1, <1>2, PTL DEF Spec

-----------------------------------------------------------------------------
(* THE TASKS THAT WAIT                                                     *)

(* The queue that a task is in, by the reason of its wait. *)
InQue(t, o)  == wsts[t] \in QueWaits /\ wobj[t] = o
InSque(t, o) == wsts[t] \in SqueWaits /\ wobj[t] = o
InQueue(t)   == wsts[t] \in QueWaits \cup SqueWaits

Queued == \A o \in Obj :
    /\ Once(que[o])  /\ \A t \in Task : t \in ToSet(que[o]) <=> InQue(t, o)
    /\ Once(sque[o]) /\ \A t \in Task : t \in ToSet(sque[o]) <=> InSque(t, o)
    /\ "TPRI" \in atr[o] => Ordered(sque[o], cpri)

Flagged == \A t \in Task :
    /\ wsts[t] = NONE => msts[t] = {"RDY"}
    /\ wsts[t] # NONE => "WAI" \in msts[t] /\ "RDY" \notin msts[t]
    /\ t \in timq <=> "TMR" \in msts[t]
    /\ InQueue(t) => wobj[t] \in objs \cap Obj
    /\ wsts[t] \in QueWaits => "FIFO" \in msts[t]
    /\ wsts[t] \in SqueWaits => ("FIFO" \in msts[t] <=> "TPRI" \notin atr[wobj[t]])

Steady ==
    /\ ids \in Configs /\ objs \in SUBSET ids /\ atr \in [Obj -> SUBSET ATTR]
    /\ cpri \in [Task -> 1..MaxPri]
    /\ chk \in Obj \cup {NONE} /\ post \in [Task -> Obj \cup {NONE}]
    /\ owed \in SUBSET Obj

Typed ==
    /\ que \in [Obj -> Seq(Task)] /\ sque \in [Obj -> Seq(Task)]
    /\ msts \in [Task -> SUBSET {"RDY", "WAI", "FIFO", "TMR"}]
    /\ wsts \in [Task -> QueWaits \cup SqueWaits \cup {"RDV", NONE}]
    /\ wobj \in [Task -> Obj \cup {NONE}]
    /\ timq \in SUBSET Task /\ DOMAIN par = Task

Linked == Typed /\ Queued /\ Flagged

(* What a task waits for is of the kind that its reason names, and its     *)
(* parameters are what that kind expects.                                  *)
Asks(t) ==
    /\ wsts[t] = "SEM"  => wobj[t] \in Sem
    /\ wsts[t] = "FLG"  => wobj[t] \in Flg /\ par[t] \in Wish
    /\ wsts[t] = "RDTQ" => wobj[t] \in Dtq
    /\ wsts[t] = "SDTQ" => wobj[t] \in Dtq /\ par[t] \in Data
    /\ wsts[t] = "MBX"  => wobj[t] \in Mbx
    /\ wsts[t] = "RMBF" => wobj[t] \in Mbf
    /\ wsts[t] = "SMBF" => /\ wobj[t] \in Mbf /\ par[t] \in Mail
                           /\ MailSz[par[t]] <= MaxMsz[wobj[t]]
    /\ wsts[t] = "ACP"  => wobj[t] \in Por /\ par[t] \in [ptn : Patterns]
    /\ wsts[t] = "CAL"  => /\ wobj[t] \in Por
                           /\ par[t] \in [ptn : Patterns, p4 : Nat, p5 : Nat]
                           /\ MaxRmsz[wobj[t]] <= par[t].p5
    /\ wsts[t] = "RDV"  => /\ par[t] \in [ptn : {{}}, p4 : Nat, p5 : Nat]
                           /\ par[t].p4 <= par[t].p5
    /\ wsts[t] = "MPF"  => wobj[t] \in Mpf
    /\ wsts[t] = "MPL"  => wobj[t] \in Mpl /\ par[t] \in BlkSz

Asking == \A t \in Task : Asks(t)

(* A step leaves a wait as it is; or it ends waits, begins such for the    *)
(* reasons of W as they are asked for, of tasks that wait already or are   *)
(* not in a call, and changes no attributes.                               *)
Stays(t)  == wsts'[t] = wsts[t] /\ wobj'[t] = wobj[t] /\ par'[t] = par[t]
Begins(W) == /\ \A t \in Task : \/ Stays(t) \/ wsts'[t] = NONE
                                 \/ /\ wsts'[t] \in W /\ Asks(t)'
                                    /\ wsts[t] # NONE \/ post[t] = NONE
             /\ \A o \in objs \cap objs' : atr'[o] = atr[o]

(* No task waits for what is there, kind by kind. *)
SemIdle == \A t \in Task : wsts[t] = "SEM" => semcnt[wobj[t]] = 0
FlgIdle == \A t \in Task : wsts[t] = "FLG" =>
    /\ ~Satisfies(flgptn[wobj[t]], par[t])
    /\ "WMUL" \notin atr[wobj[t]] =>
          \A u \in Task : wsts[u] = "FLG" /\ wobj[u] = wobj[t] => u = t
DtqIdle == \A t \in Task :
    /\ wsts[t] = "RDTQ" =>
          /\ cnt[wobj[t]] = 0
          /\ \A u \in Task : wsts[u] = "SDTQ" => wobj[u] # wobj[t]
    /\ wsts[t] = "SDTQ" => Full(wobj[t])
MbxIdle == \A t \in Task : wsts[t] = "MBX" => Filled(wobj[t]) = {}
MbfIdle == \A t \in Task : wsts[t] = "RMBF" =>
    /\ frsz[wobj[t]] = mbfsz[wobj[t]]
    /\ \A u \in Task : wsts[u] = "SMBF" => wobj[u] # wobj[t]
PorIdle == \A t, u \in Task :
    wsts[t] = "ACP" /\ wsts[u] = "CAL" /\ wobj[t] = wobj[u] =>
        par[t].ptn \cap par[u].ptn = {}
MpfIdle == \A t \in Task : wsts[t] = "MPF" => free[wobj[t]] = <<>>

-----------------------------------------------------------------------------
(* THE KINDS AND THE REASONS                                               *)

LEMMA KindsApart ==
    /\ NONE \notin Obj /\ NONE \notin Task /\ NONE \notin QueWaits \cup SqueWaits \cup {"RDV"}
    /\ Sem \subseteq Obj /\ Flg \subseteq Obj /\ Dtq \subseteq Obj /\ Mbx \subseteq Obj
    /\ Mbf \subseteq Obj /\ Por \subseteq Obj /\ Mpf \subseteq Obj /\ Mpl \subseteq Obj
    /\ Sem \cap (Flg \cup Dtq \cup Mbx \cup Mbf \cup Por \cup Mpf \cup Mpl) = {}
    /\ Flg \cap (Dtq \cup Mbx \cup Mbf \cup Por \cup Mpf \cup Mpl) = {}
    /\ Dtq \cap (Mbx \cup Mbf \cup Por \cup Mpf \cup Mpl) = {}
    /\ Mbx \cap (Mbf \cup Por \cup Mpf \cup Mpl) = {}
    /\ Mbf \cap (Por \cup Mpf \cup Mpl) = {}
    /\ Por \cap (Mpf \cup Mpl) = {} /\ Mpf \cap Mpl = {}
<1>1. /\ Kind[1] = Flg /\ Kind[2] = Dtq /\ Kind[3] = Mbx /\ Kind[4] = Mbf
      /\ Kind[5] = Por /\ Kind[6] = Mpf /\ Kind[7] = Mpl /\ Kind[8] = Sem
      BY DEF Kind
<1>2. \A i, j \in 1..8 : i # j => Kind[i] \cap Kind[j] = {} BY ObjectsAssumption
<1>3. \A i \in {1, 2, 3, 4, 5, 6, 7} : Kind[8] \cap Kind[i] = {} BY <1>2
<1>4. \A i \in {2, 3, 4, 5, 6, 7} : Kind[1] \cap Kind[i] = {} BY <1>2
<1>5. \A i \in {3, 4, 5, 6, 7} : Kind[2] \cap Kind[i] = {} BY <1>2
<1>6. \A i \in {4, 5, 6, 7} : Kind[3] \cap Kind[i] = {} BY <1>2
<1>7. \A i \in {5, 6, 7} : Kind[4] \cap Kind[i] = {} BY <1>2
<1>8. Kind[5] \cap Kind[6] = {} /\ Kind[5] \cap Kind[7] = {} /\ Kind[6] \cap Kind[7] = {} BY <1>2
<1>9. /\ Sem \cap (Flg \cup Dtq \cup Mbx \cup Mbf \cup Por \cup Mpf \cup Mpl) = {}
      BY <1>1, <1>3
<1>10. Flg \cap (Dtq \cup Mbx \cup Mbf \cup Por \cup Mpf \cup Mpl) = {} BY <1>1, <1>4
<1>11. Dtq \cap (Mbx \cup Mbf \cup Por \cup Mpf \cup Mpl) = {} BY <1>1, <1>5
<1>12. Mbx \cap (Mbf \cup Por \cup Mpf \cup Mpl) = {} BY <1>1, <1>6
<1>13. Mbf \cap (Por \cup Mpf \cup Mpl) = {} BY <1>1, <1>7
<1>14. Por \cap (Mpf \cup Mpl) = {} /\ Mpf \cap Mpl = {} BY <1>1, <1>8
<1>15. /\ NONE \notin Obj /\ NONE \notin Task
       /\ NONE \notin QueWaits \cup SqueWaits \cup {"RDV"}
  BY WaitingAssumption
<1>16. Sem \subseteq Obj BY SemaphoreAssumption
<1>17. Flg \subseteq Obj BY EventFlagAssumption
<1>18. Dtq \subseteq Obj BY DataQueueAssumption
<1>19. Mbx \subseteq Obj BY MailboxAssumption
<1>20. Mbf \subseteq Obj BY MessageBufferAssumption
<1>21. Por \subseteq Obj BY RendezvousAssumption
<1>22. Mpf \subseteq Obj BY FixedPoolAssumption
<1>23. Mpl \subseteq Obj BY MemPoolAssumption
<1> QED
  BY ONLY <1>9, <1>10, <1>11, <1>12, <1>13, <1>14, <1>15, <1>16, <1>17, <1>18, <1>19,
          <1>20, <1>21, <1>22, <1>23

(* A task that is ready waits for nothing and is in no queue. *)
LEMMA ReadyFacts ==
    ASSUME Linked, NEW t \in Task, "RDY" \in msts[t]
    PROVE  /\ wsts[t] = NONE /\ msts[t] = {"RDY"} /\ t \notin timq /\ ~InQueue(t)
           /\ \A o \in Obj : t \notin ToSet(que[o]) /\ t \notin ToSet(sque[o])
<1>1. wsts[t] = NONE /\ msts[t] = {"RDY"} BY DEF Linked, Flagged
<1>2. t \notin timq BY <1>1 DEF Linked, Flagged
<1>3. ~InQueue(t) BY <1>1, KindsApart DEF InQueue
<1>4. \A o \in Obj : ~InQue(t, o) /\ ~InSque(t, o) BY <1>3 DEF InQueue, InQue, InSque
<1> QED BY <1>1, <1>2, <1>3, <1>4 DEF Linked, Queued

(* The first task of a queue is one that waits there. *)
LEMMA HeadFacts ==
    ASSUME Linked, NEW o \in Obj
    PROVE  /\ que[o] # <<>> => Head(que[o]) \in Task /\ InQue(Head(que[o]), o)
           /\ sque[o] # <<>> => Head(sque[o]) \in Task /\ InSque(Head(sque[o]), o)
           /\ \A t \in Task : InQue(t, o) => que[o] # <<>>
           /\ \A t \in Task : InSque(t, o) => sque[o] # <<>>
           /\ Members(que[o]) = ToSet(que[o]) /\ Members(sque[o]) = ToSet(sque[o])
           /\ que[o] \in Seq(Task) /\ sque[o] \in Seq(Task)
<1>1. que[o] \in Seq(Task) /\ sque[o] \in Seq(Task) BY DEF Linked, Typed
<1>2. que[o] # <<>> => Head(que[o]) \in Task /\ Head(que[o]) \in ToSet(que[o]) BY <1>1, TailOnce
<1>3. sque[o] # <<>> => Head(sque[o]) \in Task /\ Head(sque[o]) \in ToSet(sque[o]) BY <1>1, TailOnce
<1>4. ToSet(<<>>) = {} BY <1>1, ToSetFacts
<1>5. Members(que[o]) = ToSet(que[o]) /\ Members(sque[o]) = ToSet(sque[o])
      BY <1>1, ToSetFacts DEF Members
<1> QED BY <1>1, <1>2, <1>3, <1>4, <1>5 DEF Linked, Queued

-----------------------------------------------------------------------------
(* THE QUEUES                                                              *)

(* LEMMA: a task that enters a queue is in it once, in its place, behind   *)
(* the first one or before all.                                            *)
LEMMA EnqFacts ==
    ASSUME NEW q \in Seq(Task), NEW t \in Task, NEW cp \in [Task -> Nat],
           NEW tpri \in BOOLEAN
    PROVE  /\ Enq(q, t, cp, tpri) \in Seq(Task) /\ Enq(q, t, cp, tpri) # <<>>
           /\ ToSet(Enq(q, t, cp, tpri)) = ToSet(q) \cup {t}
           /\ Once(q) /\ t \notin ToSet(q) => Once(Enq(q, t, cp, tpri))
           /\ tpri /\ Ordered(q, cp) => Ordered(Enq(q, t, cp, tpri), cp)
           /\ q = <<>> => Head(Enq(q, t, cp, tpri)) = t
           /\ q # <<>> /\ (tpri => Ordered(q, cp)) =>
                 Head(Enq(q, t, cp, tpri)) \in {t, Head(q)}
<1>1. CASE ~tpri
  <2>1. Enq(q, t, cp, tpri) = Append(q, t) BY <1>1 DEF Enq
  <2> QED BY <1>1, <2>1, AppendOnce
<1>2. CASE tpri
  <2>a. PICK ahead : ahead = {u \in Task : cp[u] <= cp[t]} OBVIOUS
  <2>b. PICK a, b : a = Keep(q, ahead) /\ b = Keep(q, Task \ ahead) OBVIOUS
  <2>c. PICK at : at = a \o <<t>> OBVIOUS
  <2>1. Enq(q, t, cp, tpri) = (a \o <<t>>) \o b BY <1>2, <2>a, <2>b DEF Enq
  <2>2. a \in Seq(Task) /\ b \in Seq(Task) /\ <<t>> \in Seq(Task) /\ <<>> \in Seq(Task)
    BY <2>b, KeepOnce
  <2>3. /\ ToSet(a) = ToSet(q) \cap ahead /\ (Once(q) => Once(a))
        /\ Ordered(q, cp) => Ordered(a, cp)
    BY <2>b, KeepOnce
  <2>4. /\ ToSet(b) = ToSet(q) \cap (Task \ ahead) /\ (Once(q) => Once(b))
        /\ Ordered(q, cp) => Ordered(b, cp)
    BY <2>b, KeepOnce
  <2>5. ToSet(q) \subseteq Task BY ToSetFacts
  <2>6. /\ ToSet(<<t>>) = {t} /\ Once(<<t>>)
        /\ <<t>> # <<>> /\ Head(<<t>>) = t
    <3>1. <<t>> # <<>> /\ Head(<<t>>) = t /\ Len(<<t>>) = 1 /\ <<t>>[1] = t OBVIOUS
    <3>2. ToSet(<<t>>) = {<<t>>[i] : i \in 1..1} BY <2>2, <3>1, ToSetFacts
    <3>3. Once(<<t>>) BY <3>1 DEF Once
    <3> QED BY <3>1, <3>2, <3>3
  <2>7. Ordered(<<t>>, cp) BY DEF Ordered
  <2>8. /\ at \in Seq(Task) /\ ToSet(at) = ToSet(a) \cup {t}
        /\ Once(a) /\ t \notin ToSet(a) => Once(at)
    <3>1. /\ at \in Seq(Task) /\ ToSet(at) = ToSet(a) \cup ToSet(<<t>>)
          /\ Once(a) /\ Once(<<t>>) /\ ToSet(a) \cap ToSet(<<t>>) = {} => Once(at)
      BY <2>c, <2>2, ConcatOnce
    <3> QED BY <3>1, <2>6
  <2>9. /\ \A x \in ToSet(a) : cp[x] <= cp[t]
        /\ \A y \in ToSet(b) : cp[t] <= cp[y]
        /\ \A x \in ToSet(at) : cp[x] <= cp[t]
    BY <2>a, <2>3, <2>4, <2>5, <2>8
  <2>d. \A x \in ToSet(at), y \in ToSet(b) : cp[x] <= cp[y]
    <3>1. \A x \in ToSet(at) : cp[x] \in Nat BY <2>3, <2>5, <2>8
    <3>2. \A y \in ToSet(b) : cp[y] \in Nat BY <2>4, <2>5
    <3> QED BY <2>9, <3>1, <3>2
  <2>10. /\ Ordered(a, cp) => Ordered(at, cp)
         /\ a # <<>> => at # <<>> /\ Head(at) = Head(a)
         /\ a = <<>> => at = <<t>>
    <3>1. \A x \in ToSet(a), y \in ToSet(<<t>>) : cp[x] <= cp[y] BY <2>6, <2>9
    <3> QED BY <2>2, <2>c, <2>7, <3>1, ConcatOrdered
  <2>11. /\ Ordered(at, cp) /\ Ordered(b, cp) => Ordered(at \o b, cp)
         /\ at # <<>> => at \o b # <<>> /\ Head(at \o b) = Head(at)
    BY <2>2, <2>8, <2>d, ConcatOrdered
  <2>12. /\ at \o b \in Seq(Task) /\ ToSet(at \o b) = ToSet(at) \cup ToSet(b)
         /\ Once(at) /\ Once(b) /\ ToSet(at) \cap ToSet(b) = {} => Once(at \o b)
    BY <2>2, <2>8, ConcatOnce
  <2>13. at # <<>> BY <2>6, <2>10
  <2>14. q = <<>> => a = <<>>
    BY <2>2, <2>3, ToSetFacts, TailOnce
  <2>15. q # <<>> /\ Ordered(q, cp) => a = <<>> \/ Head(a) = Head(q)
    <3> SUFFICES ASSUME q # <<>>, Ordered(q, cp), a # <<>> PROVE Head(a) = Head(q)
      OBVIOUS
    <3>1. PICK x \in Task : x \in ToSet(q) /\ x \in ahead
      BY <2>2, <2>3, <2>5, TailOnce
    <3>2. PICK i \in 1..Len(q) : q[i] = x BY <3>1, ToSetFacts
    <3>3. Head(q) = q[1] /\ Head(q) \in Task /\ 1 \in 1..Len(q)
      BY TailOnce, ToSetFacts
    <3>4. cp[Head(q)] <= cp[x] BY <3>2, <3>3 DEF Ordered
    <3>5. Head(q) \in ahead BY <2>a, <3>1, <3>3, <3>4
    <3> QED BY <2>b, <3>5, KeepEnds
  <2>16. PICK r : r = at \o b OBVIOUS
  <2>17. Enq(q, t, cp, tpri) = r BY <2>1, <2>c, <2>16
  <2>18. r \in Seq(Task) /\ r # <<>> /\ Head(r) = Head(at) BY <2>11, <2>12, <2>13, <2>16
  <2>19. ToSet(r) = ToSet(q) \cup {t} BY <2>12, <2>16, <2>8, <2>3, <2>4, <2>5
  <2>20. Once(q) /\ t \notin ToSet(q) => Once(r)
    <3>1. t \notin ToSet(q) => t \notin ToSet(a) /\ ToSet(at) \cap ToSet(b) = {}
      BY <2>3, <2>4, <2>8
    <3> QED BY <2>12, <2>16, <2>8, <2>3, <2>4, <3>1
  <2>21. Ordered(q, cp) => Ordered(r, cp) BY <2>3, <2>4, <2>10, <2>11, <2>16
  <2>22. Head(at) = IF a = <<>> THEN t ELSE Head(a) BY <2>10, <2>6
  <2> QED BY ONLY <1>2, <2>17, <2>18, <2>19, <2>20, <2>21, <2>22, <2>14, <2>15
<1> QED BY <1>1, <1>2

(* LEMMA: what leaves the queues, leaves the rest in its order. *)
LEMMA WithoutFacts ==
    ASSUME NEW queue \in [Obj -> Seq(Task)], NEW ts
    PROVE  /\ Without(queue, ts) \in [Obj -> Seq(Task)]
           /\ \A o \in Obj :
                 /\ ToSet(Without(queue, ts)[o]) = ToSet(queue[o]) \ ts
                 /\ Once(queue[o]) => Once(Without(queue, ts)[o])
                 /\ \A key : Ordered(queue[o], key) => Ordered(Without(queue, ts)[o], key)
<1>1. SUFFICES ASSUME NEW o \in Obj
               PROVE  /\ Without(queue, ts)[o] \in Seq(Task)
                      /\ ToSet(Without(queue, ts)[o]) = ToSet(queue[o]) \ ts
                      /\ Once(queue[o]) => Once(Without(queue, ts)[o])
                      /\ \A key : Ordered(queue[o], key) => Ordered(Without(queue, ts)[o], key)
  BY DEF Without
<1>2. Without(queue, ts)[o] = Keep(queue[o], Task \ ts) BY DEF Without
<1>3. queue[o] \in Seq(Task) /\ ToSet(queue[o]) \subseteq Task BY ToSetFacts
<1> QED BY <1>2, <1>3, KeepOnce

(* LEMMA: a queue in which no task waits is empty. *)
LEMMA NobodyWaits ==
    ASSUME Linked, NEW o \in Obj
    PROVE  /\ (\A t \in Task : ~InQue(t, o)) => que[o] = <<>>
           /\ (\A t \in Task : ~InSque(t, o)) => sque[o] = <<>>
BY HeadFacts

(* LEMMA: who waits in a queue waits for the reason of its kind. *)
LEMMA KindFacts ==
    ASSUME Linked, Asking, NEW t \in Task, NEW o \in Obj
    PROVE  /\ InSque(t, o) /\ o \in Sem => wsts[t] = "SEM"
           /\ InSque(t, o) /\ o \in Flg => wsts[t] = "FLG"
           /\ InSque(t, o) /\ o \in Dtq => wsts[t] = "SDTQ"
           /\ InQue(t, o)  /\ o \in Dtq => wsts[t] = "RDTQ"
           /\ InSque(t, o) /\ o \in Mbx => wsts[t] = "MBX"
           /\ InSque(t, o) /\ o \in Mbf => wsts[t] = "SMBF"
           /\ InQue(t, o)  /\ o \in Mbf => wsts[t] = "RMBF"
           /\ InSque(t, o) /\ o \in Por => wsts[t] = "CAL"
           /\ InQue(t, o)  /\ o \in Por => wsts[t] = "ACP"
           /\ InSque(t, o) /\ o \in Mpf => wsts[t] = "MPF"
           /\ InSque(t, o) /\ o \in Mpl => wsts[t] = "MPL"
<1>1. Asks(t) BY DEF Asking
<1>2. CASE InQue(t, o)
  <2>1. wsts[t] \in {"RDTQ", "RMBF", "ACP"} /\ wobj[t] = o BY <1>2 DEF InQue, QueWaits
  <2>2. /\ wsts[t] = "RDTQ" => o \in Dtq /\ o \notin Mbf /\ o \notin Por
        /\ wsts[t] = "RMBF" => o \in Mbf /\ o \notin Dtq /\ o \notin Por
        /\ wsts[t] = "ACP"  => o \in Por /\ o \notin Dtq /\ o \notin Mbf
    BY <1>1, <2>1, KindsApart DEF Asks
  <2>3. ~InSque(t, o) BY <2>1 DEF InSque, SqueWaits
  <2> QED BY <2>1, <2>2, <2>3
<1>3. CASE InSque(t, o)
  <2>1. wsts[t] \in SqueWaits /\ wobj[t] = o BY <1>3 DEF InSque
  <2>2. /\ wsts[t] = "SEM" => o \in Sem
        /\ wsts[t] = "FLG" => o \in Flg
        /\ wsts[t] = "SDTQ" => o \in Dtq
        /\ wsts[t] = "MBX" => o \in Mbx
        /\ wsts[t] = "SMBF" => o \in Mbf
        /\ wsts[t] = "CAL" => o \in Por
        /\ wsts[t] = "MPF" => o \in Mpf
        /\ wsts[t] = "MPL" => o \in Mpl
    BY <1>1, <2>1 DEF Asks
  <2>3. ~InQue(t, o) BY <2>1 DEF InQue, SqueWaits, QueWaits
  <2>4. wsts[t] \in {"SEM", "FLG", "SDTQ", "MBX", "SMBF", "CAL", "MPF", "MPL"}
    BY <2>1 DEF SqueWaits
  <2>5. /\ o \in Sem => o \notin Flg \cup Dtq \cup Mbx \cup Mbf \cup Por \cup Mpf \cup Mpl
        /\ o \in Flg => o \notin Dtq \cup Mbx \cup Mbf \cup Por \cup Mpf \cup Mpl
        /\ o \in Dtq => o \notin Mbx \cup Mbf \cup Por \cup Mpf \cup Mpl
        /\ o \in Mbx => o \notin Mbf \cup Por \cup Mpf \cup Mpl
        /\ o \in Mbf => o \notin Por \cup Mpf \cup Mpl
        /\ o \in Por => o \notin Mpf \cup Mpl
        /\ o \in Mpf => o \notin Mpl
    BY KindsApart
  <2>6. o \in Sem => wsts[t] = "SEM" BY ONLY <2>2, <2>4, <2>5
  <2>7. o \in Flg => wsts[t] = "FLG" BY ONLY <2>2, <2>4, <2>5
  <2>8. o \in Dtq => wsts[t] = "SDTQ" BY ONLY <2>2, <2>4, <2>5
  <2>9. o \in Mbx => wsts[t] = "MBX" BY ONLY <2>2, <2>4, <2>5
  <2>10. o \in Mbf => wsts[t] = "SMBF" BY ONLY <2>2, <2>4, <2>5
  <2>11. o \in Por => wsts[t] = "CAL" BY ONLY <2>2, <2>4, <2>5
  <2>12. o \in Mpf => wsts[t] = "MPF" BY ONLY <2>2, <2>4, <2>5
  <2>13. o \in Mpl => wsts[t] = "MPL" BY ONLY <2>2, <2>4, <2>5
  <2> QED BY ONLY <2>3, <2>6, <2>7, <2>8, <2>9, <2>10, <2>11, <2>12, <2>13
<1> QED BY <1>2, <1>3

-----------------------------------------------------------------------------
(* WHAT HAPPENS TO A WAIT                                                  *)

(* LEMMA: what leaves the waits alone, and creates objects at most. *)
LEMMA QuietKeeps ==
    ASSUME Linked, UNCHANGED <<waiting, cpri>>, objs \subseteq objs',
           \A o \in objs : atr'[o] = atr[o]
    PROVE  Linked'
<1>1. Typed' BY DEF Linked, Typed, waiting
<1>2. Queued'
  <2>1. \A o \in Obj : que'[o] = que[o] /\ sque'[o] = sque[o] BY DEF waiting
  <2>2. \A t \in Task, o \in Obj : (InQue(t, o)' <=> InQue(t, o)) /\ (InSque(t, o)' <=> InSque(t, o))
    BY DEF waiting, InQue, InSque
  <2> SUFFICES ASSUME NEW o \in Obj, "TPRI" \in atr'[o]
               PROVE  Ordered(sque[o], cpri)
    BY <2>1, <2>2 DEF Queued, Linked
  <2>3. CASE o \in objs BY <2>3 DEF Linked, Queued
  <2>4. CASE o \notin objs
    <3>1. \A t \in Task : ~InSque(t, o) BY <2>4 DEF Linked, Flagged, InQueue, InSque
    <3>2. sque[o] = <<>> BY <3>1, NobodyWaits
    <3> QED BY <3>2 DEF Ordered
  <2> QED BY <2>3, <2>4
<1>3. Flagged' BY DEF Linked, Flagged, waiting, InQueue
<1> QED BY <1>1, <1>2, <1>3 DEF Linked

(* LEMMA: the tasks that are released leave the queues and the timer.      *)
LEMMA ReleaseKeeps ==
    ASSUME Linked, NEW ts \in SUBSET Task, NEW deq \in SUBSET ts, NEW off \in SUBSET ts,
           Release(ts, deq, off), cpri' = cpri,
           \A t \in ts : (InQueue(t) => t \in deq) /\ (t \in timq => t \in off),
           \A t \in Task \ ts :
              InQueue(t) => wobj[t] \in objs' /\ atr'[wobj[t]] = atr[wobj[t]],
           \A o \in Obj : atr'[o] \in {atr[o], {}}
    PROVE  Linked'
<1> DEFINE q == Without(que, deq)
           s == Without(sque, deq)
<1>1. que' = q /\ sque' = s /\ timq' = timq \ off BY DEF Release
<1>2. \A t \in ts : msts'[t] = {"RDY"} /\ wsts'[t] = NONE /\ wobj'[t] = NONE
  BY DEF Release
<1>3. \A t \in Task \ ts : msts'[t] = msts[t] /\ wsts'[t] = wsts[t] /\ wobj'[t] = wobj[t]
  BY DEF Release
<1>4. que \in [Obj -> Seq(Task)] /\ sque \in [Obj -> Seq(Task)] BY DEF Linked, Typed
<1>5. q \in [Obj -> Seq(Task)] /\ s \in [Obj -> Seq(Task)] BY <1>4, WithoutFacts
<1>6. Typed'
  <2>1. /\ msts' \in [Task -> SUBSET {"RDY", "WAI", "FIFO", "TMR"}]
        /\ wsts' \in [Task -> QueWaits \cup SqueWaits \cup {"RDV", NONE}]
        /\ wobj' \in [Task -> Obj \cup {NONE}]
        /\ DOMAIN par' = Task
    BY DEF Release, Linked, Typed
  <2>2. timq' \in SUBSET Task BY <1>1 DEF Linked, Typed
  <2> QED BY <1>1, <1>5, <2>1, <2>2 DEF Typed
<1>7. Queued'
  <2> SUFFICES ASSUME NEW o \in Obj
               PROVE  /\ Once(q[o]) /\ \A t \in Task : t \in ToSet(q[o]) <=> InQue(t, o)'
                      /\ Once(s[o]) /\ \A t \in Task : t \in ToSet(s[o]) <=> InSque(t, o)'
                      /\ "TPRI" \in atr'[o] => Ordered(s[o], cpri)
    BY <1>1 DEF Queued
  <2>1. /\ ToSet(q[o]) = ToSet(que[o]) \ deq /\ ToSet(s[o]) = ToSet(sque[o]) \ deq
        /\ Once(q[o]) /\ Once(s[o])
        /\ Ordered(sque[o], cpri) => Ordered(s[o], cpri)
    <3>1. Once(que[o]) /\ Once(sque[o]) BY DEF Linked, Queued
    <3> QED BY <1>4, <3>1, WithoutFacts
  <2>2. \A t \in Task : t \in ToSet(que[o]) <=> InQue(t, o) BY DEF Linked, Queued
  <2>3. \A t \in Task : t \in ToSet(sque[o]) <=> InSque(t, o) BY DEF Linked, Queued
  <2>4. \A t \in ts : InQue(t, o) \/ InSque(t, o) => t \in deq
    BY DEF InQue, InSque, InQueue
  <2>5. \A t \in ts : ~InQue(t, o)' /\ ~InSque(t, o)'
    BY <1>2, KindsApart DEF InQue, InSque
  <2>6. \A t \in Task \ ts : /\ InQue(t, o)' <=> InQue(t, o)
                             /\ InSque(t, o)' <=> InSque(t, o)
    BY <1>3 DEF InQue, InSque
  <2>7. \A t \in Task : t \in ToSet(q[o]) <=> InQue(t, o)'
    BY <2>1, <2>2, <2>4, <2>5, <2>6
  <2>8. \A t \in Task : t \in ToSet(s[o]) <=> InSque(t, o)'
    BY <2>1, <2>3, <2>4, <2>5, <2>6
  <2>9. "TPRI" \in atr'[o] => Ordered(s[o], cpri)
    <3> SUFFICES ASSUME "TPRI" \in atr'[o] PROVE Ordered(s[o], cpri) OBVIOUS
    <3>1. "TPRI" \in atr[o] OBVIOUS
    <3> QED BY <2>1, <3>1 DEF Linked, Queued
  <2> QED BY <2>1, <2>7, <2>8, <2>9
<1>8. Flagged'
  <2> SUFFICES ASSUME NEW t \in Task
               PROVE  /\ wsts'[t] = NONE => msts'[t] = {"RDY"}
                      /\ wsts'[t] # NONE => "WAI" \in msts'[t] /\ "RDY" \notin msts'[t]
                      /\ t \in timq' <=> "TMR" \in msts'[t]
                      /\ InQueue(t)' => wobj'[t] \in objs' \cap Obj
                      /\ wsts'[t] \in QueWaits => "FIFO" \in msts'[t]
                      /\ wsts'[t] \in SqueWaits =>
                            ("FIFO" \in msts'[t] <=> "TPRI" \notin atr'[wobj'[t]])
    BY DEF Flagged
  <2>1. CASE t \in ts
    <3>1. ~InQueue(t)' /\ wsts'[t] \notin QueWaits /\ wsts'[t] \notin SqueWaits
      BY <1>2, <2>1, KindsApart DEF InQueue
    <3>2. t \notin timq' BY <1>1, <2>1
    <3> QED BY <1>2, <2>1, <3>1, <3>2
  <2>2. CASE t \notin ts
    <3>1. t \in timq' <=> t \in timq BY <1>1, <2>2
    <3>2. InQueue(t)' <=> InQueue(t) BY <1>3, <2>2 DEF InQueue
    <3>3. wsts[t] \in QueWaits \/ wsts[t] \in SqueWaits => InQueue(t) BY DEF InQueue
    <3> QED BY <1>3, <2>2, <3>1, <3>2, <3>3 DEF Linked, Flagged
  <2> QED BY <2>1, <2>2
<1> QED BY <1>6, <1>7, <1>8 DEF Linked

(* LEMMA: a ready task that begins to wait enters the queue of its reason. *)
LEMMA BlockKeeps ==
    ASSUME Linked, cpri \in [Task -> Nat], NEW t \in Task, "RDY" \in msts[t],
           NEW o \in objs, o \in Obj, NEW why \in QueWaits \cup SqueWaits, NEW p,
           NEW timed \in BOOLEAN, Block(t, o, why, p, timed),
           UNCHANGED <<objs, atr, cpri>>
    PROVE  Linked'
<1> DEFINE tpri == "TPRI" \in atr[o]
           fifo == why \in QueWaits \/ (why \in SqueWaits /\ ~tpri)
<1>1. /\ wsts[t] = NONE /\ t \notin timq /\ ~InQueue(t)
      /\ \A x \in Obj : t \notin ToSet(que[x]) /\ t \notin ToSet(sque[x])
  BY ReadyFacts
<1>2. /\ que \in [Obj -> Seq(Task)] /\ sque \in [Obj -> Seq(Task)]
      /\ msts \in [Task -> SUBSET {"RDY", "WAI", "FIFO", "TMR"}]
      /\ wsts \in [Task -> QueWaits \cup SqueWaits \cup {"RDV", NONE}]
      /\ wobj \in [Task -> Obj \cup {NONE}]
      /\ timq \in SUBSET Task /\ DOMAIN par = Task
  BY DEF Linked, Typed
<1>3. /\ wsts'[t] = why /\ wobj'[t] = o
      /\ msts'[t] = {"WAI"} \cup (IF fifo THEN {"FIFO"} ELSE {})
                            \cup (IF timed THEN {"TMR"} ELSE {})
  BY <1>2 DEF Block
<1>4. \A u \in Task : u # t => /\ wsts'[u] = wsts[u] /\ wobj'[u] = wobj[u]
                               /\ msts'[u] = msts[u] /\ (u \in timq' <=> u \in timq)
  BY <1>2 DEF Block
<1>5. t \in timq' <=> timed BY <1>1 DEF Block
<1>6. why \in QueWaits <=> why \notin SqueWaits BY DEF QueWaits, SqueWaits
<1>7. Typed'
  <2>1. /\ wsts' \in [Task -> QueWaits \cup SqueWaits \cup {"RDV", NONE}]
        /\ wobj' \in [Task -> Obj \cup {NONE}]
        /\ timq' \in SUBSET Task /\ DOMAIN par' = Task
    BY <1>2 DEF Block
  <2>2. msts' \in [Task -> SUBSET {"RDY", "WAI", "FIFO", "TMR"}] BY <1>2 DEF Block
  <2>3. que' \in [Obj -> Seq(Task)]
    <3>1. Append(que[o], t) \in Seq(Task) BY <1>2, AppendOnce
    <3> QED BY <1>2, <3>1 DEF Block
  <2>4. sque' \in [Obj -> Seq(Task)]
    <3>1. PICK b \in BOOLEAN : b <=> tpri OBVIOUS
    <3>2. Enq(sque[o], t, cpri, b) \in Seq(Task) BY <1>2, EnqFacts
    <3>3. Enq(sque[o], t, cpri, tpri) = Enq(sque[o], t, cpri, b) BY <3>1 DEF Enq
    <3> QED BY <1>2, <3>2, <3>3 DEF Block
  <2> QED BY <2>1, <2>2, <2>3, <2>4 DEF Typed
<1>8. Queued'
  <2> SUFFICES ASSUME NEW x \in Obj
               PROVE  /\ Once(que'[x]) /\ \A u \in Task : u \in ToSet(que'[x]) <=> InQue(u, x)'
                      /\ Once(sque'[x]) /\ \A u \in Task : u \in ToSet(sque'[x]) <=> InSque(u, x)'
                      /\ "TPRI" \in atr'[x] => Ordered(sque'[x], cpri')
    BY DEF Queued
  <2>1. /\ Once(que[x]) /\ \A u \in Task : u \in ToSet(que[x]) <=> InQue(u, x)
        /\ Once(sque[x]) /\ \A u \in Task : u \in ToSet(sque[x]) <=> InSque(u, x)
        /\ "TPRI" \in atr[x] => Ordered(sque[x], cpri)
    BY DEF Linked, Queued
  <2>2. \A u \in Task : u # t => (InQue(u, x)' <=> InQue(u, x)) /\ (InSque(u, x)' <=> InSque(u, x))
    BY <1>4 DEF InQue, InSque
  <2>3. /\ InQue(t, x)' <=> why \in QueWaits /\ x = o
        /\ InSque(t, x)' <=> why \in SqueWaits /\ x = o
    BY <1>3 DEF InQue, InSque
  <2>4. que'[x] = (IF why \in QueWaits /\ x = o THEN Append(que[x], t) ELSE que[x])
    BY <1>2 DEF Block
  <2>5. sque'[x] = (IF why \in SqueWaits /\ x = o THEN Enq(sque[x], t, cpri, tpri) ELSE sque[x])
    BY <1>2 DEF Block
  <2>6. que[x] \in Seq(Task) /\ sque[x] \in Seq(Task) BY <1>2
  <2>7. t \notin ToSet(que[x]) /\ t \notin ToSet(sque[x]) BY <1>1
  <2>8. Once(que'[x]) /\ \A u \in Task : u \in ToSet(que'[x]) <=> InQue(u, x)'
    BY <2>1, <2>2, <2>3, <2>4, <2>6, <2>7, AppendOnce
  <2>9. /\ Once(sque'[x]) /\ \A u \in Task : u \in ToSet(sque'[x]) <=> InSque(u, x)'
        /\ "TPRI" \in atr[x] => Ordered(sque'[x], cpri)
    <3>1. CASE why \in SqueWaits /\ x = o
      <4>0. PICK b \in BOOLEAN : b <=> tpri OBVIOUS
      <4>1. PICK r : r = Enq(sque[x], t, cpri, b) OBVIOUS
      <4>3. Enq(sque[x], t, cpri, tpri) = r BY <4>0, <4>1 DEF Enq
      <4>4. /\ ToSet(r) = ToSet(sque[x]) \cup {t}
            /\ Once(sque[x]) /\ t \notin ToSet(sque[x]) => Once(r)
            /\ b /\ Ordered(sque[x], cpri) => Ordered(r, cpri)
        <5>1. PICK q \in Seq(Task) : q = sque[x] BY <2>6
        <5>2. /\ ToSet(Enq(q, t, cpri, b)) = ToSet(q) \cup {t}
              /\ Once(q) /\ t \notin ToSet(q) => Once(Enq(q, t, cpri, b))
              /\ b /\ Ordered(q, cpri) => Ordered(Enq(q, t, cpri, b), cpri)
          BY EnqFacts
        <5> QED BY <4>1, <5>1, <5>2
      <4>5. "TPRI" \in atr[x] => b BY <4>0, <3>1
      <4>2. /\ ToSet(r) = ToSet(sque[x]) \cup {t} /\ Once(r)
            /\ "TPRI" \in atr[x] => Ordered(r, cpri)
        BY <2>1, <2>7, <4>4, <4>5
      <4> QED BY <2>1, <2>2, <2>3, <2>5, <3>1, <4>3, <4>2
    <3>2. CASE ~(why \in SqueWaits /\ x = o)
      <4>1. sque'[x] = sque[x] BY <2>5, <3>2
      <4> QED BY <2>1, <2>2, <2>3, <2>7, <3>2, <4>1
    <3> QED BY <3>1, <3>2
  <2> QED BY <2>8, <2>9
<1>9. Flagged'
  <2> SUFFICES ASSUME NEW u \in Task
               PROVE  /\ wsts'[u] = NONE => msts'[u] = {"RDY"}
                      /\ wsts'[u] # NONE => "WAI" \in msts'[u] /\ "RDY" \notin msts'[u]
                      /\ u \in timq' <=> "TMR" \in msts'[u]
                      /\ InQueue(u)' => wobj'[u] \in objs' \cap Obj
                      /\ wsts'[u] \in QueWaits => "FIFO" \in msts'[u]
                      /\ wsts'[u] \in SqueWaits =>
                            ("FIFO" \in msts'[u] <=> "TPRI" \notin atr'[wobj'[u]])
    BY DEF Flagged
  <2>1. CASE u = t
    <3>1. why # NONE BY KindsApart
    <3> QED BY <1>3, <1>5, <1>6, <2>1, <3>1 DEF InQueue
  <2>2. CASE u # t
    <3>1. InQueue(u)' <=> InQueue(u) BY <1>4, <2>2 DEF InQueue
    <3> QED BY <1>4, <2>2, <3>1 DEF Linked, Flagged
  <2> QED BY <2>1, <2>2
<1> QED BY <1>7, <1>8, <1>9 DEF Linked

(* LEMMA: what was said of each of these about the other waits. *)
LEMMA ReleaseBegins ==
    ASSUME Linked, NEW ts, NEW deq, NEW off, Release(ts, deq, off),
           \A o \in objs \cap objs' : atr'[o] = atr[o]
    PROVE  \A W : Begins(W)
<1>1. \A t \in Task : Stays(t) \/ wsts'[t] = NONE BY DEF Release, Stays
<1> SUFFICES ASSUME NEW W PROVE Begins(W) OBVIOUS
<1> QED BY <1>1 DEF Begins

LEMMA QuietBegins ==
    ASSUME UNCHANGED <<wsts, wobj, par>>, \A o \in objs \cap objs' : atr'[o] = atr[o]
    PROVE  \A W : Begins(W)
<1>1. \A t \in Task : Stays(t) BY DEF Stays
<1> SUFFICES ASSUME NEW W PROVE Begins(W) OBVIOUS
<1> QED BY <1>1 DEF Begins

LEMMA BlockBegins ==
    ASSUME Linked, NEW t \in Task, NEW o, NEW why, NEW p, NEW timed,
           Block(t, o, why, p, timed), UNCHANGED <<objs, atr, cpri>>
    PROVE  /\ wsts'[t] = why /\ wobj'[t] = o /\ par'[t] = p
           /\ \A u \in Task \ {t} : Stays(u)
           /\ \A W : why \in W /\ Asks(t)' /\ post[t] = NONE => Begins(W)
<1>1. DOMAIN wsts = Task /\ DOMAIN wobj = Task /\ DOMAIN par = Task BY DEF Linked, Typed
<1>2. wsts'[t] = why /\ wobj'[t] = o /\ par'[t] = p BY <1>1 DEF Block
<1>3. \A u \in Task \ {t} : Stays(u) BY <1>1 DEF Block, Stays
<1>4. ASSUME NEW W, why \in W, Asks(t)', post[t] = NONE PROVE Begins(W)
  BY <1>2, <1>3, <1>4 DEF Begins
<1> QED BY <1>2, <1>3, <1>4

(* LEMMA: whose priority changes moves in its queue. *)
LEMMA ChgPriKeeps ==
    ASSUME Linked, cpri \in [Task -> Nat], NEW t \in Task, NEW p \in Nat, ChgPri(t, p)
    PROVE  Linked'
<1> DEFINE moves == Waits(t) /\ "FIFO" \notin msts[t] /\ wsts[t] # "RDV"
           w == wobj[t]
           s == Without(sque, {t})
<1>1. /\ cpri' = [cpri EXCEPT ![t] = p] /\ cpri' \in [Task -> Nat]
      /\ UNCHANGED <<ids, objs, atr, que, msts, wsts, wobj, par, timq>>
      /\ moves => sque' = [s EXCEPT ![w] = Enq(@, t, cpri', TRUE)]
      /\ ~moves => sque' = sque
  BY DEF ChgPri
<1>2. que \in [Obj -> Seq(Task)] /\ sque \in [Obj -> Seq(Task)] BY DEF Linked, Typed
<1>3. moves => InSque(t, w) /\ w \in Obj /\ InQueue(t) /\ "TPRI" \in atr[w]
  <2> SUFFICES ASSUME moves PROVE InSque(t, w) /\ w \in Obj /\ InQueue(t) /\ "TPRI" \in atr[w]
    OBVIOUS
  <2>1. wsts[t] # NONE BY DEF Linked, Flagged, Waits
  <2>2. wsts[t] \in SqueWaits BY <2>1 DEF Linked, Typed, Flagged
  <2>3. InQueue(t) /\ w \in objs \cap Obj BY <2>2 DEF Linked, Flagged, InQueue
  <2> QED BY <2>2, <2>3 DEF Linked, Flagged, InSque
<1>4. CASE ~moves
  <2>1. UNCHANGED <<que, sque, msts, wsts, wobj, par, timq, objs, atr>> BY <1>1, <1>4
  <2>2. Typed' BY <2>1 DEF Linked, Typed
  <2>3. Flagged' BY <2>1 DEF Linked, Flagged, InQueue
  <2>4. Queued'
    <3>1. \A o \in Obj : "TPRI" \in atr[o] => Ordered(sque[o], cpri')
      <4> SUFFICES ASSUME NEW o \in Obj, "TPRI" \in atr[o] PROVE Ordered(sque[o], cpri')
        OBVIOUS
      <4>1. ~InSque(t, o)
        <5> SUFFICES ASSUME InSque(t, o) PROVE FALSE OBVIOUS
        <5>1. wsts[t] \in SqueWaits /\ wobj[t] = o BY DEF InSque
        <5>2. wsts[t] # NONE /\ wsts[t] # "RDV" BY <5>1, KindsApart DEF SqueWaits
        <5>3. "WAI" \in msts[t] /\ "FIFO" \notin msts[t]
          BY <5>1, <5>2 DEF Linked, Flagged
        <5> QED BY <1>4, <5>2, <5>3 DEF Waits
      <4>2. t \notin ToSet(sque[o]) BY <4>1 DEF Linked, Queued
      <4>3. sque[o] \in Seq(Task) BY <1>2
      <4>4. \A i \in 1..Len(sque[o]) : sque[o][i] \in Task /\ sque[o][i] # t
        BY <4>2, <4>3, ToSetFacts
      <4>5. \A i \in 1..Len(sque[o]) : cpri'[sque[o][i]] = cpri[sque[o][i]]
        BY <1>1, <4>4
      <4>6. Ordered(sque[o], cpri) BY DEF Linked, Queued
      <4> QED BY <4>5, <4>6 DEF Ordered
    <3>2. \A o \in Obj, u \in Task : (InQue(u, o)' <=> InQue(u, o)) /\ (InSque(u, o)' <=> InSque(u, o))
      BY <2>1 DEF InQue, InSque
    <3> QED BY <2>1, <3>1, <3>2 DEF Linked, Queued
  <2> QED BY <2>2, <2>3, <2>4 DEF Linked
<1>5. CASE moves
  <2>1. InSque(t, w) /\ w \in Obj /\ InQueue(t) /\ "TPRI" \in atr[w] BY <1>3, <1>5
  <2>2. PICK r : r = Enq(s[w], t, cpri', TRUE) OBVIOUS
  <2>3. s \in [Obj -> Seq(Task)] BY <1>2, WithoutFacts
  <2>4. sque' = [s EXCEPT ![w] = r] BY <1>1, <1>5, <2>2
  <2>5. \A o \in Obj : /\ ToSet(s[o]) = ToSet(sque[o]) \ {t} /\ Once(s[o])
                       /\ "TPRI" \in atr[o] => Ordered(s[o], cpri)
    BY <1>2, WithoutFacts DEF Linked, Queued
  <2>6. \A o \in Obj : "TPRI" \in atr[o] => Ordered(s[o], cpri')
    <3> SUFFICES ASSUME NEW o \in Obj, "TPRI" \in atr[o] PROVE Ordered(s[o], cpri')
      OBVIOUS
    <3>1. PICK so : so = s[o] OBVIOUS
    <3>2. so \in Seq(Task) /\ t \notin ToSet(so) /\ Ordered(so, cpri) BY <2>3, <2>5, <3>1
    <3>3. \A i \in 1..Len(so) : so[i] \in Task /\ so[i] # t BY <3>2, ToSetFacts
    <3>4. \A i \in 1..Len(so) : cpri'[so[i]] = cpri[so[i]] BY <1>1, <3>3
    <3>5. Ordered(so, cpri') BY <3>2, <3>4 DEF Ordered
    <3> QED BY <3>1, <3>5
  <2>7. /\ r \in Seq(Task) /\ ToSet(r) = ToSet(s[w]) \cup {t} /\ Once(r) /\ Ordered(r, cpri')
    <3>1. s[w] \in Seq(Task) /\ t \notin ToSet(s[w]) /\ Once(s[w]) /\ Ordered(s[w], cpri')
      BY <2>1, <2>3, <2>5, <2>6
    <3> QED BY <1>1, <2>2, <3>1, EnqFacts
  <2>8. sque' \in [Obj -> Seq(Task)] BY <2>3, <2>4, <2>7
  <2>9. Typed' BY <1>1, <2>8 DEF Linked, Typed
  <2>10. Flagged' BY <1>1 DEF Linked, Flagged, InQueue
  <2>11. Queued'
    <3>1. \A o \in Obj, u \in Task : (InQue(u, o)' <=> InQue(u, o)) /\ (InSque(u, o)' <=> InSque(u, o))
      BY <1>1 DEF InQue, InSque
    <3>2. \A o \in Obj : o # w => sque'[o] = s[o] /\ ~InSque(t, o)
      BY <2>1, <2>3, <2>4 DEF InSque
    <3>3. sque'[w] = r BY <2>1, <2>3, <2>4
    <3>4. \A o \in Obj : \A u \in Task : u \in ToSet(sque[o]) <=> InSque(u, o)
      BY DEF Linked, Queued
    <3>5. \A o \in Obj : /\ Once(sque'[o])
                         /\ \A u \in Task : u \in ToSet(sque'[o]) <=> InSque(u, o)
                         /\ "TPRI" \in atr[o] => Ordered(sque'[o], cpri')
      <4> SUFFICES ASSUME NEW o \in Obj
                   PROVE  /\ Once(sque'[o])
                          /\ \A u \in Task : u \in ToSet(sque'[o]) <=> InSque(u, o)
                          /\ "TPRI" \in atr[o] => Ordered(sque'[o], cpri')
        OBVIOUS
      <4>1. CASE o = w BY <4>1, <3>3, <2>1, <2>5, <2>7, <3>4
      <4>2. CASE o # w BY <4>2, <3>2, <2>5, <2>6, <3>4
      <4> QED BY <4>1, <4>2
    <3>6. \A o \in Obj : Once(que[o]) /\ \A u \in Task : u \in ToSet(que[o]) <=> InQue(u, o)
      BY DEF Linked, Queued
    <3> QED BY <1>1, <3>1, <3>5, <3>6 DEF Queued
  <2> QED BY <2>9, <2>10, <2>11 DEF Linked
<1> QED BY <1>4, <1>5

-----------------------------------------------------------------------------
(* THE RENDEZVOUS                                                          *)

(* LEMMA: tasks that leave queues other than by being released. *)
LEMMA LeaveQueues ==
    ASSUME Linked, UNCHANGED <<atr, cpri>>, NEW D \in SUBSET Task, NEW E \in SUBSET D,
           \/ que' = Without(que, E) /\ sque' = sque /\ \A t \in E : wsts[t] \in QueWaits
           \/ que' = que /\ sque' = Without(sque, E) /\ \A t \in E : wsts[t] \in SqueWaits,
           \A t \in D \ E : ~InQueue(t), \A t \in D : wsts'[t] \in {NONE, "RDV"},
           \A t \in Task \ D : wsts'[t] = wsts[t] /\ wobj'[t] = wobj[t]
    PROVE  Queued' /\ que' \in [Obj -> Seq(Task)] /\ sque' \in [Obj -> Seq(Task)]
<1>1. que \in [Obj -> Seq(Task)] /\ sque \in [Obj -> Seq(Task)] BY DEF Linked, Typed
<1>2. que' \in [Obj -> Seq(Task)] /\ sque' \in [Obj -> Seq(Task)] BY <1>1, WithoutFacts
<1>3. ASSUME NEW o \in Obj
      PROVE  /\ Once(que'[o]) /\ \A t \in Task : t \in ToSet(que'[o]) <=> InQue(t, o)'
             /\ Once(sque'[o]) /\ \A t \in Task : t \in ToSet(sque'[o]) <=> InSque(t, o)'
             /\ "TPRI" \in atr'[o] => Ordered(sque'[o], cpri')
  <2>1. /\ Once(que[o]) /\ \A t \in Task : t \in ToSet(que[o]) <=> InQue(t, o)
        /\ Once(sque[o]) /\ \A t \in Task : t \in ToSet(sque[o]) <=> InSque(t, o)
        /\ "TPRI" \in atr[o] => Ordered(sque[o], cpri)
    BY DEF Linked, Queued
  <2>2. \A t \in D : ~InQue(t, o)' /\ ~InSque(t, o)'
    <3>1. \A t \in D : wsts'[t] \notin QueWaits /\ wsts'[t] \notin SqueWaits
      BY KindsApart DEF QueWaits, SqueWaits
    <3> QED BY <3>1 DEF InQue, InSque
  <2>3. \A t \in Task \ D : (InQue(t, o)' <=> InQue(t, o)) /\ (InSque(t, o)' <=> InSque(t, o))
    BY DEF InQue, InSque
  <2>4. \A t \in D \ E : ~InQue(t, o) /\ ~InSque(t, o) BY DEF InQue, InSque, InQueue
  <2>5. QueWaits \cap SqueWaits = {} BY DEF QueWaits, SqueWaits
  <2>6. CASE que' = Without(que, E) /\ sque' = sque /\ \A t \in E : wsts[t] \in QueWaits
    <3>1. ToSet(que'[o]) = ToSet(que[o]) \ E /\ Once(que'[o])
      BY <1>1, <2>1, <2>6, WithoutFacts
    <3>2. \A t \in E : ~InSque(t, o) BY <2>5, <2>6 DEF InSque
    <3> QED BY <2>1, <2>2, <2>3, <2>4, <2>6, <3>1, <3>2
  <2>7. CASE que' = que /\ sque' = Without(sque, E) /\ \A t \in E : wsts[t] \in SqueWaits
    <3>1. /\ ToSet(sque'[o]) = ToSet(sque[o]) \ E /\ Once(sque'[o])
          /\ Ordered(sque[o], cpri) => Ordered(sque'[o], cpri)
      BY <1>1, <2>1, <2>7, WithoutFacts
    <3>2. \A t \in E : ~InQue(t, o) BY <2>5, <2>7 DEF InQue
    <3> QED BY <2>1, <2>2, <2>3, <2>4, <2>7, <3>1, <3>2
  <2> QED BY <2>6, <2>7
<1> QED BY <1>2, <1>3 DEF Queued

(* LEMMA: who is found in a queue waits there. *)
LEMMA FirstFacts ==
    ASSUME Linked, NEW o \in Obj, NEW ptn, NEW a
    PROVE  /\ First(que[o], ptn, a) => a \in Task /\ InQue(a, o) /\ InQueue(a)
           /\ First(sque[o], ptn, a) => a \in Task /\ InSque(a, o) /\ InQueue(a)
<1>1. que[o] \in Seq(Task) /\ sque[o] \in Seq(Task) BY DEF Linked, Typed
<1>2. \A i \in 1..Len(que[o]) : que[o][i] \in ToSet(que[o]) /\ que[o][i] \in Task
  BY <1>1, ToSetFacts
<1>3. \A i \in 1..Len(sque[o]) : sque[o][i] \in ToSet(sque[o]) /\ sque[o][i] \in Task
  BY <1>1, ToSetFacts
<1> QED BY <1>2, <1>3 DEF First, Linked, Queued, InQue, InSque, InQueue

(* LEMMA: a task in rendezvous waits in no queue. *)
LEMMA RdvFacts ==
    ASSUME Linked, NEW c \in Task, InRdv(c)
    PROVE  /\ wsts[c] = "RDV" /\ ~InQueue(c) /\ "WAI" \in msts[c] /\ "RDY" \notin msts[c]
           /\ c \in timq <=> "TMR" \in msts[c]
<1>1. wsts[c] = "RDV" /\ wsts[c] # NONE BY KindsApart DEF InRdv
<1>2. ~InQueue(c) BY <1>1 DEF InQueue, QueWaits, SqueWaits
<1> QED BY <1>1, <1>2 DEF Linked, Flagged

(* LEMMA: a caller meets an acceptor that waits. *)
LEMMA CalPorKeeps ==
    ASSUME Linked, NEW t \in Task, NEW o \in Obj, NEW ptn, NEW timed \in BOOLEAN,
           CalPor(t, o, ptn, timed)
    PROVE  Linked'
<1>1. PICK a \in Task :
          /\ First(que[o], ptn, a)
          /\ que'  = Without(que, {a})
          /\ msts' = [msts EXCEPT ![a] = {"RDY"},
                        ![t] = {"WAI"} \cup (IF timed THEN {"TMR"} ELSE {})]
          /\ wsts' = [wsts EXCEPT ![a] = NONE, ![t] = "RDV"]
          /\ wobj' = [wobj EXCEPT ![a] = NONE]
          /\ par'  = [par EXCEPT ![a] = NONE, ![t] = Call(o, {}, MaxRmsz[o])]
          /\ timq' = (timq \ Timed({a})) \cup (IF timed THEN {t} ELSE {})
  BY DEF CalPor
<1>2. /\ sque' = sque /\ UNCHANGED <<objs, atr, cpri>> /\ "RDY" \in msts[t]
  BY DEF CalPor, steady, Ready
<1>3. InQue(a, o) /\ InQueue(a) /\ wsts[a] \in QueWaits BY <1>1, FirstFacts DEF InQue
<1>4. ~InQueue(t) /\ t # a /\ t \notin timq BY <1>2, <1>3, ReadyFacts
<1>5. /\ msts \in [Task -> SUBSET {"RDY", "WAI", "FIFO", "TMR"}]
      /\ wsts \in [Task -> QueWaits \cup SqueWaits \cup {"RDV", NONE}]
      /\ wobj \in [Task -> Obj \cup {NONE}]
      /\ timq \in SUBSET Task /\ DOMAIN par = Task
  BY DEF Linked, Typed
<1>6. /\ wsts'[a] = NONE /\ wsts'[t] = "RDV" /\ msts'[a] = {"RDY"}
      /\ msts'[t] = {"WAI"} \cup (IF timed THEN {"TMR"} ELSE {})
      /\ \A u \in Task \ {a, t} : wsts'[u] = wsts[u] /\ wobj'[u] = wobj[u] /\ msts'[u] = msts[u]
  BY <1>1, <1>4, <1>5
<1>7. Queued' /\ que' \in [Obj -> Seq(Task)] /\ sque' \in [Obj -> Seq(Task)]
  <2> DEFINE D == {a, t}
             E == {a}
  <2>1. D \in SUBSET Task /\ E \in SUBSET D OBVIOUS
  <2>2. que' = Without(que, E) /\ sque' = sque /\ \A u \in E : wsts[u] \in QueWaits
    BY <1>1, <1>2, <1>3
  <2>3. /\ \A u \in D \ E : ~InQueue(u)
        /\ \A u \in D : wsts'[u] \in {NONE, "RDV"}
        /\ \A u \in Task \ D : wsts'[u] = wsts[u] /\ wobj'[u] = wobj[u]
    BY <1>4, <1>6
  <2> HIDE DEF D, E
  <2> QED BY <1>2, <2>1, <2>2, <2>3, LeaveQueues
<1>8. /\ wsts' \in [Task -> QueWaits \cup SqueWaits \cup {"RDV", NONE}]
      /\ wobj' \in [Task -> Obj \cup {NONE}]
      /\ DOMAIN par' = Task
  BY <1>1, <1>5
<1>9. msts' \in [Task -> SUBSET {"RDY", "WAI", "FIFO", "TMR"}] BY <1>1, <1>5
<1>10. timq' \in SUBSET Task BY <1>1, <1>5
<1>11. Typed' BY <1>7, <1>8, <1>9, <1>10 DEF Typed
<1>12. Flagged'
  <2> SUFFICES ASSUME NEW u \in Task
               PROVE  /\ wsts'[u] = NONE => msts'[u] = {"RDY"}
                      /\ wsts'[u] # NONE => "WAI" \in msts'[u] /\ "RDY" \notin msts'[u]
                      /\ u \in timq' <=> "TMR" \in msts'[u]
                      /\ InQueue(u)' => wobj'[u] \in objs' \cap Obj
                      /\ wsts'[u] \in QueWaits => "FIFO" \in msts'[u]
                      /\ wsts'[u] \in SqueWaits =>
                            ("FIFO" \in msts'[u] <=> "TPRI" \notin atr'[wobj'[u]])
    BY DEF Flagged
  <2>1. CASE u = a
    <3>1. ~InQueue(u)' /\ wsts'[u] \notin QueWaits /\ wsts'[u] \notin SqueWaits
      BY <1>6, <2>1, KindsApart DEF InQueue
    <3>2. u \notin timq'
      BY <1>1, <1>4, <2>1 DEF Timed, Linked, Flagged
    <3> QED BY <1>6, <2>1, <3>1, <3>2
  <2>2. CASE u = t
    <3>1. ~InQueue(u)' /\ wsts'[u] \notin QueWaits /\ wsts'[u] \notin SqueWaits
      BY <1>6, <2>2 DEF InQueue, QueWaits, SqueWaits
    <3>2. u \in timq' <=> timed BY <1>1, <1>4, <2>2
    <3>3. "RDV" # NONE BY KindsApart
    <3> QED BY <1>6, <2>2, <3>1, <3>2, <3>3
  <2>3. CASE u # a /\ u # t
    <3>1. InQueue(u)' <=> InQueue(u) BY <1>6, <2>3 DEF InQueue
    <3>2. u \in timq' <=> u \in timq BY <1>1, <2>3 DEF Timed
    <3> QED BY <1>2, <1>6, <2>3, <3>1, <3>2 DEF Linked, Flagged
  <2> QED BY <2>1, <2>2, <2>3
<1> QED BY <1>7, <1>11, <1>12 DEF Linked

(* LEMMA: an acceptor meets a caller that waits. *)
LEMMA AcpPorKeeps ==
    ASSUME Linked, NEW o \in Obj, NEW ptn, AcpPor(o, ptn)
    PROVE  Linked'
<1>1. PICK c \in Task :
          /\ First(sque[o], ptn, c)
          /\ sque' = Without(sque, {c})
          /\ wsts' = [wsts EXCEPT ![c] = "RDV"]
          /\ wobj' = [wobj EXCEPT ![c] = NONE]
          /\ par'  = [par EXCEPT ![c].ptn = {}, ![c].p4 = MaxRmsz[o]]
  BY DEF AcpPor
<1>2. /\ UNCHANGED <<que, msts, timq>> /\ UNCHANGED <<objs, atr, cpri>>
  BY DEF AcpPor, steady
<1>3. InSque(c, o) /\ InQueue(c) /\ wsts[c] \in SqueWaits BY <1>1, FirstFacts DEF InSque
<1>5. /\ msts \in [Task -> SUBSET {"RDY", "WAI", "FIFO", "TMR"}]
      /\ wsts \in [Task -> QueWaits \cup SqueWaits \cup {"RDV", NONE}]
      /\ wobj \in [Task -> Obj \cup {NONE}]
      /\ timq \in SUBSET Task /\ DOMAIN par = Task
  BY DEF Linked, Typed
<1>6. wsts'[c] = "RDV" /\ \A u \in Task \ {c} : wsts'[u] = wsts[u] /\ wobj'[u] = wobj[u]
  BY <1>1, <1>5
<1>7. Queued' /\ que' \in [Obj -> Seq(Task)] /\ sque' \in [Obj -> Seq(Task)]
  <2> DEFINE D == {c}
  <2>1. D \in SUBSET Task /\ D \in SUBSET D OBVIOUS
  <2>2. que' = que /\ sque' = Without(sque, D) /\ \A u \in D : wsts[u] \in SqueWaits
    BY <1>1, <1>2, <1>3
  <2>3. /\ \A u \in D \ D : ~InQueue(u)
        /\ \A u \in D : wsts'[u] \in {NONE, "RDV"}
        /\ \A u \in Task \ D : wsts'[u] = wsts[u] /\ wobj'[u] = wobj[u]
    BY <1>6
  <2> HIDE DEF D
  <2> QED BY <1>2, <2>1, <2>2, <2>3, LeaveQueues
<1>8. /\ wsts' \in [Task -> QueWaits \cup SqueWaits \cup {"RDV", NONE}]
      /\ wobj' \in [Task -> Obj \cup {NONE}]
      /\ DOMAIN par' = Task
  BY <1>1, <1>5
<1>11. Typed' BY <1>2, <1>5, <1>7, <1>8 DEF Typed
<1>12. Flagged'
  <2> SUFFICES ASSUME NEW u \in Task
               PROVE  /\ wsts'[u] = NONE => msts'[u] = {"RDY"}
                      /\ wsts'[u] # NONE => "WAI" \in msts'[u] /\ "RDY" \notin msts'[u]
                      /\ u \in timq' <=> "TMR" \in msts'[u]
                      /\ InQueue(u)' => wobj'[u] \in objs' \cap Obj
                      /\ wsts'[u] \in QueWaits => "FIFO" \in msts'[u]
                      /\ wsts'[u] \in SqueWaits =>
                            ("FIFO" \in msts'[u] <=> "TPRI" \notin atr'[wobj'[u]])
    BY DEF Flagged
  <2>1. CASE u = c
    <3>1. ~InQueue(u)' /\ wsts'[u] \notin QueWaits /\ wsts'[u] \notin SqueWaits
      BY <1>6, <2>1 DEF InQueue, QueWaits, SqueWaits
    <3>2. wsts[u] # NONE /\ wsts'[u] # NONE BY <1>3, <1>6, <2>1, KindsApart
    <3> QED BY <1>2, <2>1, <3>1, <3>2 DEF Linked, Flagged
  <2>3. CASE u # c
    <3>1. InQueue(u)' <=> InQueue(u) BY <1>6, <2>3 DEF InQueue
    <3> QED BY <1>2, <1>6, <2>3, <3>1 DEF Linked, Flagged
  <2> QED BY <2>1, <2>3
<1> QED BY <1>7, <1>11, <1>12 DEF Linked

(* LEMMA: a call in rendezvous is forwarded to an acceptor that waits. *)
LEMMA FwdPorKeeps ==
    ASSUME Linked, NEW c \in Task, NEW o \in Obj, NEW ptn, NEW n, FwdPor(c, o, ptn, n)
    PROVE  Linked'
<1>1. PICK a \in Task :
          /\ First(que[o], ptn, a)
          /\ que'  = Without(que, {a})
          /\ msts' = [msts EXCEPT ![a] = {"RDY"}]
          /\ wsts' = [wsts EXCEPT ![a] = NONE]
          /\ wobj' = [wobj EXCEPT ![a] = NONE]
          /\ par'  = [par EXCEPT ![a] = NONE, ![c].p4 = MaxRmsz[o]]
          /\ timq' = timq \ Timed({a})
  BY DEF FwdPor
<1>2. sque' = sque /\ UNCHANGED <<objs, atr, cpri>> BY DEF FwdPor, steady
<1>3. InQue(a, o) /\ InQueue(a) /\ wsts[a] \in QueWaits BY <1>1, FirstFacts DEF InQue
<1>5. /\ msts \in [Task -> SUBSET {"RDY", "WAI", "FIFO", "TMR"}]
      /\ wsts \in [Task -> QueWaits \cup SqueWaits \cup {"RDV", NONE}]
      /\ wobj \in [Task -> Obj \cup {NONE}]
      /\ timq \in SUBSET Task /\ DOMAIN par = Task
  BY DEF Linked, Typed
<1>6. /\ wsts'[a] = NONE /\ msts'[a] = {"RDY"}
      /\ \A u \in Task \ {a} : wsts'[u] = wsts[u] /\ wobj'[u] = wobj[u] /\ msts'[u] = msts[u]
  BY <1>1, <1>5
<1>7. Queued' /\ que' \in [Obj -> Seq(Task)] /\ sque' \in [Obj -> Seq(Task)]
  <2> DEFINE D == {a}
  <2>1. D \in SUBSET Task /\ D \in SUBSET D OBVIOUS
  <2>2. que' = Without(que, D) /\ sque' = sque /\ \A u \in D : wsts[u] \in QueWaits
    BY <1>1, <1>2, <1>3
  <2>3. /\ \A u \in D \ D : ~InQueue(u)
        /\ \A u \in D : wsts'[u] \in {NONE, "RDV"}
        /\ \A u \in Task \ D : wsts'[u] = wsts[u] /\ wobj'[u] = wobj[u]
    BY <1>6
  <2> HIDE DEF D
  <2> QED BY <1>2, <2>1, <2>2, <2>3, LeaveQueues
<1>8. /\ wsts' \in [Task -> QueWaits \cup SqueWaits \cup {"RDV", NONE}]
      /\ wobj' \in [Task -> Obj \cup {NONE}]
      /\ DOMAIN par' = Task /\ timq' \in SUBSET Task
  BY <1>1, <1>5
<1>9. msts' \in [Task -> SUBSET {"RDY", "WAI", "FIFO", "TMR"}] BY <1>1, <1>5
<1>11. Typed' BY <1>7, <1>8, <1>9 DEF Typed
<1>12. Flagged'
  <2> SUFFICES ASSUME NEW u \in Task
               PROVE  /\ wsts'[u] = NONE => msts'[u] = {"RDY"}
                      /\ wsts'[u] # NONE => "WAI" \in msts'[u] /\ "RDY" \notin msts'[u]
                      /\ u \in timq' <=> "TMR" \in msts'[u]
                      /\ InQueue(u)' => wobj'[u] \in objs' \cap Obj
                      /\ wsts'[u] \in QueWaits => "FIFO" \in msts'[u]
                      /\ wsts'[u] \in SqueWaits =>
                            ("FIFO" \in msts'[u] <=> "TPRI" \notin atr'[wobj'[u]])
    BY DEF Flagged
  <2>1. CASE u = a
    <3>1. ~InQueue(u)' /\ wsts'[u] \notin QueWaits /\ wsts'[u] \notin SqueWaits
      BY <1>6, <2>1, KindsApart DEF InQueue
    <3>2. u \notin timq'
      BY <1>1, <2>1 DEF Timed, Linked, Flagged
    <3> QED BY <1>6, <2>1, <3>1, <3>2
  <2>3. CASE u # a
    <3>1. InQueue(u)' <=> InQueue(u) BY <1>6, <2>3 DEF InQueue
    <3>2. u \in timq' <=> u \in timq BY <1>1, <2>3 DEF Timed
    <3> QED BY <1>2, <1>6, <2>3, <3>1, <3>2 DEF Linked, Flagged
  <2> QED BY <2>1, <2>3
<1> QED BY <1>7, <1>11, <1>12 DEF Linked

(* LEMMA: a call in rendezvous is forwarded into a queue, which is in      *)
(* order of arrival.                                                       *)
LEMMA FwdPorWaitKeeps ==
    ASSUME Linked, NEW c \in Task, NEW o \in Obj, NEW ptn, NEW n,
           FwdPorWait(c, o, ptn, n), ~FwdPri
    PROVE  Linked'
<1>1. /\ "TPRI" \notin atr[o] /\ o \in objs /\ InRdv(c)
      /\ wobj' = [wobj EXCEPT ![c] = o] /\ wsts' = [wsts EXCEPT ![c] = "CAL"]
      /\ UNCHANGED <<que, timq, objs, atr, cpri>>
      /\ DOMAIN par' = DOMAIN par
  BY DEF FwdPorWait, Forwardable, steady
<1>2. msts' = [msts EXCEPT ![c] = @ \cup {"FIFO"}] BY <1>1 DEF FwdPorWait
<1>3. sque' = [sque EXCEPT ![o] = Append(@, c)]
  <2>1. sque' = [sque EXCEPT ![o] = Enq(@, c, cpri, "TPRI" \in atr[o])] BY DEF FwdPorWait
  <2> QED BY <1>1, <2>1 DEF Enq
<1>4. /\ wsts[c] = "RDV" /\ ~InQueue(c) /\ "WAI" \in msts[c] /\ "RDY" \notin msts[c]
      /\ c \in timq <=> "TMR" \in msts[c]
  BY <1>1, RdvFacts
<1>5. /\ que \in [Obj -> Seq(Task)] /\ sque \in [Obj -> Seq(Task)]
      /\ msts \in [Task -> SUBSET {"RDY", "WAI", "FIFO", "TMR"}]
      /\ wsts \in [Task -> QueWaits \cup SqueWaits \cup {"RDV", NONE}]
      /\ wobj \in [Task -> Obj \cup {NONE}]
      /\ timq \in SUBSET Task /\ DOMAIN par = Task
  BY DEF Linked, Typed
<1>6. /\ wsts'[c] = "CAL" /\ wobj'[c] = o /\ msts'[c] = msts[c] \cup {"FIFO"}
      /\ \A u \in Task \ {c} : wsts'[u] = wsts[u] /\ wobj'[u] = wobj[u] /\ msts'[u] = msts[u]
  BY <1>1, <1>2, <1>5
<1>7. Append(sque[o], c) \in Seq(Task) BY <1>5, AppendOnce
<1>8. Typed'
  <2>1. msts' \in [Task -> SUBSET {"RDY", "WAI", "FIFO", "TMR"}] BY <1>2, <1>5
  <2>2. sque' \in [Obj -> Seq(Task)] BY <1>3, <1>5, <1>7
  <2>3. wsts' \in [Task -> QueWaits \cup SqueWaits \cup {"RDV", NONE}]
    BY <1>1, <1>5 DEF SqueWaits
  <2>4. wobj' \in [Task -> Obj \cup {NONE}] BY <1>1, <1>5
  <2> QED BY <1>1, <1>5, <2>1, <2>2, <2>3, <2>4 DEF Typed
<1>9. "CAL" \in SqueWaits /\ "CAL" \notin QueWaits /\ "CAL" # NONE
  BY KindsApart DEF SqueWaits, QueWaits
<1>10. ASSUME NEW x \in Obj
       PROVE  /\ Once(que'[x]) /\ \A u \in Task : u \in ToSet(que'[x]) <=> InQue(u, x)'
              /\ Once(sque'[x]) /\ \A u \in Task : u \in ToSet(sque'[x]) <=> InSque(u, x)'
              /\ "TPRI" \in atr'[x] => Ordered(sque'[x], cpri')
  <2>1. /\ Once(que[x]) /\ \A u \in Task : u \in ToSet(que[x]) <=> InQue(u, x)
        /\ Once(sque[x]) /\ \A u \in Task : u \in ToSet(sque[x]) <=> InSque(u, x)
        /\ "TPRI" \in atr[x] => Ordered(sque[x], cpri)
    BY DEF Linked, Queued
  <2>2. \A u \in Task \ {c} : (InQue(u, x)' <=> InQue(u, x)) /\ (InSque(u, x)' <=> InSque(u, x))
    BY <1>6 DEF InQue, InSque
  <2>3. ~InQue(c, x) /\ ~InSque(c, x) BY <1>4 DEF InQue, InSque, InQueue
  <2>4. ~InQue(c, x)' /\ (InSque(c, x)' <=> x = o) BY <1>6, <1>9 DEF InQue, InSque
  <2>5. CASE x = o
    <3>1. sque'[x] = Append(sque[x], c) BY <1>3, <1>5, <2>5
    <3>2. /\ ToSet(Append(sque[x], c)) = ToSet(sque[x]) \cup {c}
          /\ Once(sque[x]) /\ c \notin ToSet(sque[x]) => Once(Append(sque[x], c))
      BY <1>5, AppendOnce
    <3> QED BY <1>1, <2>1, <2>2, <2>3, <2>4, <2>5, <3>1, <3>2
  <2>6. CASE x # o
    <3>1. sque'[x] = sque[x] BY <1>3, <1>5, <2>6
    <3> QED BY <1>1, <2>1, <2>2, <2>3, <2>4, <2>6, <3>1
  <2> QED BY <2>5, <2>6
<1>11. Queued' BY <1>10 DEF Queued
<1>12. Flagged'
  <2> SUFFICES ASSUME NEW u \in Task
               PROVE  /\ wsts'[u] = NONE => msts'[u] = {"RDY"}
                      /\ wsts'[u] # NONE => "WAI" \in msts'[u] /\ "RDY" \notin msts'[u]
                      /\ u \in timq' <=> "TMR" \in msts'[u]
                      /\ InQueue(u)' => wobj'[u] \in objs' \cap Obj
                      /\ wsts'[u] \in QueWaits => "FIFO" \in msts'[u]
                      /\ wsts'[u] \in SqueWaits =>
                            ("FIFO" \in msts'[u] <=> "TPRI" \notin atr'[wobj'[u]])
    BY DEF Flagged
  <2>1. CASE u = c BY <1>1, <1>4, <1>6, <1>9, <2>1
  <2>3. CASE u # c
    <3>1. InQueue(u)' <=> InQueue(u) BY <1>6, <2>3 DEF InQueue
    <3> QED BY <1>1, <1>6, <2>3, <3>1 DEF Linked, Flagged
  <2> QED BY <2>1, <2>3
<1> QED BY <1>8, <1>11, <1>12 DEF Linked

(* LEMMA: what is known of a call holds for the caller in rendezvous. *)
LEMMA CallFacts ==
    /\ \A o \in Por : MaxRmsz[o] \in Nat
    /\ \A o \in Por : \A p, n : Call(o, p, n) = [ptn |-> p, p4 |-> n, p5 |-> MaxRmsz[o]]
    /\ MsgSz \subseteq Nat
BY RendezvousAssumption DEF Call

LEMMA CalPorBegins ==
    ASSUME Linked, Asking, NEW t \in Task, NEW o \in Por, NEW ptn, NEW timed \in BOOLEAN,
           CalPor(t, o, ptn, timed)
    PROVE  \A W : "RDV" \in W => Begins(W)
<1>1. PICK a \in Task :
          /\ wsts' = [wsts EXCEPT ![a] = NONE, ![t] = "RDV"]
          /\ wobj' = [wobj EXCEPT ![a] = NONE]
          /\ par'  = [par EXCEPT ![a] = NONE, ![t] = Call(o, {}, MaxRmsz[o])]
  BY DEF CalPor
<1>2. DOMAIN wsts = Task /\ DOMAIN wobj = Task /\ DOMAIN par = Task BY DEF Linked, Typed
<1>3. wsts'[t] = "RDV" /\ par'[t] = [ptn |-> {}, p4 |-> MaxRmsz[o], p5 |-> MaxRmsz[o]]
  BY <1>1, <1>2, CallFacts
<1>4. Asks(t)' BY <1>3, CallFacts DEF Asks
<1>5. \A u \in Task \ {t} : Stays(u) \/ wsts'[u] = NONE BY <1>1, <1>2 DEF Stays
<1>6. \A x \in objs \cap objs' : atr'[x] = atr[x] BY DEF CalPor, steady
<1>7. post[t] = NONE BY DEF CalPor, Ready
<1> SUFFICES ASSUME NEW W, "RDV" \in W PROVE Begins(W) OBVIOUS
<1> QED BY <1>3, <1>4, <1>5, <1>6, <1>7 DEF Begins

LEMMA AcpPorBegins ==
    ASSUME Linked, Asking, NEW o \in Por, NEW ptn, AcpPor(o, ptn)
    PROVE  \A W : "RDV" \in W => Begins(W)
<1>1. PICK c \in Task :
          /\ First(sque[o], ptn, c)
          /\ wsts' = [wsts EXCEPT ![c] = "RDV"]
          /\ wobj' = [wobj EXCEPT ![c] = NONE]
          /\ par'  = [par EXCEPT ![c].ptn = {}, ![c].p4 = MaxRmsz[o]]
  BY DEF AcpPor
<1>2. DOMAIN wsts = Task /\ DOMAIN wobj = Task /\ DOMAIN par = Task BY DEF Linked, Typed
<1>3. o \in Obj BY KindsApart
<1>4. InSque(c, o) BY <1>1, <1>3, FirstFacts
<1>5. wsts[c] = "CAL" /\ wobj[c] = o BY <1>3, <1>4, KindFacts DEF InSque
<1>6. par[c] \in [ptn : Patterns, p4 : Nat, p5 : Nat] /\ MaxRmsz[o] <= par[c].p5
  BY <1>5 DEF Asking, Asks
<1>7. wsts'[c] = "RDV" BY <1>1, <1>2
<1>8. par'[c] = [[par[c] EXCEPT !.ptn = {}] EXCEPT !.p4 = MaxRmsz[o]] BY <1>1, <1>2
<1>9. /\ par'[c] \in [ptn : {{}}, p4 : Nat, p5 : Nat]
      /\ par'[c].p4 = MaxRmsz[o] /\ par'[c].p5 = par[c].p5
  BY <1>6, <1>8, CallFacts
<1>10. Asks(c)' BY <1>6, <1>7, <1>9 DEF Asks
<1>11. \A u \in Task \ {c} : Stays(u) BY <1>1, <1>2 DEF Stays
<1>12. \A x \in objs \cap objs' : atr'[x] = atr[x] BY DEF AcpPor, steady
<1>13. wsts[c] # NONE BY <1>5, KindsApart DEF SqueWaits
<1> SUFFICES ASSUME NEW W, "RDV" \in W PROVE Begins(W) OBVIOUS
<1> QED BY <1>7, <1>10, <1>11, <1>12, <1>13 DEF Begins

LEMMA FwdPorBegins ==
    ASSUME Linked, Asking, NEW c \in Task, NEW o \in Por, NEW ptn, NEW n,
           FwdPor(c, o, ptn, n)
    PROVE  \A W : "RDV" \in W => Begins(W)
<1>1. PICK a \in Task :
          /\ First(que[o], ptn, a)
          /\ wsts' = [wsts EXCEPT ![a] = NONE]
          /\ wobj' = [wobj EXCEPT ![a] = NONE]
          /\ par'  = [par EXCEPT ![a] = NONE, ![c].p4 = MaxRmsz[o]]
  BY DEF FwdPor
<1>2. DOMAIN wsts = Task /\ DOMAIN wobj = Task /\ DOMAIN par = Task BY DEF Linked, Typed
<1>3. wsts[c] = "RDV" /\ MaxRmsz[o] <= par[c].p5 /\ ~InQueue(c)
  BY RdvFacts DEF FwdPor, Forwardable
<1>4. o \in Obj BY KindsApart
<1>5. a # c BY <1>1, <1>3, <1>4, FirstFacts
<1>6. par[c] \in [ptn : {{}}, p4 : Nat, p5 : Nat] BY <1>3 DEF Asking, Asks
<1>7. wsts'[c] = "RDV" /\ par'[c] = [par[c] EXCEPT !.p4 = MaxRmsz[o]]
  BY <1>1, <1>2, <1>3, <1>5
<1>8. /\ par'[c] \in [ptn : {{}}, p4 : Nat, p5 : Nat]
      /\ par'[c].p4 = MaxRmsz[o] /\ par'[c].p5 = par[c].p5
  BY <1>6, <1>7, CallFacts
<1>9. Asks(c)' BY <1>3, <1>7, <1>8 DEF Asks
<1>10. \A u \in Task \ {c} : Stays(u) \/ wsts'[u] = NONE BY <1>1, <1>2 DEF Stays
<1>11. \A x \in objs \cap objs' : atr'[x] = atr[x] BY DEF FwdPor, steady
<1>12. wsts[c] # NONE BY <1>3, KindsApart
<1> SUFFICES ASSUME NEW W, "RDV" \in W PROVE Begins(W) OBVIOUS
<1> QED BY <1>7, <1>9, <1>10, <1>11, <1>12 DEF Begins

LEMMA FwdPorWaitBegins ==
    ASSUME Linked, Asking, NEW c \in Task, NEW o \in Por, NEW ptn \in Patterns,
           NEW n \in MsgSz, FwdPorWait(c, o, ptn, n)
    PROVE  /\ Begins({"ACP", "CAL", "RDV"}) /\ \A u \in Task \ {c} : Stays(u)
           /\ wsts'[c] = "CAL" /\ wobj'[c] = o /\ par'[c].ptn = ptn
<1>1. /\ par'  = [par EXCEPT ![c].ptn = ptn, ![c].p4 = n]
      /\ wobj' = [wobj EXCEPT ![c] = o]
      /\ wsts' = [wsts EXCEPT ![c] = "CAL"]
  BY DEF FwdPorWait
<1>2. DOMAIN wsts = Task /\ DOMAIN wobj = Task /\ DOMAIN par = Task BY DEF Linked, Typed
<1>3. wsts[c] = "RDV" /\ MaxRmsz[o] <= par[c].p5
  BY RdvFacts DEF FwdPorWait, Forwardable
<1>6. par[c] \in [ptn : {{}}, p4 : Nat, p5 : Nat] BY <1>3 DEF Asking, Asks
<1>7. /\ wsts'[c] = "CAL" /\ wobj'[c] = o
      /\ par'[c] = [[par[c] EXCEPT !.ptn = ptn] EXCEPT !.p4 = n]
  BY <1>1, <1>2
<1>8. /\ par'[c] \in [ptn : Patterns, p4 : Nat, p5 : Nat]
      /\ par'[c].p5 = par[c].p5 /\ par'[c].ptn = ptn
  BY <1>6, <1>7, CallFacts
<1>9. Asks(c)' BY <1>3, <1>7, <1>8 DEF Asks
<1>10. \A u \in Task \ {c} : Stays(u) BY <1>1, <1>2 DEF Stays
<1>11. \A x \in objs \cap objs' : atr'[x] = atr[x] BY DEF FwdPorWait, steady
<1>12. wsts[c] # NONE BY <1>3, KindsApart
<1> QED BY <1>7, <1>8, <1>9, <1>10, <1>11, <1>12 DEF Begins

-----------------------------------------------------------------------------
(* THE SERVICES                                                            *)

(* LEMMA: what the objects are created with and what is kept beside waits. *)
LEMMA SteadyKept ==
    ASSUME Steady, UNCHANGED steady
    PROVE  Steady'
BY DEF Steady, steady

(* LEMMA: tasks that were found in a queue are woken. *)
LEMMA WakeKeeps ==
    ASSUME Linked, NEW ts \in SUBSET Task, Wake(ts), UNCHANGED <<objs, atr, cpri>>
    PROVE  Linked' /\ \A W : Begins(W)
<1>1. Timed(ts) \in SUBSET ts /\ ts \in SUBSET ts BY DEF Timed
<1>2. Release(ts, ts, Timed(ts)) BY DEF Wake
<1>3. \A t \in ts : (InQueue(t) => t \in ts) /\ (t \in timq => t \in Timed(ts))
  BY DEF Timed, Linked, Flagged
<1>4. \A t \in Task \ ts : InQueue(t) => wobj[t] \in objs' /\ atr'[wobj[t]] = atr[wobj[t]]
  BY DEF Linked, Flagged
<1>5. \A o \in Obj : atr'[o] \in {atr[o], {}} OBVIOUS
<1>6. \A W : Begins(W) BY <1>2, ReleaseBegins
<1> QED BY <1>1, <1>2, <1>3, <1>4, <1>5, <1>6, ReleaseKeeps

(* LEMMA: the first task of a queue is woken. *)
LEMMA WakeHead ==
    ASSUME Linked, NEW o \in Obj, UNCHANGED <<objs, atr, cpri>>,
           \/ que[o] # <<>> /\ Wake({Head(que[o])})
           \/ sque[o] # <<>> /\ Wake({Head(sque[o])})
    PROVE  Linked' /\ \A W : Begins(W)
<1>1. CASE que[o] # <<>> /\ Wake({Head(que[o])})
  <2>1. {Head(que[o])} \in SUBSET Task BY <1>1, HeadFacts
  <2> QED BY <1>1, <2>1, WakeKeeps
<1>2. CASE sque[o] # <<>> /\ Wake({Head(sque[o])})
  <2>1. {Head(sque[o])} \in SUBSET Task BY <1>2, HeadFacts
  <2> QED BY <1>2, <2>1, WakeKeeps
<1> QED BY <1>1, <1>2

(* LEMMA: an object is created with the attributes of its kind. *)
LEMMA CreateKeeps ==
    ASSUME Steady, Linked, NEW o \in Obj, NEW a \in SUBSET ATTR, Create(o, a)
    PROVE  Steady' /\ Linked' /\ \A W : Begins(W)
<1>1. Steady' BY DEF Steady, Create
<1>2. objs \subseteq objs' /\ UNCHANGED <<waiting, cpri>> BY DEF Create
<1>3. \A x \in objs : atr'[x] = atr[x] BY DEF Create
<1>4. \A W : Begins(W) BY <1>2, <1>3, QuietBegins DEF waiting
<1> QED BY <1>1, <1>2, <1>3, <1>4, QuietKeeps

(* LEMMA: an object is deleted, and nobody waits for it any more. *)
LEMMA DeleteKeeps ==
    ASSUME Steady, Linked, NEW o \in Obj, Delete(o)
    PROVE  Steady' /\ Linked' /\ \A W : Begins(W)
<1>1. Steady' BY DEF Steady, Delete
<1>0. Members(que[o]) \cup Members(sque[o]) \in SUBSET Task BY HeadFacts, ToSetFacts
<1>a. PICK ts \in SUBSET Task : ts = Members(que[o]) \cup Members(sque[o]) BY <1>0
<1>2. ts = ToSet(que[o]) \cup ToSet(sque[o]) BY <1>a, HeadFacts
<1>3. Release(ts, ts, Timed(ts)) BY <1>a DEF Delete, Wake
<1>4. Timed(ts) \in SUBSET ts /\ ts \in SUBSET ts BY DEF Timed
<1>5. \A t \in ts : (InQueue(t) => t \in ts) /\ (t \in timq => t \in Timed(ts))
  BY <1>2 DEF Timed, Linked, Flagged
<1>6. \A t \in Task : InQueue(t) /\ wobj[t] = o => t \in ts
  BY <1>2 DEF InQueue, InQue, InSque, Linked, Queued
<1>7. /\ objs' = objs \ {o} /\ cpri' = cpri /\ atr \in [Obj -> SUBSET ATTR]
      /\ atr' = [atr EXCEPT ![o] = {}]
  BY DEF Delete, Steady
<1>8. \A t \in Task \ ts : InQueue(t) => wobj[t] \in objs' /\ atr'[wobj[t]] = atr[wobj[t]]
  BY <1>6, <1>7 DEF Linked, Flagged
<1>9. \A x \in Obj : atr'[x] \in {atr[x], {}} BY <1>7
<1>10. Linked' BY <1>3, <1>4, <1>5, <1>7, <1>8, <1>9, ReleaseKeeps
<1>11. \A x \in objs \cap objs' : atr'[x] = atr[x] BY <1>7, WaitingAssumption DEF Steady
<1>12. \A W : Begins(W) BY <1>3, <1>11, ReleaseBegins
<1> QED BY <1>1, <1>10, <1>12

(* LEMMA: nothing happens to a wait. *)
LEMMA NothingMoves ==
    ASSUME Linked, UNCHANGED <<waiting, objs, atr, cpri>>
    PROVE  Linked' /\ \A W : Begins(W)
<1>1. UNCHANGED <<wsts, wobj, par>> BY DEF waiting
<1> QED BY <1>1, QuietKeeps, QuietBegins

(* LEMMA: a ready task waits, and all else is as it was. *)
LEMMA WaitBegins ==
    ASSUME Steady, Linked, NEW t \in Task, Ready(t), NEW o \in objs,
           NEW why \in QueWaits \cup SqueWaits, NEW p, NEW timed \in BOOLEAN,
           Block(t, o, why, p, timed), UNCHANGED <<objs, atr, cpri>>
    PROVE  /\ Linked' /\ wsts'[t] = why /\ wobj'[t] = o /\ par'[t] = p
           /\ \A W : why \in W /\ Asks(t)' => Begins(W)
<1>1. cpri \in [Task -> Nat] BY WaitingAssumption DEF Steady
<1>2. o \in Obj BY WaitingAssumption DEF Steady
<1>3. Linked' BY <1>1, <1>2, BlockKeeps DEF Ready
<1>4. post[t] = NONE BY DEF Ready
<1> QED BY <1>3, <1>4, BlockBegins

(* LEMMA: timeouts, rel_wai, ter_tsk and chg_pri. *)
LEMMA TaskStep ==
    ASSUME Steady, Linked, Asking, TaskNext
    PROVE  Steady' /\ Linked' /\ Begins({})
<1>1. PICK t \in Task : \/ TimeOut(t) \/ RelWai(t) \/ TerTsk(t)
                        \/ \E p \in 1..MaxPri : ChgPri(t, p)
  BY DEF TaskNext
<1>2. {t} \in SUBSET Task /\ Timed({t}) \in SUBSET {t} BY DEF Timed
<1>3. InQueue(t) => Waits(t) /\ wsts[t] # "RDV"
  <2>1. InQueue(t) => wsts[t] # NONE /\ wsts[t] # "RDV"
    BY KindsApart DEF InQueue, QueWaits, SqueWaits
  <2> QED BY <2>1 DEF Linked, Flagged, Waits
<1>4. \A u \in Task \ {t} : InQueue(u) => wobj[u] \in objs BY DEF Linked, Flagged
<1>5. CASE TimeOut(t)
  <2>1. PICK deq \in SUBSET {t} : deq = (IF Waits(t) /\ wsts[t] # "RDV" THEN {t} ELSE {})
    OBVIOUS
  <2>2. Release({t}, deq, {t}) /\ UNCHANGED <<ids, objs, atr, cpri, chk>>
    BY <1>5, <2>1 DEF TimeOut
  <2>3. InQueue(t) => t \in deq BY <1>3, <2>1
  <2>4. Linked' /\ Begins({}) BY <1>2, <1>4, <2>2, <2>3, ReleaseKeeps, ReleaseBegins
  <2>5. wobj[t] \in Obj \cup {NONE} BY DEF Linked, Typed
  <2>6. post' \in [Task -> Obj \cup {NONE}] /\ owed' \in SUBSET Obj
    BY <1>5, <2>5 DEF TimeOut, Steady
  <2>7. Steady' BY <2>2, <2>6 DEF Steady
  <2> QED BY <2>4, <2>7
<1>6. CASE RelWai(t)
  <2>1. PICK deq \in SUBSET {t} : deq = (IF wsts[t] # "RDV" THEN {t} ELSE {})
    OBVIOUS
  <2>2. Release({t}, deq, Timed({t})) /\ UNCHANGED <<ids, objs, atr, cpri, post, owed>>
    BY <1>6, <2>1 DEF RelWai
  <2>3. InQueue(t) => t \in deq BY <1>3, <2>1
  <2>4. t \in timq => t \in Timed({t}) BY DEF Timed, Linked, Flagged
  <2>5. Linked' /\ Begins({}) BY <1>2, <1>4, <2>2, <2>3, <2>4, ReleaseKeeps, ReleaseBegins
  <2>6. wobj[t] \in Obj \cup {NONE} BY DEF Linked, Typed
  <2>7. chk' \in Obj \cup {NONE} BY <1>6, <2>6 DEF RelWai, LookAfter, Steady
  <2>8. Steady' BY <2>2, <2>7 DEF Steady
  <2> QED BY <2>5, <2>8
<1>7. CASE TerTsk(t)
  <2>1. UNCHANGED <<waiting, objs, atr, cpri>> BY <1>7 DEF TerTsk
  <2>2. Linked' /\ Begins({}) BY <2>1, NothingMoves
  <2>3. post[t] \in Obj BY <1>7 DEF TerTsk, Steady
  <2>4. Steady' BY <1>7, <2>3 DEF TerTsk, Steady
  <2> QED BY <2>2, <2>4
<1>8. ASSUME NEW p \in 1..MaxPri, ChgPri(t, p) PROVE Steady' /\ Linked' /\ Begins({})
  <2>1. cpri \in [Task -> Nat] /\ p \in Nat BY WaitingAssumption DEF Steady
  <2>2. Linked' BY <1>8, <2>1, ChgPriKeeps
  <2>3. wobj[t] \in Obj \cup {NONE} BY DEF Linked, Typed
  <2>4. chk' \in Obj \cup {NONE} BY <1>8, <2>3 DEF ChgPri, LookAfter, Steady
  <2>5. cpri' \in [Task -> 1..MaxPri] BY <1>8 DEF ChgPri, Steady
  <2>6. UNCHANGED <<ids, objs, atr, post, owed>> BY <1>8 DEF ChgPri
  <2>7. Steady' BY <2>4, <2>5, <2>6 DEF Steady
  <2>8. Begins({}) BY <1>8, QuietBegins DEF ChgPri
  <2> QED BY <2>2, <2>7, <2>8
<1> QED BY <1>1, <1>5, <1>6, <1>7, <1>8

(* LEMMA: semaphores. *)
LEMMA SemStep ==
    ASSUME Steady, Linked, Asking, SemNext
    PROVE  Steady' /\ Linked' /\ Begins({"SEM"})
<1>1. PICK o \in Sem \cap ids :
         \/ \E a \in SemAtr, n \in 0..MaxSem[o] : CreSem(o, a, n)
         \/ DelSem(o) \/ WaiSem(o) \/ SigSem(o)
         \/ \E t \in Task, timed \in BOOLEAN : WaiSemWait(t, o, timed)
  BY DEF SemNext
<1>2. o \in Obj BY KindsApart
<1>3. ASSUME NEW a \in SemAtr, NEW n, CreSem(o, a, n) PROVE Steady' /\ Linked' /\ Begins({"SEM"})
  <2>1. a \in SUBSET ATTR BY SemaphoreAssumption DEF ATTR
  <2> QED BY <1>2, <1>3, <2>1, CreateKeeps DEF CreSem
<1>4. CASE DelSem(o) BY <1>2, <1>4, DeleteKeeps DEF DelSem
<1>5. CASE WaiSem(o)
  <2>1. UNCHANGED <<waiting, objs, atr, cpri>> /\ UNCHANGED steady BY <1>5 DEF WaiSem, steady
  <2> QED BY <2>1, NothingMoves, SteadyKept
<1>6. CASE SigSem(o)
  <2>1. UNCHANGED <<objs, atr, cpri>> /\ UNCHANGED steady BY <1>6 DEF SigSem, steady
  <2>2. (sque[o] # <<>> /\ Wake({Head(sque[o])})) \/ UNCHANGED waiting BY <1>6 DEF SigSem
  <2> QED BY <1>2, <2>1, <2>2, NothingMoves, WakeHead, SteadyKept
<1>7. ASSUME NEW t \in Task, NEW timed \in BOOLEAN, WaiSemWait(t, o, timed)
      PROVE  Steady' /\ Linked' /\ Begins({"SEM"})
  <2>1. UNCHANGED <<objs, atr, cpri>> /\ UNCHANGED steady BY <1>7 DEF WaiSemWait, steady
  <2>2. Ready(t) /\ o \in objs /\ Block(t, o, "SEM", NONE, timed) BY <1>7 DEF WaiSemWait
  <2>3. "SEM" \in QueWaits \cup SqueWaits BY DEF SqueWaits
  <2>4. Linked' /\ wsts'[t] = "SEM" /\ wobj'[t] = o /\ par'[t] = NONE
    BY <2>1, <2>2, <2>3, WaitBegins
  <2>5. Asks(t)' BY <1>2, <2>4, KindsApart DEF Asks
  <2> QED BY <2>1, <2>2, <2>3, <2>4, <2>5, WaitBegins, SteadyKept
<1> QED BY <1>1, <1>3, <1>4, <1>5, <1>6, <1>7

(* LEMMA: event flags. *)
LEMMA FlgStep ==
    ASSUME Steady, Linked, Asking, FlgNext
    PROVE  Steady' /\ Linked' /\ Begins({"FLG"})
<1>1. PICK o \in Flg \cap ids :
         \/ \E a \in FlgAtr, p \in SUBSET Bit : CreFlg(o, a, p)
         \/ DelFlg(o)
         \/ \E p \in SUBSET Bit : SetFlg(o, p) \/ ClrFlg(o, p)
         \/ \E w \in Wish :
               \/ WaiFlg(o, w)
               \/ \E t \in Task, timed \in BOOLEAN : WaiFlgWait(t, o, w, timed)
  BY DEF FlgNext
<1>2. o \in Obj BY KindsApart
<1>3. ASSUME NEW a \in FlgAtr, NEW p, CreFlg(o, a, p) PROVE Steady' /\ Linked' /\ Begins({"FLG"})
  <2>1. a \in SUBSET ATTR BY EventFlagAssumption DEF ATTR
  <2> QED BY <1>2, <1>3, <2>1, CreateKeeps DEF CreFlg
<1>4. CASE DelFlg(o) BY <1>2, <1>4, DeleteKeeps DEF DelFlg
<1>5. ASSUME NEW p, SetFlg(o, p) PROVE Steady' /\ Linked' /\ Begins({"FLG"})
  <2>1. UNCHANGED <<objs, atr, cpri>> /\ UNCHANGED steady BY <1>5 DEF SetFlg, steady
  <2>2. PICK ptn : ptn = flgptn[o] \cup p OBVIOUS
  <2>3. Wake({sque[o][i] : i \in Served(o, ptn)}) BY <1>5, <2>2 DEF SetFlg
  <2>4. Served(o, ptn) \subseteq 1..Len(sque[o]) BY DEF Served, ServedFirst
  <2>5. sque[o] \in Seq(Task) BY <1>2 DEF Linked, Typed
  <2>6. {sque[o][i] : i \in Served(o, ptn)} \in SUBSET Task BY <2>4, <2>5
  <2> QED BY <2>1, <2>3, <2>6, WakeKeeps, SteadyKept
<1>6. ASSUME NEW p, ClrFlg(o, p) PROVE Steady' /\ Linked' /\ Begins({"FLG"})
  <2>1. UNCHANGED <<waiting, objs, atr, cpri>> /\ UNCHANGED steady BY <1>6 DEF ClrFlg, steady
  <2> QED BY <2>1, NothingMoves, SteadyKept
<1>7. ASSUME NEW w, WaiFlg(o, w) PROVE Steady' /\ Linked' /\ Begins({"FLG"})
  <2>1. UNCHANGED <<waiting, objs, atr, cpri>> /\ UNCHANGED steady BY <1>7 DEF WaiFlg, steady
  <2> QED BY <2>1, NothingMoves, SteadyKept
<1>8. ASSUME NEW w \in Wish, NEW t \in Task, NEW timed \in BOOLEAN, WaiFlgWait(t, o, w, timed)
      PROVE  Steady' /\ Linked' /\ Begins({"FLG"})
  <2>1. UNCHANGED <<objs, atr, cpri>> /\ UNCHANGED steady BY <1>8 DEF WaiFlgWait, steady
  <2>2. Ready(t) /\ o \in objs /\ Block(t, o, "FLG", w, timed) BY <1>8 DEF WaiFlgWait
  <2>3. "FLG" \in QueWaits \cup SqueWaits BY DEF SqueWaits
  <2>4. Linked' /\ wsts'[t] = "FLG" /\ wobj'[t] = o /\ par'[t] = w
    BY <2>1, <2>2, <2>3, WaitBegins
  <2>5. Asks(t)' BY <1>2, <2>4, KindsApart DEF Asks
  <2> QED BY <2>1, <2>2, <2>3, <2>4, <2>5, WaitBegins, SteadyKept
<1> QED BY <1>1, <1>3, <1>4, <1>5, <1>6, <1>7, <1>8

(* LEMMA: data queues. *)
LEMMA DtqStep ==
    ASSUME Steady, Linked, Asking, DtqNext
    PROVE  Steady' /\ Linked' /\ Begins({"SDTQ", "RDTQ"})
<1>1. PICK o \in Dtq \cap ids :
         \/ \E a \in DtqAtr, n \in DtqCnt : CreDtq(o, a, n)
         \/ DelDtq(o) \/ RcvDtq(o)
         \/ \E v \in Data, f \in BOOLEAN : SndDtq(o, v, f)
         \/ \E t \in Task, timed \in BOOLEAN :
               \/ \E v \in Data : SndDtqWait(t, o, v, timed)
               \/ RcvDtqWait(t, o, timed)
  BY DEF DtqNext
<1>2. o \in Obj BY KindsApart
<1>3. ASSUME NEW a \in DtqAtr, NEW n, CreDtq(o, a, n) PROVE Steady' /\ Linked' /\ Begins({"SDTQ", "RDTQ"})
  <2>1. a \in SUBSET ATTR BY DataQueueAssumption DEF ATTR
  <2> QED BY <1>2, <1>3, <2>1, CreateKeeps DEF CreDtq
<1>4. CASE DelDtq(o) BY <1>2, <1>4, DeleteKeeps DEF DelDtq
<1>5. CASE RcvDtq(o)
  <2>1. UNCHANGED <<objs, atr, cpri>> /\ UNCHANGED steady BY <1>5 DEF RcvDtq, steady
  <2>2. (sque[o] # <<>> /\ Wake({Head(sque[o])})) \/ UNCHANGED waiting BY <1>5 DEF RcvDtq
  <2> QED BY <1>2, <2>1, <2>2, NothingMoves, WakeHead, SteadyKept
<1>6. ASSUME NEW v, NEW f, SndDtq(o, v, f) PROVE Steady' /\ Linked' /\ Begins({"SDTQ", "RDTQ"})
  <2>1. UNCHANGED <<objs, atr, cpri>> /\ UNCHANGED steady BY <1>6 DEF SndDtq, steady
  <2>2. (que[o] # <<>> /\ Wake({Head(que[o])})) \/ UNCHANGED waiting BY <1>6 DEF SndDtq
  <2> QED BY <1>2, <2>1, <2>2, NothingMoves, WakeHead, SteadyKept
<1>7. ASSUME NEW t \in Task, NEW timed \in BOOLEAN, NEW v \in Data, SndDtqWait(t, o, v, timed)
      PROVE  Steady' /\ Linked' /\ Begins({"SDTQ", "RDTQ"})
  <2>1. UNCHANGED <<objs, atr, cpri>> /\ UNCHANGED steady BY <1>7 DEF SndDtqWait, steady
  <2>2. Ready(t) /\ o \in objs /\ Block(t, o, "SDTQ", v, timed) BY <1>7 DEF SndDtqWait
  <2>3. "SDTQ" \in QueWaits \cup SqueWaits BY DEF SqueWaits
  <2>4. Linked' /\ wsts'[t] = "SDTQ" /\ wobj'[t] = o /\ par'[t] = v
    BY <2>1, <2>2, <2>3, WaitBegins
  <2>5. Asks(t)' BY <1>2, <2>4, KindsApart DEF Asks
  <2> QED BY <2>1, <2>2, <2>3, <2>4, <2>5, WaitBegins, SteadyKept
<1>8. ASSUME NEW t \in Task, NEW timed \in BOOLEAN, RcvDtqWait(t, o, timed)
      PROVE  Steady' /\ Linked' /\ Begins({"SDTQ", "RDTQ"})
  <2>1. UNCHANGED <<objs, atr, cpri>> /\ UNCHANGED steady BY <1>8 DEF RcvDtqWait, steady
  <2>2. Ready(t) /\ o \in objs /\ Block(t, o, "RDTQ", NONE, timed) BY <1>8 DEF RcvDtqWait
  <2>3. "RDTQ" \in QueWaits \cup SqueWaits BY DEF QueWaits
  <2>4. Linked' /\ wsts'[t] = "RDTQ" /\ wobj'[t] = o /\ par'[t] = NONE
    BY <2>1, <2>2, <2>3, WaitBegins
  <2>5. Asks(t)' BY <1>2, <2>4, KindsApart DEF Asks
  <2> QED BY <2>1, <2>2, <2>3, <2>4, <2>5, WaitBegins, SteadyKept
<1> QED BY <1>1, <1>3, <1>4, <1>5, <1>6, <1>7, <1>8

(* LEMMA: mailboxes. *)
LEMMA MbxStep ==
    ASSUME Steady, Linked, Asking, MbxNext
    PROVE  Steady' /\ Linked' /\ Begins({"MBX"})
<1>1. PICK o \in Mbx \cap ids :
         \/ \E a \in MbxAtr : CreMbx(o, a)
         \/ DelMbx(o) \/ RcvMbx(o)
         \/ \E m \in Msg : SndMbx(o, m)
         \/ \E t \in Task, timed \in BOOLEAN : RcvMbxWait(t, o, timed)
  BY DEF MbxNext
<1>2. o \in Obj BY KindsApart
<1>3. ASSUME NEW a \in MbxAtr, CreMbx(o, a) PROVE Steady' /\ Linked' /\ Begins({"MBX"})
  <2>1. a \in SUBSET ATTR BY MailboxAssumption DEF ATTR
  <2> QED BY <1>2, <1>3, <2>1, CreateKeeps DEF CreMbx
<1>4. CASE DelMbx(o) BY <1>2, <1>4, DeleteKeeps DEF DelMbx
<1>5. CASE RcvMbx(o)
  <2>1. UNCHANGED <<waiting, objs, atr, cpri>> /\ UNCHANGED steady BY <1>5 DEF RcvMbx, steady
  <2> QED BY <2>1, NothingMoves, SteadyKept
<1>6. ASSUME NEW m, SndMbx(o, m) PROVE Steady' /\ Linked' /\ Begins({"MBX"})
  <2>1. UNCHANGED <<objs, atr, cpri>> /\ UNCHANGED steady BY <1>6 DEF SndMbx, steady
  <2>2. (sque[o] # <<>> /\ Wake({Head(sque[o])})) \/ UNCHANGED waiting BY <1>6 DEF SndMbx
  <2> QED BY <1>2, <2>1, <2>2, NothingMoves, WakeHead, SteadyKept
<1>7. ASSUME NEW t \in Task, NEW timed \in BOOLEAN, RcvMbxWait(t, o, timed)
      PROVE  Steady' /\ Linked' /\ Begins({"MBX"})
  <2>1. UNCHANGED <<objs, atr, cpri>> /\ UNCHANGED steady BY <1>7 DEF RcvMbxWait, steady
  <2>2. Ready(t) /\ o \in objs /\ Block(t, o, "MBX", NONE, timed) BY <1>7 DEF RcvMbxWait
  <2>3. "MBX" \in QueWaits \cup SqueWaits BY DEF SqueWaits
  <2>4. Linked' /\ wsts'[t] = "MBX" /\ wobj'[t] = o /\ par'[t] = NONE
    BY <2>1, <2>2, <2>3, WaitBegins
  <2>5. Asks(t)' BY <1>2, <2>4, KindsApart DEF Asks
  <2> QED BY <2>1, <2>2, <2>3, <2>4, <2>5, WaitBegins, SteadyKept
<1> QED BY <1>1, <1>3, <1>4, <1>5, <1>6, <1>7

(* LEMMA: message buffers. *)
LEMMA MbfStep ==
    ASSUME Steady, Linked, Asking, MbfNext
    PROVE  Steady' /\ Linked' /\ Begins({"SMBF", "RMBF"})
<1>1. PICK o \in Mbf \cap ids :
         \/ \E a \in MbfAtr, n \in MbfSz : CreMbf(o, a, n)
         \/ DelMbf(o) \/ RcvMbf(o)
         \/ \E m \in Mail : SndMbf(o, m)
         \/ \E t \in Task, timed \in BOOLEAN :
               \/ \E m \in Mail : SndMbfWait(t, o, m, timed)
               \/ RcvMbfWait(t, o, timed)
  BY DEF MbfNext
<1>2. o \in Obj BY KindsApart
<1>3. ASSUME NEW a \in MbfAtr, NEW n, CreMbf(o, a, n) PROVE Steady' /\ Linked' /\ Begins({"SMBF", "RMBF"})
  <2>1. a \in SUBSET ATTR BY MessageBufferAssumption DEF ATTR
  <2> QED BY <1>2, <1>3, <2>1, CreateKeeps DEF CreMbf
<1>4. CASE DelMbf(o) BY <1>2, <1>4, DeleteKeeps DEF DelMbf
<1>5. CASE RcvMbf(o)
  <2>1. UNCHANGED <<ids, objs, atr, cpri, post>> BY <1>5 DEF RcvMbf
  <2>2. (sque[o] # <<>> /\ Wake({Head(sque[o])})) \/ UNCHANGED waiting BY <1>5 DEF RcvMbf
  <2>3. chk' \in Obj \cup {NONE} /\ owed' \in SUBSET Obj BY <1>2, <1>5 DEF RcvMbf, Steady
  <2>4. Steady' BY <2>1, <2>3 DEF Steady
  <2> QED BY <1>2, <2>1, <2>2, <2>4, NothingMoves, WakeHead
<1>6. ASSUME NEW m, SndMbf(o, m) PROVE Steady' /\ Linked' /\ Begins({"SMBF", "RMBF"})
  <2>1. UNCHANGED <<objs, atr, cpri>> /\ UNCHANGED steady BY <1>6 DEF SndMbf, steady
  <2>2. (que[o] # <<>> /\ Wake({Head(que[o])})) \/ UNCHANGED waiting BY <1>6 DEF SndMbf
  <2> QED BY <1>2, <2>1, <2>2, NothingMoves, WakeHead, SteadyKept
<1>7. ASSUME NEW t \in Task, NEW timed \in BOOLEAN, NEW m \in Mail, SndMbfWait(t, o, m, timed)
      PROVE  Steady' /\ Linked' /\ Begins({"SMBF", "RMBF"})
  <2>1. UNCHANGED <<objs, atr, cpri>> /\ UNCHANGED steady BY <1>7 DEF SndMbfWait, steady
  <2>2. /\ Ready(t) /\ o \in objs /\ Block(t, o, "SMBF", m, timed)
        /\ MailSz[m] <= MaxMsz[o]
    BY <1>7 DEF SndMbfWait
  <2>3. "SMBF" \in QueWaits \cup SqueWaits BY DEF SqueWaits
  <2>4. Linked' /\ wsts'[t] = "SMBF" /\ wobj'[t] = o /\ par'[t] = m
    BY <2>1, <2>2, <2>3, WaitBegins
  <2>5. Asks(t)' BY <1>2, <2>2, <2>4, KindsApart DEF Asks
  <2> QED BY <2>1, <2>2, <2>3, <2>4, <2>5, WaitBegins, SteadyKept
<1>8. ASSUME NEW t \in Task, NEW timed \in BOOLEAN, RcvMbfWait(t, o, timed)
      PROVE  Steady' /\ Linked' /\ Begins({"SMBF", "RMBF"})
  <2>1. UNCHANGED <<objs, atr, cpri>> /\ UNCHANGED steady BY <1>8 DEF RcvMbfWait, steady
  <2>2. Ready(t) /\ o \in objs /\ Block(t, o, "RMBF", NONE, timed) BY <1>8 DEF RcvMbfWait
  <2>3. "RMBF" \in QueWaits \cup SqueWaits BY DEF QueWaits
  <2>4. Linked' /\ wsts'[t] = "RMBF" /\ wobj'[t] = o /\ par'[t] = NONE
    BY <2>1, <2>2, <2>3, WaitBegins
  <2>5. Asks(t)' BY <1>2, <2>4, KindsApart DEF Asks
  <2> QED BY <2>1, <2>2, <2>3, <2>4, <2>5, WaitBegins, SteadyKept
<1> QED BY <1>1, <1>3, <1>4, <1>5, <1>6, <1>7, <1>8

(* LEMMA: rendezvous ports, if no call is forwarded into a queue in order  *)
(* of priority.                                                            *)
LEMMA PorStep ==
    ASSUME Steady, Linked, Asking, ~FwdPri, PorNext
    PROVE  Steady' /\ Linked' /\ Begins({"ACP", "CAL", "RDV"})
<1>1. \A o \in Por : o \in Obj BY KindsApart
<1>2. ASSUME NEW o \in Por, NEW a \in PorAtr[o], CrePor(o, a) PROVE Steady' /\ Linked' /\ Begins({"ACP", "CAL", "RDV"})
  <2>1. a \in SUBSET ATTR BY RendezvousAssumption DEF ATTR
  <2> QED BY <1>1, <1>2, <2>1, CreateKeeps DEF CrePor
<1>3. ASSUME NEW o \in Por, DelPor(o) PROVE Steady' /\ Linked' /\ Begins({"ACP", "CAL", "RDV"})
  BY <1>1, <1>3, DeleteKeeps DEF DelPor
<1>4. ASSUME NEW o \in Por, NEW p, AcpPor(o, p) PROVE Steady' /\ Linked' /\ Begins({"ACP", "CAL", "RDV"})
  <2>1. UNCHANGED steady BY <1>4 DEF AcpPor
  <2> QED BY <1>1, <1>4, <2>1, AcpPorKeeps, AcpPorBegins, SteadyKept
<1>5. ASSUME NEW o \in Por, NEW p, NEW t \in Task, NEW timed \in BOOLEAN, CalPor(t, o, p, timed)
      PROVE  Steady' /\ Linked' /\ Begins({"ACP", "CAL", "RDV"})
  <2>1. UNCHANGED steady BY <1>5 DEF CalPor
  <2> QED BY <1>1, <1>5, <2>1, CalPorKeeps, CalPorBegins, SteadyKept
<1>6. ASSUME NEW o \in Por, NEW p \in Patterns, NEW t \in Task, NEW timed \in BOOLEAN,
             AcpPorWait(t, o, p, timed)
      PROVE  Steady' /\ Linked' /\ Begins({"ACP", "CAL", "RDV"})
  <2>1. UNCHANGED <<objs, atr, cpri>> /\ UNCHANGED steady BY <1>6 DEF AcpPorWait, steady
  <2>2. Ready(t) /\ o \in objs /\ Block(t, o, "ACP", [ptn |-> p], timed)
    BY <1>6 DEF AcpPorWait
  <2>3. "ACP" \in QueWaits \cup SqueWaits BY DEF QueWaits
  <2>4. Linked' /\ wsts'[t] = "ACP" /\ wobj'[t] = o /\ par'[t] = [ptn |-> p]
    BY <2>1, <2>2, <2>3, WaitBegins
  <2>5. Asks(t)' BY <1>2, <2>4, KindsApart DEF Asks
  <2> QED BY <2>1, <2>2, <2>3, <2>4, <2>5, WaitBegins, SteadyKept
<1>7. ASSUME NEW o \in Por, NEW p \in Patterns, NEW t \in Task, NEW timed \in BOOLEAN,
             NEW n \in MsgSz, CalPorWait(t, o, p, n, timed)
      PROVE  Steady' /\ Linked' /\ Begins({"ACP", "CAL", "RDV"})
  <2>1. UNCHANGED <<objs, atr, cpri>> /\ UNCHANGED steady BY <1>7 DEF CalPorWait, steady
  <2>2. Ready(t) /\ o \in objs /\ Block(t, o, "CAL", Call(o, p, n), timed)
    BY <1>7 DEF CalPorWait
  <2>3. "CAL" \in QueWaits \cup SqueWaits BY DEF SqueWaits
  <2>4. Linked' /\ wsts'[t] = "CAL" /\ wobj'[t] = o /\ par'[t] = Call(o, p, n)
    BY <2>1, <2>2, <2>3, WaitBegins
  <2>5. Asks(t)' BY <2>4, CallFacts DEF Asks
  <2> QED BY <2>1, <2>2, <2>3, <2>4, <2>5, WaitBegins, SteadyKept
<1>8. ASSUME NEW o \in Por, NEW p, NEW c \in Task, NEW n, FwdPor(c, o, p, n)
      PROVE  Steady' /\ Linked' /\ Begins({"ACP", "CAL", "RDV"})
  <2>1. UNCHANGED steady BY <1>8 DEF FwdPor
  <2> QED BY <1>1, <1>8, <2>1, FwdPorKeeps, FwdPorBegins, SteadyKept
<1>9. ASSUME NEW o \in Por, NEW p \in Patterns, NEW c \in Task, NEW n \in MsgSz, FwdPorWait(c, o, p, n)
      PROVE  Steady' /\ Linked' /\ Begins({"ACP", "CAL", "RDV"})
  <2>1. UNCHANGED steady BY <1>9 DEF FwdPorWait
  <2> QED BY <1>1, <1>9, <2>1, FwdPorWaitKeeps, FwdPorWaitBegins, SteadyKept
<1>10. ASSUME NEW c \in Task, NEW n, RplRdv(c, n) PROVE Steady' /\ Linked' /\ Begins({"ACP", "CAL", "RDV"})
  <2>1. UNCHANGED steady /\ UNCHANGED <<objs, atr, cpri>> BY <1>10 DEF RplRdv, steady
  <2>2. Release({c}, {}, Timed({c})) /\ InRdv(c) BY <1>10 DEF RplRdv
  <2>3. ~InQueue(c) /\ (c \in timq => c \in Timed({c})) BY <2>2, RdvFacts DEF Timed
  <2>4. {c} \in SUBSET Task /\ {} \in SUBSET {c} /\ Timed({c}) \in SUBSET {c} BY DEF Timed
  <2>5. \A u \in Task \ {c} : InQueue(u) => wobj[u] \in objs' /\ atr'[wobj[u]] = atr[wobj[u]]
    BY <2>1 DEF Linked, Flagged
  <2>6. \A o \in Obj : atr'[o] \in {atr[o], {}} BY <2>1
  <2>7. Begins({"ACP", "CAL", "RDV"}) BY <2>1, <2>2, ReleaseBegins
  <2> QED BY <2>1, <2>2, <2>3, <2>4, <2>5, <2>6, <2>7, ReleaseKeeps, SteadyKept
<1> QED BY <1>2, <1>3, <1>4, <1>5, <1>6, <1>7, <1>8, <1>9, <1>10 DEF PorNext

(* LEMMA: fixed-sized memory pools. *)
LEMMA MpfStep ==
    ASSUME Steady, Linked, Asking, MpfNext
    PROVE  Steady' /\ Linked' /\ Begins({"MPF"})
<1>1. PICK o \in Mpf \cap ids :
         \/ \E a \in MpfAtr : CreMpf(o, a)
         \/ DelMpf(o) \/ GetMpf(o)
         \/ \E b \in lent[o] : RelMpf(o, b)
         \/ \E t \in Task, timed \in BOOLEAN : GetMpfWait(t, o, timed)
  BY DEF MpfNext
<1>2. o \in Obj BY KindsApart
<1>3. ASSUME NEW a \in MpfAtr, CreMpf(o, a) PROVE Steady' /\ Linked' /\ Begins({"MPF"})
  <2>1. a \in SUBSET ATTR BY FixedPoolAssumption DEF ATTR
  <2> QED BY <1>2, <1>3, <2>1, CreateKeeps DEF CreMpf
<1>4. CASE DelMpf(o) BY <1>2, <1>4, DeleteKeeps DEF DelMpf
<1>5. CASE GetMpf(o)
  <2>1. UNCHANGED <<waiting, objs, atr, cpri>> /\ UNCHANGED steady BY <1>5 DEF GetMpf, steady
  <2> QED BY <2>1, NothingMoves, SteadyKept
<1>6. ASSUME NEW b, RelMpf(o, b) PROVE Steady' /\ Linked' /\ Begins({"MPF"})
  <2>1. UNCHANGED <<objs, atr, cpri>> /\ UNCHANGED steady BY <1>6 DEF RelMpf, steady
  <2>2. (sque[o] # <<>> /\ Wake({Head(sque[o])})) \/ UNCHANGED waiting BY <1>6 DEF RelMpf
  <2> QED BY <1>2, <2>1, <2>2, NothingMoves, WakeHead, SteadyKept
<1>7. ASSUME NEW t \in Task, NEW timed \in BOOLEAN, GetMpfWait(t, o, timed)
      PROVE  Steady' /\ Linked' /\ Begins({"MPF"})
  <2>1. UNCHANGED <<objs, atr, cpri>> /\ UNCHANGED steady BY <1>7 DEF GetMpfWait, steady
  <2>2. Ready(t) /\ o \in objs /\ Block(t, o, "MPF", NONE, timed) BY <1>7 DEF GetMpfWait
  <2>3. "MPF" \in QueWaits \cup SqueWaits BY DEF SqueWaits
  <2>4. Linked' /\ wsts'[t] = "MPF" /\ wobj'[t] = o /\ par'[t] = NONE
    BY <2>1, <2>2, <2>3, WaitBegins
  <2>5. Asks(t)' BY <1>2, <2>4, KindsApart DEF Asks
  <2> QED BY <2>1, <2>2, <2>3, <2>4, <2>5, WaitBegins, SteadyKept
<1> QED BY <1>1, <1>3, <1>4, <1>5, <1>6, <1>7

(* LEMMA: variable-sized memory pools. *)
LEMMA MplStep ==
    ASSUME Steady, Linked, Asking, MplNext
    PROVE  Steady' /\ Linked' /\ Begins({"MPL"})
<1>1. \A o \in Mpl : o \in Obj BY KindsApart
<1>2. ASSUME NEW o \in Mpl, NEW a \in MplAtr, NEW n, CreMpl(o, a, n) PROVE Steady' /\ Linked' /\ Begins({"MPL"})
  <2>1. a \in SUBSET ATTR BY MemPoolAssumption DEF ATTR
  <2> QED BY <1>1, <1>2, <2>1, CreateKeeps DEF CreMpl
<1>3. ASSUME NEW o \in Mpl, DelMpl(o) PROVE Steady' /\ Linked' /\ Begins({"MPL"})
  BY <1>1, <1>3, DeleteKeeps DEF DelMpl
<1>4. ASSUME NEW o \in Mpl, NEW n, GetMpl(o, n) PROVE Steady' /\ Linked' /\ Begins({"MPL"})
  <2>1. UNCHANGED <<waiting, objs, atr, cpri>> /\ UNCHANGED steady BY <1>4 DEF GetMpl, steady
  <2> QED BY <2>1, NothingMoves, SteadyKept
<1>5. ASSUME NEW o \in Mpl, NEW n \in BlkSz, NEW t \in Task, NEW timed \in BOOLEAN,
             GetMplWait(t, o, n, timed)
      PROVE  Steady' /\ Linked' /\ Begins({"MPL"})
  <2>1. UNCHANGED <<ids, objs, atr, cpri, chk, post>> BY <1>5 DEF GetMplWait
  <2>2. Ready(t) /\ o \in objs /\ Block(t, o, "MPL", n, timed) BY <1>5 DEF GetMplWait
  <2>3. "MPL" \in QueWaits \cup SqueWaits BY DEF SqueWaits
  <2>4. owed' \in SUBSET Obj BY <1>1, <1>5 DEF GetMplWait, Steady
  <2>5. Steady' BY <2>1, <2>4 DEF Steady
  <2>6. Linked' /\ wsts'[t] = "MPL" /\ wobj'[t] = o /\ par'[t] = n
    BY <2>1, <2>2, <2>3, WaitBegins
  <2>7. Asks(t)' BY <2>6 DEF Asks
  <2> QED BY <2>1, <2>2, <2>3, <2>5, <2>6, <2>7, WaitBegins
<1>6. ASSUME NEW o \in Mpl, NEW b, RelMpl(o, b) PROVE Steady' /\ Linked' /\ Begins({"MPL"})
  <2>1. UNCHANGED <<waiting, objs, atr, cpri>> /\ UNCHANGED <<ids, post, owed>> /\ chk' = o
    BY <1>6 DEF RelMpl
  <2>2. Steady' BY <1>1, <2>1 DEF Steady
  <2> QED BY <2>1, <2>2, NothingMoves
<1>7. ASSUME NEW t \in Task, LookMpl(t) PROVE Steady' /\ Linked' /\ Begins({"MPL"})
  <2>1. UNCHANGED <<ids, objs, atr, cpri, chk>> /\ UNCHANGED <<objs, atr, cpri>>
    BY <1>7 DEF LookMpl
  <2>2. post[t] \in Obj BY <1>1, <1>7 DEF LookMpl
  <2>3. (sque[post[t]] # <<>> /\ Wake({Head(sque[post[t]])})) \/ UNCHANGED waiting
    BY <1>7 DEF LookMpl, ServeFirst, ServesNobody, Serves
  <2>4. owed' \in SUBSET Obj BY <1>7 DEF LookMpl, ServesNobody, Steady
  <2>5. post' \in [Task -> Obj \cup {NONE}] BY <1>7 DEF LookMpl, Steady
  <2>6. Steady' BY <2>1, <2>4, <2>5 DEF Steady
  <2>7. Linked' /\ Begins({}) BY <2>1, <2>2, <2>3, NothingMoves, WakeHead
  <2> QED BY <2>6, <2>7 DEF Begins
<1> QED BY <1>2, <1>3, <1>4, <1>5, <1>6, <1>7 DEF MplNext

(* LEMMA: the kernel serves the tasks of a queue. *)
LEMMA ServingStep ==
    ASSUME Steady, Linked, Asking, Serving
    PROVE  Steady' /\ Linked' /\ Begins({})
<1>1. ASSUME NEW o \in Mpl, ChkMpl(o) PROVE Steady' /\ Linked' /\ Begins({})
  <2>1. UNCHANGED <<ids, objs, atr, cpri, post>> /\ UNCHANGED <<objs, atr, cpri>>
    BY <1>1 DEF ChkMpl
  <2>2. (sque[o] # <<>> /\ Wake({Head(sque[o])})) \/ UNCHANGED waiting
    BY <1>1 DEF ChkMpl, ServeFirst, ServesNobody, Serves
  <2>3. chk' \in Obj \cup {NONE} /\ owed' \in SUBSET Obj BY <1>1 DEF ChkMpl, ServesNobody, Steady
  <2>4. Steady' BY <2>1, <2>3 DEF Steady
  <2>5. o \in Obj BY KindsApart
  <2> QED BY <2>1, <2>2, <2>4, <2>5, NothingMoves, WakeHead
<1>2. ASSUME NEW o \in Mbf, ChkMbf(o) PROVE Steady' /\ Linked' /\ Begins({})
  <2>1. UNCHANGED <<ids, objs, atr, cpri, post>> /\ UNCHANGED <<objs, atr, cpri>>
    BY <1>2 DEF ChkMbf
  <2>2. (sque[o] # <<>> /\ Wake({Head(sque[o])})) \/ UNCHANGED waiting BY <1>2 DEF ChkMbf
  <2>3. chk' \in Obj \cup {NONE} /\ owed' \in SUBSET Obj BY <1>2 DEF ChkMbf, Steady
  <2>4. Steady' BY <2>1, <2>3 DEF Steady
  <2>5. o \in Obj BY KindsApart
  <2> QED BY <2>1, <2>2, <2>4, <2>5, NothingMoves, WakeHead
<1> QED BY <1>1, <1>2 DEF Serving

(* LEMMA: at first nobody waits. *)
LEMMA WaitsInit ==
    ASSUME Init
    PROVE  Steady /\ Linked /\ Asking
<1>1. WInit BY DEF Init
<1>2. MaxPri \in 1..MaxPri BY WaitingAssumption
<1>3. Steady BY <1>1, <1>2 DEF WInit, Steady
<1>4. <<>> \in Seq(Task) OBVIOUS
<1>5. Typed BY <1>1, <1>4 DEF WInit, Typed
<1>6. \A t \in Task : /\ wsts[t] = NONE /\ msts[t] = {"RDY"}
                      /\ wsts[t] \notin QueWaits /\ wsts[t] \notin SqueWaits
  BY <1>1, KindsApart DEF WInit
<1>7. Flagged BY <1>1, <1>6 DEF WInit, Flagged, InQueue
<1>8. ToSet(<<>>) = {} /\ Once(<<>>) BY <1>4, ToSetFacts
<1>9. \A o \in Obj : que[o] = <<>> /\ sque[o] = <<>> /\ atr[o] = {} BY <1>1 DEF WInit
<1>10. Queued BY <1>6, <1>8, <1>9 DEF Queued, InQue, InSque
<1>11. Asking BY <1>6, KindsApart DEF Asking, Asks, QueWaits, SqueWaits
<1> QED BY <1>3, <1>5, <1>7, <1>10, <1>11 DEF Linked

(* LEMMA: every step keeps the queues and what is asked for, and says      *)
(* which waits begin.                                                      *)
LEMMA AsksKept ==
    ASSUME Asking, NEW W, Begins(W)
    PROVE  Asking'
<1>1. \A t \in Task : Stays(t) => Asks(t)' BY DEF Asking, Asks, Stays
<1>2. \A t \in Task : wsts'[t] = NONE => Asks(t)'
  BY KindsApart DEF Asks, QueWaits, SqueWaits
<1> QED BY <1>1, <1>2 DEF Asking, Begins

LEMMA WaitsStep ==
    ASSUME Steady, Linked, Asking, ~FwdPri, [Next]_vars
    PROVE  Steady' /\ Linked' /\ Asking'
<1>1. CASE UNCHANGED apart
  <2>1. UNCHANGED steady /\ UNCHANGED <<waiting, objs, atr, cpri>> BY <1>1 DEF apart, wvars, steady
  <2> QED BY <2>1, NothingMoves, SteadyKept, AsksKept
<1>2. CASE Serving BY <1>2, ServingStep, AsksKept
<1>3. CASE Service
  <2>1. \/ TaskNext \/ SemNext \/ FlgNext \/ DtqNext \/ MbxNext \/ MbfNext \/ PorNext
        \/ MpfNext \/ MplNext
    BY <1>3 DEF Service
  <2>2. Steady' /\ Linked' /\ \E W : Begins(W)
    BY <2>1, TaskStep, SemStep, FlgStep, DtqStep, MbxStep, MbfStep, PorStep, MpfStep, MplStep
  <2> QED BY <2>2, AsksKept
<1> QED BY <1>1, <1>2, <1>3, StepCases

(* THEOREM: if no call is forwarded into a queue in order of priority (the *)
(* run rdv_forward shows what happens otherwise), the queues and the flags *)
(* of the tasks always match, for every kind of object: a task is in the   *)
(* queue that its state names, once, in its place, and in the timer queue  *)
(* exactly if its flags say so.                                            *)
THEOREM QueuesAlwaysMatchWaits ==
    ASSUME FwdPri = FALSE
    PROVE  Spec => []QueuesMatchWaits
<1>1. Init => Steady /\ Linked /\ Asking BY WaitsInit
<1>2. Steady /\ Linked /\ Asking /\ [Next]_vars => Steady' /\ Linked' /\ Asking'
  BY WaitsStep
<1>3. Steady /\ Linked => QueuesMatchWaits
  <2> SUFFICES ASSUME Steady, Linked PROVE QueuesMatchWaits OBVIOUS
  <2>1. ASSUME NEW o \in Obj
        PROVE  /\ \A i \in 1..Len(que[o]) :
                     /\ Waits(que[o][i]) /\ wsts[que[o][i]] \in QueWaits
                     /\ wobj[que[o][i]] = o
               /\ \A i \in 1..Len(sque[o]) :
                     /\ Waits(sque[o][i]) /\ wsts[sque[o][i]] \in SqueWaits
                     /\ wobj[sque[o][i]] = o
               /\ \A i, j \in 1..Len(que[o])  : i # j => que[o][i] # que[o][j]
               /\ \A i, j \in 1..Len(sque[o]) : i # j => sque[o][i] # sque[o][j]
               /\ "TPRI" \in atr[o] => Order(sque[o])
               /\ o \notin objs => que[o] = <<>> /\ sque[o] = <<>>
    <3>1. que[o] \in Seq(Task) /\ sque[o] \in Seq(Task) BY DEF Linked, Typed
    <3>2. \A i \in 1..Len(que[o]) : que[o][i] \in Task /\ InQue(que[o][i], o)
      BY <3>1, ToSetFacts DEF Linked, Queued
    <3>3. \A i \in 1..Len(sque[o]) : sque[o][i] \in Task /\ InSque(sque[o][i], o)
      BY <3>1, ToSetFacts DEF Linked, Queued
    <3>4. \A t \in Task : InQue(t, o) \/ InSque(t, o) => Waits(t) /\ o \in objs
      BY KindsApart DEF InQue, InSque, InQueue, Waits, Linked, Flagged
    <3>5. o \notin objs => que[o] = <<>> /\ sque[o] = <<>> BY <3>4, NobodyWaits
    <3>6. Once(que[o]) /\ Once(sque[o]) /\ ("TPRI" \in atr[o] => Ordered(sque[o], cpri))
      BY DEF Linked, Queued
    <3> QED BY <3>2, <3>3, <3>4, <3>5, <3>6 DEF InQue, InSque, Once, Ordered, Order
  <2>2. ASSUME NEW t \in Task
        PROVE  /\ Waits(t) <=> wsts[t] # NONE
               /\ wsts[t] \in QueWaits  => t \in Members(que[wobj[t]])
               /\ wsts[t] \in SqueWaits => t \in Members(sque[wobj[t]])
               /\ t \in timq <=> "TMR" \in msts[t]
               /\ "RDY" \in msts[t] => msts[t] = {"RDY"}
    <3>1. wsts[t] \in QueWaits \/ wsts[t] \in SqueWaits => wobj[t] \in Obj
      BY DEF Linked, Flagged, InQueue
    <3>2. wsts[t] \in QueWaits => t \in Members(que[wobj[t]])
      BY <3>1, HeadFacts DEF Linked, Queued, InQue
    <3>3. wsts[t] \in SqueWaits => t \in Members(sque[wobj[t]])
      BY <3>1, HeadFacts DEF Linked, Queued, InSque
    <3> QED BY <3>2, <3>3 DEF Linked, Flagged, Waits
  <2> QED BY <2>1, <2>2 DEF QueuesMatchWaits
<1> QED BY <1>1, <1>2, <1>3, PTL DEF Spec

(* THEOREM: a reply that is accepted fits the buffer the caller gave at    *)
(* the first port, wherever the call was forwarded.                        *)
THEOREM RepliesAlwaysFit ==
    ASSUME FwdPri = FALSE
    PROVE  Spec => []ReplyFits
<1>1. Init => Steady /\ Linked /\ Asking BY WaitsInit
<1>2. Steady /\ Linked /\ Asking /\ [Next]_vars => Steady' /\ Linked' /\ Asking'
  BY WaitsStep
<1>3. Asking => ReplyFits BY DEF Asking, Asks, ReplyFits, InRdv
<1> QED BY <1>1, <1>2, <1>3, PTL DEF Spec

-----------------------------------------------------------------------------
(* NOBODY WAITS FOR WHAT IS THERE                                          *)

(* LEMMA: where a task waits. *)
LEMMA WaitsWhere ==
    ASSUME Linked, NEW t \in Task
    PROVE  /\ wsts[t] \in SqueWaits => /\ wobj[t] \in objs \cap Obj /\ InSque(t, wobj[t])
                                       /\ sque[wobj[t]] # <<>>
                                       /\ t \in ToSet(sque[wobj[t]])
           /\ wsts[t] \in QueWaits => /\ wobj[t] \in objs \cap Obj /\ InQue(t, wobj[t])
                                      /\ que[wobj[t]] # <<>>
                                      /\ t \in ToSet(que[wobj[t]])
<1>1. CASE wsts[t] \in SqueWaits
  <2>1. wobj[t] \in objs \cap Obj /\ InSque(t, wobj[t])
    BY <1>1 DEF Linked, Flagged, InQueue, InSque
  <2>2. sque[wobj[t]] # <<>> /\ t \in ToSet(sque[wobj[t]])
    BY <2>1, HeadFacts DEF Linked, Queued
  <2>3. wsts[t] \notin QueWaits BY <1>1 DEF QueWaits, SqueWaits
  <2> QED BY <2>1, <2>2, <2>3
<1>2. CASE wsts[t] \in QueWaits
  <2>1. wobj[t] \in objs \cap Obj /\ InQue(t, wobj[t])
    BY <1>2 DEF Linked, Flagged, InQueue, InQue
  <2>2. que[wobj[t]] # <<>> /\ t \in ToSet(que[wobj[t]])
    BY <2>1, HeadFacts DEF Linked, Queued
  <2>3. wsts[t] \notin SqueWaits BY <1>2 DEF QueWaits, SqueWaits
  <2> QED BY <2>1, <2>2, <2>3
<1> QED BY <1>1, <1>2

LEMMA WaitsWhereNext ==
    ASSUME Linked', NEW t \in Task, wsts'[t] \in SqueWaits \cup QueWaits
    PROVE  wobj'[t] \in objs'
BY DEF Linked, Flagged, InQueue

(* LEMMA: a task waits on after a step in which no wait begins, where it   *)
(* waited before.                                                          *)
LEMMA WaitsOn ==
    ASSUME Linked, Linked', NEW W, Begins(W), NEW t \in Task, wsts'[t] \notin W,
           wsts'[t] \in SqueWaits \cup QueWaits
    PROVE  Stays(t) /\ wsts[t] = wsts'[t] /\ wobj[t] \in objs \cap objs'
<1>1. wsts'[t] # NONE BY KindsApart
<1>2. Stays(t) BY <1>1 DEF Begins
<1>3. wsts[t] = wsts'[t] /\ wobj[t] = wobj'[t] BY <1>2 DEF Stays
<1> QED BY <1>2, <1>3, WaitsWhere, WaitsWhereNext

(* Semaphores *)
SemInv == SemTypeOK /\ SemIdle

LEMMA SemEnds ==
    ASSUME Linked, Linked', NEW W, Begins(W), "SEM" \notin W, SemIdle,
           \A x \in objs \cap objs' : sque[x] # <<>> => semcnt'[x] = semcnt[x]
    PROVE  SemIdle'
<1> SUFFICES ASSUME NEW t \in Task, wsts'[t] = "SEM" PROVE semcnt'[wobj'[t]] = 0
  BY DEF SemIdle
<1>1. "SEM" \in SqueWaits BY DEF SqueWaits
<1>2. Stays(t) /\ wsts[t] = "SEM" /\ wobj[t] \in objs \cap objs' BY <1>1, WaitsOn
<1>3. sque[wobj[t]] # <<>> BY <1>1, <1>2, WaitsWhere
<1> QED BY <1>2, <1>3 DEF Stays, SemIdle

LEMMA SemHolds ==
    ASSUME Steady, Linked, Asking, Linked', SemInv, SemNext
    PROVE  SemInv'
<1>1. PICK o \in Sem \cap ids :
         \/ \E a \in SemAtr, n \in 0..MaxSem[o] : CreSem(o, a, n)
         \/ DelSem(o) \/ WaiSem(o) \/ SigSem(o)
         \/ \E t \in Task, timed \in BOOLEAN : WaiSemWait(t, o, timed)
  BY DEF SemNext
<1>2. o \in Obj BY KindsApart
<1>3. /\ semcnt \in [Sem -> Nat] /\ \A x \in Sem : semcnt[x] <= MaxSem[x]
      /\ SemIdle
  BY DEF SemInv, SemTypeOK
<1>a. MaxSem[o] \in Nat BY SemaphoreAssumption
<1>4. \A t \in Task : wsts[t] = "SEM" => semcnt[wobj[t]] = 0 BY <1>3 DEF SemIdle
<1>5. sque[o] # <<>> => semcnt[o] = 0
  <2>1. sque[o] # <<>> => Head(sque[o]) \in Task /\ InSque(Head(sque[o]), o)
    BY <1>2, HeadFacts
  <2> QED BY <1>2, <1>4, <2>1, KindFacts DEF InSque
<1>6. ASSUME NEW a \in SemAtr, NEW n \in 0..MaxSem[o], CreSem(o, a, n) PROVE SemInv'
  <2>1. a \in SUBSET ATTR BY SemaphoreAssumption DEF ATTR
  <2>2. Begins({}) BY <1>2, <1>6, <2>1, CreateKeeps DEF CreSem
  <2>3. semcnt' = [semcnt EXCEPT ![o] = n] /\ o \notin objs /\ n \in Nat /\ n <= MaxSem[o]
    BY <1>6, <1>a DEF CreSem, Create
  <2>4. SemTypeOK' BY <1>3, <2>3 DEF SemTypeOK
  <2>5. \A x \in objs \cap objs' : sque[x] # <<>> => semcnt'[x] = semcnt[x] BY <1>3, <2>3
  <2> QED BY <1>3, <2>2, <2>4, <2>5, SemEnds DEF SemInv
<1>7. CASE DelSem(o)
  <2>2. Begins({}) BY <1>2, <1>7, DeleteKeeps DEF DelSem
  <2>3. semcnt' = [semcnt EXCEPT ![o] = 0] /\ o \notin objs' BY <1>7 DEF DelSem, Delete
  <2>4. SemTypeOK' BY <1>3, <1>a, <2>3 DEF SemTypeOK
  <2>5. \A x \in objs \cap objs' : sque[x] # <<>> => semcnt'[x] = semcnt[x] BY <1>3, <2>3
  <2> QED BY <1>3, <2>2, <2>4, <2>5, SemEnds DEF SemInv
<1>8. CASE WaiSem(o)
  <2>2. Begins({}) BY <1>8, NothingMoves DEF WaiSem, steady
  <2>3. semcnt' = [semcnt EXCEPT ![o] = @ - 1] /\ semcnt[o] > 0 BY <1>8 DEF WaiSem
  <2>4. SemTypeOK' BY <1>3, <1>a, <2>3 DEF SemTypeOK
  <2>5. \A x \in objs \cap objs' : sque[x] # <<>> => semcnt'[x] = semcnt[x]
    BY <1>3, <1>5, <2>3
  <2> QED BY <1>3, <2>2, <2>4, <2>5, SemEnds DEF SemInv
<1>9. CASE SigSem(o)
  <2>1. UNCHANGED <<objs, atr, cpri>> BY <1>9 DEF SigSem, steady
  <2>2. CASE sque[o] # <<>> /\ Wake({Head(sque[o])}) /\ UNCHANGED semcnt
    <3>1. Begins({}) BY <1>2, <2>1, <2>2, WakeHead
    <3>2. SemTypeOK' BY <1>3, <2>2 DEF SemTypeOK
    <3>3. SemIdle' BY <1>3, <2>2, <3>1, SemEnds
    <3> QED BY <3>2, <3>3 DEF SemInv
  <2>3. CASE /\ sque[o] = <<>> /\ semcnt[o] < MaxSem[o]
             /\ semcnt' = [semcnt EXCEPT ![o] = @ + 1] /\ UNCHANGED waiting
    <3>1. Begins({}) BY <2>1, <2>3, NothingMoves
    <3>2. SemTypeOK' BY <1>3, <1>a, <2>3 DEF SemTypeOK
    <3>3. \A x \in objs \cap objs' : sque[x] # <<>> => semcnt'[x] = semcnt[x] BY <1>3, <2>3
    <3> QED BY <1>3, <3>1, <3>2, <3>3, SemEnds DEF SemInv
  <2> QED BY <1>9, <2>2, <2>3 DEF SigSem
<1>10. ASSUME NEW t \in Task, NEW timed \in BOOLEAN, WaiSemWait(t, o, timed) PROVE SemInv'
  <2>1. /\ Block(t, o, "SEM", NONE, timed) /\ UNCHANGED <<objs, atr, cpri>>
        /\ semcnt[o] = 0 /\ semcnt' = semcnt
    BY <1>10 DEF WaiSemWait, steady
  <2>2. wobj'[t] = o /\ \A u \in Task \ {t} : Stays(u) BY <2>1, BlockBegins
  <2>3. SemIdle' BY <1>4, <2>1, <2>2 DEF SemIdle, Stays
  <2>4. SemTypeOK' BY <1>3, <2>1 DEF SemTypeOK
  <2> QED BY <2>3, <2>4 DEF SemInv
<1> QED BY <1>1, <1>6, <1>7, <1>8, <1>9, <1>10

(* Fixed-sized memory pools *)
MpfInv == DOMAIN free = Mpf /\ MpfIdle

LEMMA MpfEnds ==
    ASSUME Linked, Asking, Linked', NEW W, Begins(W), "MPF" \notin W, MpfIdle,
           \A x \in Mpf : x \in objs \cap objs' /\ sque[x] # <<>> => free'[x] = free[x]
    PROVE  MpfIdle'
<1> SUFFICES ASSUME NEW t \in Task, wsts'[t] = "MPF" PROVE free'[wobj'[t]] = <<>>
  BY DEF MpfIdle
<1>1. "MPF" \in SqueWaits BY DEF SqueWaits
<1>2. Stays(t) /\ wsts[t] = "MPF" /\ wobj[t] \in objs \cap objs' BY <1>1, WaitsOn
<1>3. sque[wobj[t]] # <<>> BY <1>1, <1>2, WaitsWhere
<1>4. wobj[t] \in Mpf BY <1>2 DEF Asking, Asks
<1> QED BY <1>2, <1>3, <1>4 DEF Stays, MpfIdle

LEMMA MpfHolds ==
    ASSUME Steady, Linked, Asking, Linked', MpfInv, MpfNext
    PROVE  MpfInv'
<1>1. PICK o \in Mpf \cap ids :
         \/ \E a \in MpfAtr : CreMpf(o, a)
         \/ DelMpf(o) \/ GetMpf(o)
         \/ \E b \in lent[o] : RelMpf(o, b)
         \/ \E t \in Task, timed \in BOOLEAN : GetMpfWait(t, o, timed)
  BY DEF MpfNext
<1>2. o \in Obj BY KindsApart
<1>3. DOMAIN free = Mpf /\ MpfIdle BY DEF MpfInv
<1>5. sque[o] # <<>> => free[o] = <<>>
  <2>1. sque[o] # <<>> => Head(sque[o]) \in Task /\ InSque(Head(sque[o]), o)
    BY <1>2, HeadFacts
  <2> QED BY <1>2, <1>3, <2>1, KindFacts DEF InSque, MpfIdle
<1>6. ASSUME NEW a \in MpfAtr, CreMpf(o, a) PROVE MpfInv'
  <2>1. a \in SUBSET ATTR BY FixedPoolAssumption DEF ATTR
  <2>2. Begins({}) BY <1>2, <1>6, <2>1, CreateKeeps DEF CreMpf
  <2>3. free' = [free EXCEPT ![o] = [i \in 1..BlkCnt[o] |-> i]] BY <1>6 DEF CreMpf
  <2>5. DOMAIN free' = Mpf /\ \A x \in Mpf : x # o => free'[x] = free[x] BY <1>3, <2>3
  <2>4. o \notin objs BY <1>6 DEF CreMpf, Create
  <2> QED BY <1>3, <2>2, <2>4, <2>5, MpfEnds DEF MpfInv
<1>7. CASE DelMpf(o)
  <2>2. Begins({}) BY <1>2, <1>7, DeleteKeeps DEF DelMpf
  <2>3. free' = [free EXCEPT ![o] = <<>>] BY <1>7 DEF DelMpf
  <2>5. DOMAIN free' = Mpf /\ \A x \in Mpf : x # o => free'[x] = free[x] BY <1>3, <2>3
  <2>4. o \notin objs' BY <1>7 DEF DelMpf, Delete
  <2> QED BY <1>3, <2>2, <2>4, <2>5, MpfEnds DEF MpfInv
<1>8. CASE GetMpf(o)
  <2>2. Begins({}) BY <1>8, NothingMoves DEF GetMpf, steady
  <2>3. free' = [free EXCEPT ![o] = Tail(@)] BY <1>8 DEF GetMpf
  <2>5. DOMAIN free' = Mpf /\ \A x \in Mpf : x # o => free'[x] = free[x] BY <1>3, <2>3
  <2>4. sque[o] = <<>> BY <1>5, <1>8 DEF GetMpf
  <2> QED BY <1>3, <2>2, <2>4, <2>5, MpfEnds DEF MpfInv
<1>9. ASSUME NEW b, RelMpf(o, b) PROVE MpfInv'
  <2>1. UNCHANGED <<objs, atr, cpri>> BY <1>9 DEF RelMpf, steady
  <2>2. CASE sque[o] # <<>>
    <3>1. Wake({Head(sque[o])}) /\ free' = free BY <1>9, <2>2 DEF RelMpf, mpfvars
    <3>2. Begins({}) BY <1>2, <2>1, <2>2, <3>1, WakeHead
    <3> QED BY <1>3, <3>1, <3>2, MpfEnds DEF MpfInv
  <2>3. CASE sque[o] = <<>>
    <3>0. UNCHANGED waiting /\ free' = [free EXCEPT ![o] = <<b>> \o @]
      BY <1>9, <2>3 DEF RelMpf
    <3>1. DOMAIN free' = Mpf /\ \A x \in Mpf : x # o => free'[x] = free[x] BY <1>3, <3>0
    <3>2. Begins({}) BY <2>1, <3>0, NothingMoves
    <3> QED BY <1>3, <2>3, <3>1, <3>2, MpfEnds DEF MpfInv
  <2> QED BY <2>2, <2>3
<1>10. ASSUME NEW t \in Task, NEW timed \in BOOLEAN, GetMpfWait(t, o, timed) PROVE MpfInv'
  <2>1. /\ Block(t, o, "MPF", NONE, timed) /\ UNCHANGED <<objs, atr, cpri>>
        /\ free[o] = <<>> /\ free' = free
    BY <1>10 DEF GetMpfWait, steady, mpfvars
  <2>2. wobj'[t] = o /\ \A u \in Task \ {t} : Stays(u) BY <2>1, BlockBegins
  <2> QED BY <1>3, <2>1, <2>2 DEF MpfInv, MpfIdle, Stays
<1> QED BY <1>1, <1>6, <1>7, <1>8, <1>9, <1>10

(* Mailboxes *)
MbxInv == DOMAIN top = Mbx /\ MbxIdle

LEMMA MbxEnds ==
    ASSUME Linked, Asking, Linked', NEW W, Begins(W), "MBX" \notin W, MbxIdle,
           \A x \in Mbx : x \in objs \cap objs' /\ sque[x] # <<>> => top'[x] = top[x]
    PROVE  MbxIdle'
<1> SUFFICES ASSUME NEW t \in Task, wsts'[t] = "MBX" PROVE Filled(wobj[t])' = {}
  BY DEF MbxIdle
<1>1. "MBX" \in SqueWaits BY DEF SqueWaits
<1>2. Stays(t) /\ wsts[t] = "MBX" /\ wobj[t] \in objs \cap objs' BY <1>1, WaitsOn
<1>3. sque[wobj[t]] # <<>> BY <1>1, <1>2, WaitsWhere
<1>4. wobj[t] \in Mbx BY <1>2 DEF Asking, Asks
<1>5. top'[wobj[t]] = top[wobj[t]] BY <1>2, <1>3, <1>4
<1>6. wobj'[t] = wobj[t] /\ Filled(wobj[t]) = {} BY <1>2 DEF Stays, MbxIdle
<1> QED BY <1>5, <1>6 DEF Filled

LEMMA MbxHolds ==
    ASSUME Steady, Linked, Asking, Linked', MbxInv, MbxNext
    PROVE  MbxInv'
<1>1. PICK o \in Mbx \cap ids :
         \/ \E a \in MbxAtr : CreMbx(o, a)
         \/ DelMbx(o) \/ RcvMbx(o)
         \/ \E m \in Msg : SndMbx(o, m)
         \/ \E t \in Task, timed \in BOOLEAN : RcvMbxWait(t, o, timed)
  BY DEF MbxNext
<1>2. o \in Obj BY KindsApart
<1>3. DOMAIN top = Mbx /\ MbxIdle BY DEF MbxInv
<1>5. sque[o] # <<>> => Filled(o) = {}
  <2>1. sque[o] # <<>> => Head(sque[o]) \in Task /\ InSque(Head(sque[o]), o)
    BY <1>2, HeadFacts
  <2> QED BY <1>2, <1>3, <2>1, KindFacts DEF InSque, MbxIdle
<1>6. ASSUME NEW a \in MbxAtr, CreMbx(o, a) PROVE MbxInv'
  <2>1. a \in SUBSET ATTR BY MailboxAssumption DEF ATTR
  <2>2. Begins({}) BY <1>2, <1>6, <2>1, CreateKeeps DEF CreMbx
  <2>3. top' = [top EXCEPT ![o] = [l \in Lists |-> NONE]] BY <1>6 DEF CreMbx
  <2>4. o \notin objs BY <1>6 DEF CreMbx, Create
  <2>5. DOMAIN top' = Mbx /\ \A x \in Mbx : x # o => top'[x] = top[x] BY <1>3, <2>3
  <2> QED BY <1>3, <2>2, <2>4, <2>5, MbxEnds DEF MbxInv
<1>7. CASE DelMbx(o)
  <2>2. Begins({}) BY <1>2, <1>7, DeleteKeeps DEF DelMbx
  <2>3. top' = [top EXCEPT ![o] = [l \in Lists |-> NONE]] BY <1>7 DEF DelMbx
  <2>4. o \notin objs' BY <1>7 DEF DelMbx, Delete
  <2>5. DOMAIN top' = Mbx /\ \A x \in Mbx : x # o => top'[x] = top[x] BY <1>3, <2>3
  <2> QED BY <1>3, <2>2, <2>4, <2>5, MbxEnds DEF MbxInv
<1>8. CASE RcvMbx(o)
  <2>2. Begins({}) BY <1>8, NothingMoves DEF RcvMbx, steady
  <2>3. PICK l \in Filled(o) : top' = [top EXCEPT ![o][l] = msgque[@]] BY <1>8 DEF RcvMbx
  <2>4. sque[o] = <<>> BY <1>5, <2>3
  <2>5. DOMAIN top' = Mbx /\ \A x \in Mbx : x # o => top'[x] = top[x] BY <1>3, <2>3
  <2> QED BY <1>3, <2>2, <2>4, <2>5, MbxEnds DEF MbxInv
<1>9. ASSUME NEW m \in Msg, SndMbx(o, m) PROVE MbxInv'
  <2>1. UNCHANGED <<objs, atr, cpri>> BY <1>9 DEF SndMbx, steady
  <2>2. CASE sque[o] # <<>>
    <3>1. Wake({Head(sque[o])}) /\ top' = top BY <1>9, <2>2 DEF SndMbx, mbxvars
    <3>2. Begins({}) BY <1>2, <2>1, <2>2, <3>1, WakeHead
    <3> QED BY <1>3, <3>1, <3>2, MbxEnds DEF MbxInv
  <2>3. CASE sque[o] = <<>>
    <3>1. UNCHANGED waiting
          /\ (top' = top \/ top' = [top EXCEPT ![o][ListOf(o, m)] = m])
      BY <1>9, <2>3 DEF SndMbx
    <3>2. Begins({}) BY <2>1, <3>1, NothingMoves
    <3>3. DOMAIN top' = Mbx /\ \A x \in Mbx : x # o => top'[x] = top[x] BY <1>3, <3>1
    <3> QED BY <1>3, <2>3, <3>2, <3>3, MbxEnds DEF MbxInv
  <2> QED BY <2>2, <2>3
<1>10. ASSUME NEW t \in Task, NEW timed \in BOOLEAN, RcvMbxWait(t, o, timed) PROVE MbxInv'
  <2>1. /\ Block(t, o, "MBX", NONE, timed) /\ UNCHANGED <<objs, atr, cpri>>
        /\ Filled(o) = {} /\ top' = top
    BY <1>10 DEF RcvMbxWait, steady, mbxvars
  <2>2. wobj'[t] = o /\ \A u \in Task \ {t} : Stays(u) BY <2>1, BlockBegins
  <2>3. \A x : Filled(x)' = Filled(x) BY <2>1 DEF Filled
  <2> QED BY <1>3, <2>1, <2>2, <2>3 DEF MbxInv, MbxIdle, Stays
<1> QED BY <1>1, <1>6, <1>7, <1>8, <1>9, <1>10

(* Data queues.  A receiver waits while there is neither a word nor a      *)
(* sender, a sender while the ring is full; so the two meet only if the    *)
(* ring has no room at all, and then each looks for the other first.       *)
DtqInv == DOMAIN cnt = Dtq /\ DOMAIN dtqcnt = Dtq /\ DtqIdle

LEMMA DtqEnds ==
    ASSUME Linked, Asking, Linked', NEW W, Begins(W), "RDTQ" \notin W, "SDTQ" \notin W,
           DtqIdle,
           \A x \in Dtq : x \in objs \cap objs' =>
              /\ que[x] # <<>> \/ sque[x] # <<>> => cnt'[x] = cnt[x]
              /\ sque[x] # <<>> => dtqcnt'[x] = dtqcnt[x]
    PROVE  DtqIdle'
<1> SUFFICES ASSUME NEW t \in Task
             PROVE  /\ wsts'[t] = "RDTQ" =>
                          /\ cnt'[wobj'[t]] = 0
                          /\ \A u \in Task : wsts'[u] = "SDTQ" => wobj'[u] # wobj'[t]
                    /\ wsts'[t] = "SDTQ" => Full(wobj[t])'
  BY DEF DtqIdle
<1>1. "SDTQ" \in SqueWaits /\ "RDTQ" \in QueWaits BY DEF SqueWaits, QueWaits
<1>2. ASSUME wsts'[t] = "RDTQ"
      PROVE  /\ cnt'[wobj'[t]] = 0
             /\ \A u \in Task : wsts'[u] = "SDTQ" => wobj'[u] # wobj'[t]
  <2>1. Stays(t) /\ wsts[t] = "RDTQ" /\ wobj[t] \in objs \cap objs' BY <1>1, <1>2, WaitsOn
  <2>2. que[wobj[t]] # <<>> BY <1>1, <2>1, WaitsWhere
  <2>3. wobj[t] \in Dtq BY <2>1 DEF Asking, Asks
  <2>4. cnt'[wobj[t]] = 0 /\ wobj'[t] = wobj[t] BY <2>1, <2>2, <2>3 DEF Stays, DtqIdle
  <2>5. ASSUME NEW u \in Task, wsts'[u] = "SDTQ" PROVE wobj'[u] # wobj'[t]
    <3>1. Stays(u) /\ wsts[u] = "SDTQ" BY <1>1, <2>5, WaitsOn
    <3> QED BY <2>1, <2>4, <3>1 DEF Stays, DtqIdle
  <2> QED BY <2>4, <2>5
<1>3. ASSUME wsts'[t] = "SDTQ" PROVE Full(wobj[t])'
  <2>1. Stays(t) /\ wsts[t] = "SDTQ" /\ wobj[t] \in objs \cap objs' BY <1>1, <1>3, WaitsOn
  <2>2. sque[wobj[t]] # <<>> BY <1>1, <2>1, WaitsWhere
  <2>3. wobj[t] \in Dtq BY <2>1 DEF Asking, Asks
  <2>4. cnt'[wobj[t]] = cnt[wobj[t]] /\ dtqcnt'[wobj[t]] = dtqcnt[wobj[t]]
    BY <2>1, <2>2, <2>3
  <2>5. wobj'[t] = wobj[t] /\ cnt[wobj[t]] = dtqcnt[wobj[t]]
    BY <2>1 DEF Stays, DtqIdle, Full
  <2> QED BY <2>4, <2>5 DEF Full
<1> QED BY <1>2, <1>3

LEMMA DtqHolds ==
    ASSUME Steady, Linked, Asking, Linked', DtqInv, DtqNext
    PROVE  DtqInv'
<1>1. PICK o \in Dtq \cap ids :
         \/ \E a \in DtqAtr, n \in DtqCnt : CreDtq(o, a, n)
         \/ DelDtq(o) \/ RcvDtq(o)
         \/ \E v \in Data, f \in BOOLEAN : SndDtq(o, v, f)
         \/ \E t \in Task, timed \in BOOLEAN :
               \/ \E v \in Data : SndDtqWait(t, o, v, timed)
               \/ RcvDtqWait(t, o, timed)
  BY DEF DtqNext
<1>2. o \in Obj BY KindsApart
<1>3. DOMAIN cnt = Dtq /\ DOMAIN dtqcnt = Dtq /\ DtqIdle BY DEF DtqInv
<1>4. que[o] # <<>> => cnt[o] = 0 /\ sque[o] = <<>>
  <2>1. que[o] # <<>> => Head(que[o]) \in Task /\ InQue(Head(que[o]), o)
    BY <1>2, HeadFacts
  <2>2. sque[o] # <<>> => Head(sque[o]) \in Task /\ InSque(Head(sque[o]), o)
    BY <1>2, HeadFacts
  <2> QED BY <1>2, <1>3, <2>1, <2>2, KindFacts DEF InQue, InSque, DtqIdle
<1>5. sque[o] # <<>> => cnt[o] = dtqcnt[o]
  <2>1. sque[o] # <<>> => Head(sque[o]) \in Task /\ InSque(Head(sque[o]), o)
    BY <1>2, HeadFacts
  <2> QED BY <1>2, <1>3, <2>1, KindFacts DEF InSque, DtqIdle, Full
<1>6. ASSUME NEW a \in DtqAtr, NEW n, CreDtq(o, a, n) PROVE DtqInv'
  <2>1. a \in SUBSET ATTR BY DataQueueAssumption DEF ATTR
  <2>2. Begins({}) BY <1>2, <1>6, <2>1, CreateKeeps DEF CreDtq
  <2>3. cnt' = [cnt EXCEPT ![o] = 0] /\ dtqcnt' = [dtqcnt EXCEPT ![o] = n] BY <1>6 DEF CreDtq
  <2>4. o \notin objs BY <1>6 DEF CreDtq, Create
  <2>5. /\ DOMAIN cnt' = Dtq /\ DOMAIN dtqcnt' = Dtq
        /\ \A x \in Dtq : x # o => cnt'[x] = cnt[x] /\ dtqcnt'[x] = dtqcnt[x]
    BY <1>3, <2>3
  <2> QED BY <1>3, <2>2, <2>4, <2>5, DtqEnds DEF DtqInv
<1>7. CASE DelDtq(o)
  <2>2. Begins({}) BY <1>2, <1>7, DeleteKeeps DEF DelDtq
  <2>3. cnt' = [cnt EXCEPT ![o] = 0] /\ dtqcnt' = [dtqcnt EXCEPT ![o] = 0] BY <1>7 DEF DelDtq
  <2>4. o \notin objs' BY <1>7 DEF DelDtq, Delete
  <2>5. /\ DOMAIN cnt' = Dtq /\ DOMAIN dtqcnt' = Dtq
        /\ \A x \in Dtq : x # o => cnt'[x] = cnt[x] /\ dtqcnt'[x] = dtqcnt[x]
    BY <1>3, <2>3
  <2> QED BY <1>3, <2>2, <2>4, <2>5, DtqEnds DEF DtqInv
<1>8. CASE RcvDtq(o)
  <2>1. UNCHANGED <<objs, atr, cpri>> BY <1>8 DEF RcvDtq, steady
  <2>2. CASE cnt[o] > 0 /\ sque[o] # <<>>
    <3>1. /\ Wake({Head(sque[o])}) /\ dtqcnt' = dtqcnt
          /\ cnt' = [cnt EXCEPT ![o] = cnt[o]]
      BY <1>8, <2>2 DEF RcvDtq, Store
    <3>2. Begins({}) BY <1>2, <2>1, <2>2, <3>1, WakeHead
    <3>3. DOMAIN cnt' = Dtq /\ \A x \in Dtq : cnt'[x] = cnt[x] BY <1>3, <3>1
    <3> QED BY <1>3, <3>1, <3>2, <3>3, DtqEnds DEF DtqInv
  <2>3. CASE cnt[o] > 0 /\ sque[o] = <<>>
    <3>1. cnt' = [cnt EXCEPT ![o] = @ - 1] /\ UNCHANGED <<waiting, dtqcnt>>
      BY <1>8, <2>3 DEF RcvDtq
    <3>2. Begins({}) BY <2>1, <3>1, NothingMoves
    <3>3. DOMAIN cnt' = Dtq /\ \A x \in Dtq : x # o => cnt'[x] = cnt[x] BY <1>3, <3>1
    <3>4. cnt[o] # 0 BY <2>3
    <3>5. que[o] = <<>> /\ sque[o] = <<>> BY <1>4, <2>3, <3>4
    <3> QED BY <1>3, <3>1, <3>2, <3>3, <3>5, DtqEnds DEF DtqInv
  <2>4. CASE ~(cnt[o] > 0)
    <3>1. sque[o] # <<>> /\ Wake({Head(sque[o])}) /\ UNCHANGED <<cnt, dtqcnt>>
      BY <1>8, <2>4 DEF RcvDtq, dtqvars
    <3>2. Begins({}) BY <1>2, <2>1, <3>1, WakeHead
    <3> QED BY <1>3, <3>1, <3>2, DtqEnds DEF DtqInv
  <2> QED BY <2>2, <2>3, <2>4
<1>9. ASSUME NEW v \in Data, NEW f \in BOOLEAN, SndDtq(o, v, f) PROVE DtqInv'
  <2>1. UNCHANGED <<objs, atr, cpri>> BY <1>9 DEF SndDtq, steady
  <2>2. CASE que[o] # <<>>
    <3>1. Wake({Head(que[o])}) /\ UNCHANGED <<cnt, dtqcnt>> BY <1>9, <2>2 DEF SndDtq, dtqvars
    <3>2. Begins({}) BY <1>2, <2>1, <2>2, <3>1, WakeHead
    <3> QED BY <1>3, <3>1, <3>2, DtqEnds DEF DtqInv
  <2>3. CASE que[o] = <<>>
    <3>1. PICK more : /\ cnt' = [cnt EXCEPT ![o] = more] /\ UNCHANGED <<waiting, dtqcnt>>
                      /\ cnt[o] = dtqcnt[o] => more = cnt[o]
      BY <1>9, <2>3 DEF SndDtq, Store, Full
    <3>2. Begins({}) BY <2>1, <3>1, NothingMoves
    <3>3. DOMAIN cnt' = Dtq /\ \A x \in Dtq : x # o => cnt'[x] = cnt[x] BY <1>3, <3>1
    <3>4. sque[o] # <<>> => cnt'[o] = cnt[o] BY <1>3, <1>5, <3>1
    <3> QED BY <1>3, <2>3, <3>1, <3>2, <3>3, <3>4, DtqEnds DEF DtqInv
  <2> QED BY <2>2, <2>3
<1>10. ASSUME NEW t \in Task, NEW v \in Data, NEW timed \in BOOLEAN, SndDtqWait(t, o, v, timed)
       PROVE  DtqInv'
  <2>1. /\ Block(t, o, "SDTQ", v, timed) /\ UNCHANGED <<objs, atr, cpri>>
        /\ que[o] = <<>> /\ cnt[o] = dtqcnt[o] /\ UNCHANGED <<cnt, dtqcnt>>
    BY <1>10 DEF SndDtqWait, steady, dtqvars, Full
  <2>2. wobj'[t] = o /\ wsts'[t] = "SDTQ" /\ \A u \in Task \ {t} : Stays(u)
    BY <2>1, BlockBegins
  <2>3. \A u \in Task : wsts[u] = "RDTQ" => wobj[u] # o
    BY <1>2, <2>1, HeadFacts DEF InQue, QueWaits
  <2>4. \A x : Full(x)' = Full(x) BY <2>1 DEF Full
  <2>5. DtqIdle' BY <1>3, <2>1, <2>2, <2>3, <2>4 DEF DtqIdle, Stays, Full
  <2> QED BY <1>3, <2>1, <2>5 DEF DtqInv
<1>11. ASSUME NEW t \in Task, NEW timed \in BOOLEAN, RcvDtqWait(t, o, timed) PROVE DtqInv'
  <2>1. /\ Block(t, o, "RDTQ", NONE, timed) /\ UNCHANGED <<objs, atr, cpri>>
        /\ sque[o] = <<>> /\ cnt[o] = 0 /\ UNCHANGED <<cnt, dtqcnt>>
    BY <1>11 DEF RcvDtqWait, steady, dtqvars
  <2>2. wobj'[t] = o /\ wsts'[t] = "RDTQ" /\ \A u \in Task \ {t} : Stays(u)
    BY <2>1, BlockBegins
  <2>3. \A u \in Task : wsts[u] = "SDTQ" => wobj[u] # o
    BY <1>2, <2>1, HeadFacts DEF InSque, SqueWaits
  <2>4. \A x : Full(x)' = Full(x) BY <2>1 DEF Full
  <2>5. DtqIdle' BY <1>3, <2>1, <2>2, <2>3, <2>4 DEF DtqIdle, Stays
  <2> QED BY <1>3, <2>1, <2>5 DEF DtqInv
<1> QED BY <1>1, <1>6, <1>7, <1>8, <1>9, <1>10, <1>11

(* Event flags: no wish is met by a clear flag, and one that a pattern     *)
(* meets is met by a larger one.                                           *)
FlgInv == DOMAIN flgptn = Flg /\ FlgIdle

LEMMA WishFacts ==
    ASSUME NEW w \in Wish
    PROVE  /\ ~Satisfies({}, w)
           /\ \A p, q : p \subseteq q /\ Satisfies(p, w) => Satisfies(q, w)
<1>1. w.waiptn # {} /\ w.wfmode \in {"TWF_ORW", "TWF_ANDW"} BY DEF Wish
<1>2. CASE w.wfmode = "TWF_ORW" BY <1>1, <1>2 DEF Satisfies
<1>3. CASE w.wfmode = "TWF_ANDW" BY <1>1, <1>3 DEF Satisfies
<1> QED BY <1>1, <1>2, <1>3

LEMMA FlgEnds ==
    ASSUME Linked, Asking, Linked', NEW W, Begins(W), "FLG" \notin W, FlgIdle,
           \A t \in Task : Stays(t) /\ wsts[t] = "FLG" /\ wobj[t] \in objs \cap objs' =>
              \/ flgptn'[wobj[t]] \subseteq flgptn[wobj[t]]
              \/ ~Satisfies(flgptn'[wobj[t]], par[t])
    PROVE  FlgIdle'
<1> SUFFICES ASSUME NEW t \in Task, wsts'[t] = "FLG"
             PROVE  /\ ~Satisfies(flgptn[wobj[t]], par[t])'
                    /\ "WMUL" \notin atr'[wobj'[t]] =>
                          \A u \in Task : wsts'[u] = "FLG" /\ wobj'[u] = wobj'[t] => u = t
  BY DEF FlgIdle
<1>1. "FLG" \in SqueWaits BY DEF SqueWaits
<1>2. Stays(t) /\ wsts[t] = "FLG" /\ wobj[t] \in objs \cap objs' BY <1>1, WaitsOn
<1>3. par[t] \in Wish BY <1>2 DEF Asking, Asks
<1>4. ~Satisfies(flgptn[wobj[t]], par[t]) BY <1>2 DEF FlgIdle
<1>5. ~Satisfies(flgptn'[wobj[t]], par[t]) BY <1>2, <1>3, <1>4, WishFacts
<1>6. wobj'[t] = wobj[t] /\ par'[t] = par[t] BY <1>2 DEF Stays
<1>7. ~Satisfies(flgptn[wobj[t]], par[t])' BY <1>5, <1>6 DEF Satisfies
<1>8. \A u \in Task : wsts'[u] = "FLG" => wsts[u] = "FLG" /\ wobj'[u] = wobj[u]
  BY <1>1, WaitsOn DEF Stays
<1>9. atr'[wobj'[t]] = atr[wobj[t]] BY <1>2, <1>6 DEF Begins
<1> QED BY <1>2, <1>6, <1>7, <1>8, <1>9 DEF FlgIdle

LEMMA FlgHolds ==
    ASSUME Steady, Linked, Asking, Linked', FlgInv, FlgNext
    PROVE  FlgInv'
<1>1. PICK o \in Flg \cap ids :
         \/ \E a \in FlgAtr, p \in SUBSET Bit : CreFlg(o, a, p)
         \/ DelFlg(o)
         \/ \E p \in SUBSET Bit : SetFlg(o, p) \/ ClrFlg(o, p)
         \/ \E w \in Wish :
               \/ WaiFlg(o, w)
               \/ \E t \in Task, timed \in BOOLEAN : WaiFlgWait(t, o, w, timed)
  BY DEF FlgNext
<1>2. o \in Obj BY KindsApart
<1>3. DOMAIN flgptn = Flg /\ FlgIdle BY DEF FlgInv
<1>4. \A t \in Task : wsts[t] = "FLG" => wobj[t] \in Flg /\ par[t] \in Wish
  BY DEF Asking, Asks
<1>5. ASSUME NEW a \in FlgAtr, NEW p, CreFlg(o, a, p) PROVE FlgInv'
  <2>1. a \in SUBSET ATTR BY EventFlagAssumption DEF ATTR
  <2>2. Begins({}) BY <1>2, <1>5, <2>1, CreateKeeps DEF CreFlg
  <2>3. flgptn' = [flgptn EXCEPT ![o] = p] BY <1>5 DEF CreFlg
  <2>4. o \notin objs BY <1>5 DEF CreFlg, Create
  <2>5. DOMAIN flgptn' = Flg /\ \A x \in Flg : x # o => flgptn'[x] = flgptn[x] BY <1>3, <2>3
  <2>6. FlgIdle' BY <1>3, <1>4, <2>2, <2>4, <2>5, FlgEnds
  <2> QED BY <2>5, <2>6 DEF FlgInv
<1>6. CASE DelFlg(o)
  <2>2. Begins({}) BY <1>2, <1>6, DeleteKeeps DEF DelFlg
  <2>3. flgptn' = [flgptn EXCEPT ![o] = {}] BY <1>6 DEF DelFlg
  <2>4. o \notin objs' BY <1>6 DEF DelFlg, Delete
  <2>5. DOMAIN flgptn' = Flg /\ \A x \in Flg : x # o => flgptn'[x] = flgptn[x] BY <1>3, <2>3
  <2>6. FlgIdle' BY <1>3, <1>4, <2>2, <2>4, <2>5, FlgEnds
  <2> QED BY <2>5, <2>6 DEF FlgInv
<1>7. ASSUME NEW p, SetFlg(o, p) PROVE FlgInv'
  <2>1. UNCHANGED <<objs, atr, cpri>> BY <1>7 DEF SetFlg, steady
  <2>2. PICK ptn : ptn = flgptn[o] \cup p OBVIOUS
  <2>3. PICK done : done = Served(o, ptn) OBVIOUS
  <2>4. PICK ts : ts = {sque[o][i] : i \in done} OBVIOUS
  <2>5. /\ Wake(ts)
        /\ flgptn' = [flgptn EXCEPT ![o] = IF "CLR" \in atr[o] /\ done # {} THEN {} ELSE ptn]
    BY <1>7, <2>2, <2>3, <2>4 DEF SetFlg
  <2>6. done \subseteq 1..Len(sque[o]) BY <2>3 DEF Served, ServedFirst
  <2>7. sque[o] \in Seq(Task) BY <1>2 DEF Linked, Typed
  <2>8. ts \in SUBSET Task BY <2>4, <2>6, <2>7
  <2>9. Begins({}) BY <2>1, <2>5, <2>8, WakeKeeps
  <2>10. \A t \in ts : wsts'[t] = NONE BY <2>5, <2>8 DEF Wake, Release
  <2>11. DOMAIN flgptn' = Flg /\ \A x \in Flg : x # o => flgptn'[x] = flgptn[x]
    BY <1>3, <2>5
  <2>12. ASSUME NEW t \in Task, Stays(t), wsts[t] = "FLG", wobj[t] = o
         PROVE  ~Satisfies(flgptn'[o], par[t])
    <3>1. par[t] \in Wish BY <1>4, <2>12
    <3>2. t \notin ts BY <2>10, <2>12, KindsApart DEF Stays, SqueWaits
    <3>3. t \in ToSet(sque[o]) BY <2>12, WaitsWhere DEF SqueWaits
    <3>4. PICK i \in 1..Len(sque[o]) : sque[o][i] = t BY <2>7, <3>3, ToSetFacts
    <3>5. i \notin done BY <2>4, <3>2, <3>4
    <3>6. CASE "CLR" \in atr[o] /\ done # {}
      <4>1. flgptn'[o] = {} BY <1>3, <2>5, <3>6
      <4> QED BY <3>1, <4>1, WishFacts
    <3>7. CASE "CLR" \in atr[o] /\ done = {}
      <4>1. PICK hit : hit = {k \in 1..Len(sque[o]) : Satisfies(ptn, par[sque[o][k]])} OBVIOUS
      <4>2. done = {k \in hit : \A j \in hit : k <= j}
        BY <2>3, <3>7, <4>1 DEF Served, ServedFirst
      <4>3. hit \in SUBSET Nat BY <4>1
      <4>4. hit = {} BY <3>7, <4>2, <4>3, LeastOf
      <4>5. flgptn'[o] = ptn BY <1>3, <2>5, <3>7
      <4> QED BY <3>4, <4>1, <4>4, <4>5
    <3>8. CASE "CLR" \notin atr[o]
      <4>1. done = {k \in 1..Len(sque[o]) : Satisfies(ptn, par[sque[o][k]])}
        BY <2>3, <3>8 DEF Served
      <4>2. flgptn'[o] = ptn BY <1>3, <2>5, <3>8
      <4> QED BY <3>4, <3>5, <4>1, <4>2
    <3> QED BY <3>6, <3>7, <3>8
  <2>13. FlgIdle' BY <1>3, <1>4, <2>9, <2>11, <2>12, FlgEnds
  <2> QED BY <2>11, <2>13 DEF FlgInv
<1>8. ASSUME NEW p, ClrFlg(o, p) PROVE FlgInv'
  <2>1. UNCHANGED <<waiting, objs, atr, cpri>> BY <1>8 DEF ClrFlg, steady
  <2>2. flgptn' = [flgptn EXCEPT ![o] = @ \cap p] BY <1>8 DEF ClrFlg
  <2>3. Begins({}) BY <2>1, NothingMoves
  <2>4. DOMAIN flgptn' = Flg /\ \A x \in Flg : flgptn'[x] \subseteq flgptn[x] BY <1>3, <2>2
  <2>5. FlgIdle' BY <1>3, <1>4, <2>3, <2>4, FlgEnds
  <2> QED BY <2>4, <2>5 DEF FlgInv
<1>9. ASSUME NEW w, WaiFlg(o, w) PROVE FlgInv'
  <2>1. UNCHANGED <<waiting, objs, atr, cpri>> BY <1>9 DEF WaiFlg, steady
  <2>2. flgptn' = [flgptn EXCEPT ![o] = IF "CLR" \in atr[o] THEN {} ELSE @] BY <1>9 DEF WaiFlg
  <2>3. Begins({}) BY <2>1, NothingMoves
  <2>4. DOMAIN flgptn' = Flg /\ \A x \in Flg : flgptn'[x] \subseteq flgptn[x] BY <1>3, <2>2
  <2>5. FlgIdle' BY <1>3, <1>4, <2>3, <2>4, FlgEnds
  <2> QED BY <2>4, <2>5 DEF FlgInv
<1>10. ASSUME NEW w \in Wish, NEW t \in Task, NEW timed \in BOOLEAN, WaiFlgWait(t, o, w, timed)
       PROVE  FlgInv'
  <2>1. /\ Block(t, o, "FLG", w, timed) /\ UNCHANGED <<objs, atr, cpri>>
        /\ ~Satisfies(flgptn[o], w) /\ flgptn' = flgptn
        /\ "WMUL" \in atr[o] \/ sque[o] = <<>>
    BY <1>10 DEF WaiFlgWait, steady, Admits
  <2>2. wobj'[t] = o /\ par'[t] = w /\ wsts'[t] = "FLG" /\ \A u \in Task \ {t} : Stays(u)
    BY <2>1, BlockBegins
  <2>3. "WMUL" \notin atr[o] => \A u \in Task : wsts[u] = "FLG" => wobj[u] # o
    BY <1>2, <2>1, HeadFacts DEF InSque, SqueWaits
  <2>4. ~Satisfies(flgptn[wobj[t]], par[t])' BY <2>1, <2>2 DEF Satisfies
  <2>5. ASSUME NEW u \in Task \ {t}, wsts'[u] = "FLG"
        PROVE  /\ ~Satisfies(flgptn[wobj[u]], par[u])'
               /\ "WMUL" \notin atr[wobj'[u]] => wobj'[u] # o
               /\ "WMUL" \notin atr[wobj'[u]] =>
                     \A x \in Task \ {t} : wsts'[x] = "FLG" /\ wobj'[x] = wobj'[u] => x = u
    <3>1. wsts[u] = "FLG" /\ wobj'[u] = wobj[u] /\ par'[u] = par[u] BY <2>2, <2>5 DEF Stays
    <3>2. ~Satisfies(flgptn[wobj[u]], par[u]) BY <1>3, <3>1 DEF FlgIdle
    <3>3. ~Satisfies(flgptn[wobj[u]], par[u])' BY <2>1, <3>1, <3>2 DEF Satisfies
    <3>4. \A x \in Task \ {t} : wsts'[x] = wsts[x] /\ wobj'[x] = wobj[x] BY <2>2 DEF Stays
    <3> QED BY <1>3, <2>3, <3>1, <3>3, <3>4 DEF FlgIdle
  <2>6. FlgIdle' BY <2>1, <2>2, <2>4, <2>5, <2>3 DEF FlgIdle, Stays
  <2> QED BY <1>3, <2>1, <2>6 DEF FlgInv
<1> QED BY <1>1, <1>5, <1>6, <1>7, <1>8, <1>9, <1>10

(* Rendezvous ports *)
LEMMA PorEnds ==
    ASSUME Linked, Linked', NEW W, Begins(W), "ACP" \notin W, "CAL" \notin W, PorIdle
    PROVE  PorIdle'
<1>1. "CAL" \in SqueWaits /\ "ACP" \in QueWaits BY DEF SqueWaits, QueWaits
<1>2. \A t \in Task : wsts'[t] \in {"ACP", "CAL"} => Stays(t) BY <1>1, WaitsOn
<1> QED BY <1>2 DEF PorIdle, Stays

LEMMA MeetsFacts ==
    ASSUME NEW q \in Seq(Task), NEW ptn, ~Meets(q, ptn), NEW t \in ToSet(q)
    PROVE  par[t].ptn \cap ptn = {}
BY ToSetFacts DEF Meets

LEMMA PorHolds ==
    ASSUME Steady, Linked, Asking, Linked', PorIdle, PorNext
    PROVE  PorIdle'
<1>1. \A o \in Por : o \in Obj BY KindsApart
<1>2. ASSUME NEW o \in Por, NEW a \in PorAtr[o], CrePor(o, a) PROVE PorIdle'
  <2>1. a \in SUBSET ATTR BY RendezvousAssumption DEF ATTR
  <2>2. Begins({}) BY <1>1, <1>2, <2>1, CreateKeeps DEF CrePor
  <2> QED BY <2>2, PorEnds
<1>3. ASSUME NEW o \in Por, DelPor(o) PROVE PorIdle'
  <2>1. Begins({}) BY <1>1, <1>3, DeleteKeeps DEF DelPor
  <2> QED BY <2>1, PorEnds
<1>4. ASSUME NEW o \in Por, NEW p, AcpPor(o, p) PROVE PorIdle'
  <2>1. Begins({"RDV"}) BY <1>4, AcpPorBegins
  <2> QED BY <2>1, PorEnds
<1>5. ASSUME NEW o \in Por, NEW p, NEW t \in Task, NEW timed \in BOOLEAN, CalPor(t, o, p, timed)
      PROVE  PorIdle'
  <2>1. Begins({"RDV"}) BY <1>5, CalPorBegins
  <2> QED BY <2>1, PorEnds
<1>6. ASSUME NEW o \in Por, NEW p, NEW c \in Task, NEW n, FwdPor(c, o, p, n) PROVE PorIdle'
  <2>1. Begins({"RDV"}) BY <1>6, FwdPorBegins
  <2> QED BY <2>1, PorEnds
<1>7. ASSUME NEW c \in Task, NEW n, RplRdv(c, n) PROVE PorIdle'
  <2>1. Release({c}, {}, Timed({c})) /\ UNCHANGED <<objs, atr, cpri>>
    BY <1>7 DEF RplRdv, steady
  <2>2. Begins({}) BY <2>1, ReleaseBegins
  <2> QED BY <2>2, PorEnds
<1>8. \A o \in Por : que[o] \in Seq(Task) /\ sque[o] \in Seq(Task) BY <1>1, HeadFacts
<1>9. \A t \in Task : /\ wsts[t] = "ACP" => t \in ToSet(que[wobj[t]])
                      /\ wsts[t] = "CAL" => t \in ToSet(sque[wobj[t]])
  BY WaitsWhere DEF QueWaits, SqueWaits
<1>10. ASSUME NEW o \in Por, NEW p, NEW t \in Task, NEW timed \in BOOLEAN,
              AcpPorWait(t, o, p, timed)
       PROVE  PorIdle'
  <2>1. /\ Block(t, o, "ACP", [ptn |-> p], timed) /\ UNCHANGED <<objs, atr, cpri>>
        /\ ~Meets(sque[o], p)
    BY <1>10 DEF AcpPorWait, steady
  <2>2. /\ wobj'[t] = o /\ par'[t] = [ptn |-> p] /\ wsts'[t] = "ACP"
        /\ \A u \in Task \ {t} : Stays(u)
    BY <2>1, BlockBegins
  <2>3. \A u \in Task : wsts[u] = "CAL" /\ wobj[u] = o => p \cap par[u].ptn = {}
    BY <1>8, <1>9, <2>1, MeetsFacts
  <2>4. par'[t].ptn = p BY <2>2
  <2> QED BY <2>2, <2>3, <2>4 DEF PorIdle, Stays
<1>11. ASSUME NEW o \in Por, NEW p, NEW t \in Task, NEW timed \in BOOLEAN, NEW n,
              CalPorWait(t, o, p, n, timed)
       PROVE  PorIdle'
  <2>1. /\ Block(t, o, "CAL", Call(o, p, n), timed) /\ UNCHANGED <<objs, atr, cpri>>
        /\ ~Meets(que[o], p)
    BY <1>11 DEF CalPorWait, steady
  <2>2. /\ wobj'[t] = o /\ par'[t] = Call(o, p, n) /\ wsts'[t] = "CAL"
        /\ \A u \in Task \ {t} : Stays(u)
    BY <2>1, BlockBegins
  <2>3. \A u \in Task : wsts[u] = "ACP" /\ wobj[u] = o => par[u].ptn \cap p = {}
    BY <1>8, <1>9, <2>1, MeetsFacts
  <2>4. par'[t].ptn = p BY <2>2 DEF Call
  <2> QED BY <2>2, <2>3, <2>4 DEF PorIdle, Stays
<1>12. ASSUME NEW o \in Por, NEW p \in Patterns, NEW c \in Task, NEW n \in MsgSz,
              FwdPorWait(c, o, p, n)
       PROVE  PorIdle'
  <2>1. ~Meets(que[o], p) BY <1>12 DEF FwdPorWait
  <2>2. /\ \A u \in Task \ {c} : Stays(u)
        /\ wsts'[c] = "CAL" /\ wobj'[c] = o /\ par'[c].ptn = p
    BY <1>12, FwdPorWaitBegins
  <2>3. \A u \in Task : wsts[u] = "ACP" /\ wobj[u] = o => par[u].ptn \cap p = {}
    BY <1>8, <1>9, <2>1, MeetsFacts
  <2> QED BY <2>2, <2>3 DEF PorIdle, Stays
<1> QED BY <1>2, <1>3, <1>4, <1>5, <1>6, <1>7, <1>10, <1>11, <1>12 DEF PorNext

-----------------------------------------------------------------------------
Idles == SemInv /\ FlgInv /\ DtqInv /\ MbxInv /\ PorIdle /\ MpfInv

(* LEMMA: at first nobody waits for anything. *)
LEMMA IdlesInit ==
    ASSUME Init
    PROVE  Idles
<1>1. WInit /\ SemInit /\ FlgInit /\ DtqInit /\ MbxInit /\ MpfInit BY DEF Init
<1>2. \A t \in Task : wsts[t] \notin QueWaits \cup SqueWaits BY <1>1, KindsApart DEF WInit
<1>3. SemIdle /\ FlgIdle /\ DtqIdle /\ MbxIdle /\ PorIdle /\ MpfIdle
  BY <1>2 DEF SemIdle, FlgIdle, DtqIdle, MbxIdle, PorIdle, MpfIdle, QueWaits, SqueWaits
<1>4. SemTypeOK BY <1>1, SemaphoreAssumption DEF SemInit, SemTypeOK
<1>5. DOMAIN flgptn = Flg BY <1>1 DEF FlgInit
<1>6. DOMAIN cnt = Dtq /\ DOMAIN dtqcnt = Dtq BY <1>1 DEF DtqInit
<1>7. DOMAIN top = Mbx BY <1>1 DEF MbxInit
<1>8. DOMAIN free = Mpf BY <1>1 DEF MpfInit
<1> QED BY <1>3, <1>4, <1>5, <1>6, <1>7, <1>8 DEF Idles, SemInv, FlgInv, DtqInv, MbxInv, MpfInv

(* LEMMA: a step that leaves the objects of a kind alone and begins no     *)
(* wait for them makes nobody wait for what is there.                      *)
LEMMA Untouched ==
    ASSUME Linked, Asking, Linked', NEW W, Begins(W)
    PROVE  /\ SemInv /\ "SEM" \notin W /\ semcnt' = semcnt => SemInv'
           /\ FlgInv /\ "FLG" \notin W /\ flgptn' = flgptn => FlgInv'
           /\ DtqInv /\ "RDTQ" \notin W /\ "SDTQ" \notin W /\ cnt' = cnt /\ dtqcnt' = dtqcnt
                 => DtqInv'
           /\ MbxInv /\ "MBX" \notin W /\ top' = top => MbxInv'
           /\ PorIdle /\ "ACP" \notin W /\ "CAL" \notin W => PorIdle'
           /\ MpfInv /\ "MPF" \notin W /\ free' = free => MpfInv'
<1>1. SemInv /\ "SEM" \notin W /\ semcnt' = semcnt => SemInv' BY SemEnds DEF SemInv, SemTypeOK
<1>2. FlgInv /\ "FLG" \notin W /\ flgptn' = flgptn => FlgInv' BY FlgEnds DEF FlgInv
<1>3. DtqInv /\ "RDTQ" \notin W /\ "SDTQ" \notin W /\ cnt' = cnt /\ dtqcnt' = dtqcnt => DtqInv'
  BY DtqEnds DEF DtqInv
<1>4. MbxInv /\ "MBX" \notin W /\ top' = top => MbxInv' BY MbxEnds DEF MbxInv
<1>5. PorIdle /\ "ACP" \notin W /\ "CAL" \notin W => PorIdle' BY PorEnds
<1>6. MpfInv /\ "MPF" \notin W /\ free' = free => MpfInv' BY MpfEnds DEF MpfInv
<1> QED BY <1>1, <1>2, <1>3, <1>4, <1>5, <1>6

(* LEMMA: no step makes a task wait for what is there. *)
LEMMA IdlesStep ==
    ASSUME Steady, Linked, Asking, Linked', ~FwdPri, Idles, [Next]_vars
    PROVE  Idles'
<1>0. SemInv /\ FlgInv /\ DtqInv /\ MbxInv /\ PorIdle /\ MpfInv BY DEF Idles
<1>a. SUFFICES SemInv' /\ FlgInv' /\ DtqInv' /\ MbxInv' /\ PorIdle' /\ MpfInv' BY DEF Idles
<1>1. CASE UNCHANGED apart
  <2>1. UNCHANGED <<semcnt, flgptn, cnt, dtqcnt, top, free>>
        /\ UNCHANGED <<waiting, objs, atr, cpri>>
    BY <1>1 DEF apart, wvars, steady, dtqvars, mbxvars, mpfvars
  <2>2. Begins({}) BY <2>1, NothingMoves
  <2> QED BY <1>0, <2>1, <2>2, Untouched
<1>2. CASE Serving
  <2>1. UNCHANGED <<semcnt, flgptn, cnt, dtqcnt, top, free>>
    BY <1>2 DEF Serving, dtqvars, mbxvars, mpfvars
  <2>2. Begins({}) BY <1>2, ServingStep
  <2> QED BY <1>0, <2>1, <2>2, Untouched
<1>3. CASE TaskNext /\ UNCHANGED <<semcnt, flgptn, dtqvars, mbxvars, mpfvars>>
  <2>1. UNCHANGED <<semcnt, flgptn, cnt, dtqcnt, top, free>>
    BY <1>3 DEF dtqvars, mbxvars, mpfvars
  <2>2. Begins({}) BY <1>3, TaskStep
  <2> QED BY <1>0, <2>1, <2>2, Untouched
<1>4. CASE SemNext /\ UNCHANGED <<flgptn, dtqvars, mbxvars, mpfvars>>
  <2>1. UNCHANGED <<flgptn, cnt, dtqcnt, top, free>> BY <1>4 DEF dtqvars, mbxvars, mpfvars
  <2>2. Begins({"SEM"}) BY <1>4, SemStep
  <2>3. SemInv' BY <1>0, <1>4, SemHolds
  <2> QED BY <1>0, <2>1, <2>2, <2>3, Untouched
<1>5. CASE FlgNext /\ UNCHANGED <<semcnt, dtqvars, mbxvars, mpfvars>>
  <2>1. UNCHANGED <<semcnt, cnt, dtqcnt, top, free>> BY <1>5 DEF dtqvars, mbxvars, mpfvars
  <2>2. Begins({"FLG"}) BY <1>5, FlgStep
  <2>3. FlgInv' BY <1>0, <1>5, FlgHolds
  <2> QED BY <1>0, <2>1, <2>2, <2>3, Untouched
<1>6. CASE DtqNext /\ UNCHANGED <<semcnt, flgptn, mbxvars, mpfvars>>
  <2>1. UNCHANGED <<semcnt, flgptn, top, free>> BY <1>6 DEF mbxvars, mpfvars
  <2>2. Begins({"RDTQ", "SDTQ"}) BY <1>6, DtqStep
  <2>3. DtqInv' BY <1>0, <1>6, DtqHolds
  <2> QED BY <1>0, <2>1, <2>2, <2>3, Untouched
<1>7. CASE MbxNext /\ UNCHANGED <<semcnt, flgptn, dtqvars, mpfvars>>
  <2>1. UNCHANGED <<semcnt, flgptn, cnt, dtqcnt, free>> BY <1>7 DEF dtqvars, mpfvars
  <2>2. Begins({"MBX"}) BY <1>7, MbxStep
  <2>3. MbxInv' BY <1>0, <1>7, MbxHolds
  <2> QED BY <1>0, <2>1, <2>2, <2>3, Untouched
<1>8. CASE MbfNext /\ UNCHANGED <<semcnt, flgptn, dtqvars, mbxvars, mpfvars>>
  <2>1. UNCHANGED <<semcnt, flgptn, cnt, dtqcnt, top, free>>
    BY <1>8 DEF dtqvars, mbxvars, mpfvars
  <2>2. Begins({"RMBF", "SMBF"}) BY <1>8, MbfStep
  <2> QED BY <1>0, <2>1, <2>2, Untouched
<1>9. CASE PorNext /\ UNCHANGED <<semcnt, flgptn, dtqvars, mbxvars, mpfvars>>
  <2>1. UNCHANGED <<semcnt, flgptn, cnt, dtqcnt, top, free>>
    BY <1>9 DEF dtqvars, mbxvars, mpfvars
  <2>2. Begins({"ACP", "CAL", "RDV"}) BY <1>9, PorStep
  <2>3. PorIdle' BY <1>0, <1>9, PorHolds
  <2> QED BY <1>0, <2>1, <2>2, <2>3, Untouched
<1>10. CASE MpfNext /\ UNCHANGED <<semcnt, flgptn, dtqvars, mbxvars>>
  <2>1. UNCHANGED <<semcnt, flgptn, cnt, dtqcnt, top>> BY <1>10 DEF dtqvars, mbxvars
  <2>2. Begins({"MPF"}) BY <1>10, MpfStep
  <2>3. MpfInv' BY <1>0, <1>10, MpfHolds
  <2> QED BY <1>0, <2>1, <2>2, <2>3, Untouched
<1>11. CASE MplNext /\ UNCHANGED <<semcnt, flgptn, dtqvars, mbxvars, mpfvars>>
  <2>1. UNCHANGED <<semcnt, flgptn, cnt, dtqcnt, top, free>>
    BY <1>11 DEF dtqvars, mbxvars, mpfvars
  <2>2. Begins({"MPL"}) BY <1>11, MplStep
  <2> QED BY <1>0, <2>1, <2>2, Untouched
<1> QED
  BY <1>1, <1>2, <1>3, <1>4, <1>5, <1>6, <1>7, <1>8, <1>9, <1>10, <1>11, StepCases DEF Service

(* LEMMA: what the properties say of the queues follows. *)
LEMMA QueuesIdle ==
    ASSUME Linked, Asking, Idles
    PROVE  NoIdleWait /\ NoMatchWaits
<1>1. ASSUME NEW o \in Obj
      PROVE  /\ que[o] \in Seq(Task) /\ sque[o] \in Seq(Task)
             /\ \A i \in 1..Len(que[o]) : que[o][i] \in Task /\ InQue(que[o][i], o)
             /\ \A i \in 1..Len(sque[o]) : sque[o][i] \in Task /\ InSque(sque[o][i], o)
             /\ que[o] # <<>> => \E t \in Task : InQue(t, o)
             /\ sque[o] # <<>> => \E t \in Task : InSque(t, o)
  <2>1. que[o] \in Seq(Task) /\ sque[o] \in Seq(Task) BY HeadFacts
  <2>2. \A i \in 1..Len(que[o]) : que[o][i] \in Task /\ InQue(que[o][i], o)
    BY <2>1, ToSetFacts DEF Linked, Queued
  <2>3. \A i \in 1..Len(sque[o]) : sque[o][i] \in Task /\ InSque(sque[o][i], o)
    BY <2>1, ToSetFacts DEF Linked, Queued
  <2> QED BY <2>1, <2>2, <2>3, HeadFacts
<1>2. NoIdleSem
  <2> SUFFICES ASSUME NEW o \in objs \cap Sem, sque[o] # <<>> PROVE semcnt[o] = 0
    BY DEF NoIdleSem
  <2>1. o \in Obj BY KindsApart
  <2>2. PICK t \in Task : InSque(t, o) BY <1>1, <2>1
  <2> QED BY <2>1, <2>2, KindFacts DEF InSque, Idles, SemInv, SemIdle
<1>3. NoIdleFlg
  <2> SUFFICES ASSUME NEW o \in objs \cap Flg
               PROVE  /\ \A i \in 1..Len(sque[o]) : ~Satisfies(flgptn[o], par[sque[o][i]])
                      /\ "WMUL" \notin atr[o] => Len(sque[o]) <= 1
    BY DEF NoIdleFlg
  <2>1. o \in Obj BY KindsApart
  <2>2. \A i \in 1..Len(sque[o]) : /\ sque[o][i] \in Task /\ wobj[sque[o][i]] = o
                                   /\ wsts[sque[o][i]] = "FLG"
    BY <1>1, <2>1, KindFacts DEF InSque
  <2>3. \A i \in 1..Len(sque[o]) : ~Satisfies(flgptn[o], par[sque[o][i]])
    BY <2>2 DEF Idles, FlgInv, FlgIdle
  <2>4. ASSUME "WMUL" \notin atr[o] PROVE Len(sque[o]) <= 1
    <3>1. Len(sque[o]) \in Nat BY <1>1, <2>1
    <3> SUFFICES ASSUME Len(sque[o]) > 1 PROVE FALSE BY <3>1
    <3>2. 1 \in 1..Len(sque[o]) /\ 2 \in 1..Len(sque[o]) BY <3>1
    <3>3. sque[o][1] = sque[o][2] BY <2>2, <2>4, <3>2 DEF Idles, FlgInv, FlgIdle
    <3>4. Once(sque[o]) BY <2>1 DEF Linked, Queued
    <3> QED BY <3>2, <3>3, <3>4 DEF Once
  <2> QED BY <2>3, <2>4
<1>4. NoIdleDtq
  <2> SUFFICES ASSUME NEW o \in objs \cap Dtq
               PROVE  /\ que[o] # <<>> => cnt[o] = 0 /\ sque[o] = <<>>
                      /\ sque[o] # <<>> => Full(o)
    BY DEF NoIdleDtq
  <2>1. o \in Obj BY KindsApart
  <2>2. sque[o] # <<>> => \E t \in Task : wsts[t] = "SDTQ" /\ wobj[t] = o
    BY <1>1, <2>1, KindFacts DEF InSque
  <2>3. que[o] # <<>> => \E t \in Task : wsts[t] = "RDTQ" /\ wobj[t] = o
    BY <1>1, <2>1, KindFacts DEF InQue
  <2> QED BY <2>2, <2>3 DEF Idles, DtqInv, DtqIdle
<1>5. NoIdleMbx
  <2> SUFFICES ASSUME NEW o \in objs \cap Mbx, sque[o] # <<>> PROVE Filled(o) = {}
    BY DEF NoIdleMbx
  <2>1. o \in Obj BY KindsApart
  <2>2. PICK t \in Task : InSque(t, o) BY <1>1, <2>1
  <2> QED BY <2>1, <2>2, KindFacts DEF InSque, Idles, MbxInv, MbxIdle
<1>6. NoIdleMpf
  <2> SUFFICES ASSUME NEW o \in objs \cap Mpf, sque[o] # <<>> PROVE free[o] = <<>>
    BY DEF NoIdleMpf
  <2>1. o \in Obj BY KindsApart
  <2>2. PICK t \in Task : InSque(t, o) BY <1>1, <2>1
  <2> QED BY <2>1, <2>2, KindFacts DEF InSque, Idles, MpfInv, MpfIdle
<1>7. NoMatchWaits
  <2> SUFFICES ASSUME NEW o \in objs \cap Por, NEW i \in 1..Len(que[o]),
                      NEW j \in 1..Len(sque[o])
               PROVE  par[que[o][i]].ptn \cap par[sque[o][j]].ptn = {}
    BY DEF NoMatchWaits
  <2>1. o \in Obj BY KindsApart
  <2>2. que[o][i] \in Task /\ wsts[que[o][i]] = "ACP" /\ wobj[que[o][i]] = o
    BY <1>1, <2>1, KindFacts DEF InQue
  <2>3. sque[o][j] \in Task /\ wsts[sque[o][j]] = "CAL" /\ wobj[sque[o][j]] = o
    BY <1>1, <2>1, KindFacts DEF InSque
  <2> QED BY <2>2, <2>3 DEF Idles, PorIdle
<1> QED BY <1>2, <1>3, <1>4, <1>5, <1>6, <1>7 DEF NoIdleWait

(* THEOREM: no task waits for what is there: a resource, a pattern that    *)
(* the flag shows, a word or the room for one, a message, a block.         *)
THEOREM NobodyWaitsIdly ==
    ASSUME FwdPri = FALSE
    PROVE  Spec => []NoIdleWait
<1>1. Init => Steady /\ Linked /\ Asking /\ Idles BY WaitsInit, IdlesInit
<1>2. Steady /\ Linked /\ Asking /\ Idles /\ [Next]_vars
         => Steady' /\ Linked' /\ Asking' /\ Idles'
  BY WaitsStep, IdlesStep
<1>3. Linked /\ Asking /\ Idles => NoIdleWait BY QueuesIdle
<1> QED BY <1>1, <1>2, <1>3, PTL DEF Spec

(* THEOREM: a caller and an acceptor that could meet do not both wait.     *)
THEOREM CallersMeetAcceptors ==
    ASSUME FwdPri = FALSE
    PROVE  Spec => []NoMatchWaits
<1>1. Init => Steady /\ Linked /\ Asking /\ Idles BY WaitsInit, IdlesInit
<1>2. Steady /\ Linked /\ Asking /\ Idles /\ [Next]_vars
         => Steady' /\ Linked' /\ Asking' /\ Idles'
  BY WaitsStep, IdlesStep
<1>3. Linked /\ Asking /\ Idles => NoMatchWaits BY QueuesIdle
<1> QED BY <1>1, <1>2, <1>3, PTL DEF Spec

=============================================================================
