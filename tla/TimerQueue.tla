----------------------------- MODULE TimerQueue -----------------------------
(***************************************************************************)
(* The system time and the timer queue (uC3sigtim.c).  A time is a SYSTIM, *)
(* two words compared one after the other; the queue is a doubly linked    *)
(* list ordered by the time at which each entry is due, entries of one     *)
(* time in the order in which they were connected.  Tasks that wait with a *)
(* timeout, alarm handlers and cyclic handlers share these definitions.    *)
(***************************************************************************)
EXTENDS Naturals, Sequences, SequencesExt

CONSTANT Word    \* a UW counts modulo this

ASSUME WordAssumption == Word \in Nat \ {0}

UW == 0..(Word - 1)
Stamp == [utime : Nat, ltime : UW]

Zero == [utime |-> 0, ltime |-> 0]

(* The time a SYSTIM stands for. *)
Value(s) == s.utime * Word + s.ltime

(* Faults of the addition that the properties must notice. *)
AdvanceUncarried(s, d) == [utime |-> s.utime, ltime |-> (s.ltime + d) % Word]
AdvanceUnwrapped(s, d) == [utime |-> s.utime, ltime |-> s.ltime + d]

(* The time d later.  The carry into utime is recognised by the lower word *)
(* having become smaller.                                                  *)
Advance(s, d) ==
    LET l == (s.ltime + d) % Word IN
    [utime |-> IF l < s.ltime THEN s.utime + 1 ELSE s.utime, ltime |-> l]

(* A fault: an entry of the very same time counts as later. *)
LaterOrSame(a, b) ==
    \/ a.utime = b.utime /\ a.ltime >= b.ltime
    \/ a.utime > b.utime

Later(a, b) ==
    \/ a.utime = b.utime /\ a.ltime > b.ltime
    \/ a.utime > b.utime

(* The first position of q whose entry is due later than s; the end of q   *)
(* when there is none.                                                     *)
FirstLater(q, stime, s) ==
    CHOOSE k \in 1..(Len(q) + 1) :
        /\ \A i \in 1..(k - 1) : ~Later(stime[q[i]], s)
        /\ k <= Len(q) => Later(stime[q[k]], s)

(* _kernel_enqtim, once the due time of x is in stime *)
EnqTim(q, stime, x) == InsertAt(q, FirstLater(q, stime, stime[x]), x)

(* Disconnecting an entry, as every early end of a wait does in place. *)
Unlink(q, x) == RemoveFirst(q, x)

(* _kernel_sigtim takes entries off the front until one is not yet due. *)
DueOf(q, stime, now)  == SubSeq(q, 1, FirstLater(q, stime, now) - 1)
RestOf(q, stime, now) == SubSeq(q, FirstLater(q, stime, now), Len(q))

=============================================================================
