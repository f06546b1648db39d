---------------------------- MODULE DataChannel ----------------------------
(***************************************************************************)
(* One of the data queues of Objects, whichever it is, as a Channel.       *)
(***************************************************************************)
EXTENDS Objects

CONSTANT dtq1

ASSUME DataChannelAssumption == dtq1 \in Dtq /\ NONE \notin Nat

Channel1 == INSTANCE Channel WITH
    Value <- Data,
    cap  <- IF dtq1 \in objs THEN dtqcnt[dtq1] ELSE NONE,
    fifo <- "TPRI" \notin atr[dtq1],
    line <- IF dtq1 \in objs THEN Line(dtq1) ELSE <<>>,
    got  <- IF out[1] = dtq1 THEN out[2] ELSE NONE

(* A data queue keeps the promise of a channel: what a receiver gets is    *)
(* the head of one line of values, wherever in the ring or in a waiting    *)
(* sender the kernel keeps them.                                           *)
DataQueueIsChannel == Channel1!CSpec

=============================================================================
