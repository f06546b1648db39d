------------------------------- MODULE Channel -------------------------------
(***************************************************************************)
(* What a data queue promises: one line of values.  The first cap of them  *)
(* are stored, those behind belong to senders that still wait.  Where they *)
(* are kept, and when one moves from a sender into the storage, does not   *)
(* show: what a receiver gets is always the head of the line.              *)
(***************************************************************************)
EXTENDS Naturals, Sequences, SequencesExt

CONSTANTS Value,
          NONE

VARIABLES
    cap,    \* how many values are stored; NONE: the channel does not exist
    fifo,   \* senders wait in order of arrival, not of priority
    line,   \* the values, stored or waiting
    got     \* what the last step gave to a receiver

cvars == <<cap, fifo, line, got>>

CInit == cap = NONE /\ fifo \in BOOLEAN /\ line = <<>> /\ got = NONE

Open ==
    /\ cap = NONE /\ cap' \in Nat /\ fifo' \in BOOLEAN
    /\ line' = <<>> /\ got' = NONE

Close == cap # NONE /\ cap' = NONE /\ fifo' \in BOOLEAN /\ line' = <<>> /\ got' = NONE

(* A value joins the end of the line; if it has to wait in order of        *)
(* priority, any place behind the stored ones.                             *)
Put(v) ==
    /\ cap # NONE
    /\ \/ line' = Append(line, v)
       \/ ~fifo /\ \E i \in (cap + 1)..Len(line) : line' = InsertAt(line, i, v)
    /\ got' = NONE
    /\ UNCHANGED <<cap, fifo>>

(* A receiver waits: the value goes to it, past an empty line. *)
Pass(v) == cap # NONE /\ line = <<>> /\ got' = v /\ UNCHANGED <<cap, fifo, line>>

Get ==
    /\ cap # NONE /\ line # <<>>
    /\ got' = Head(line) /\ line' = Tail(line)
    /\ UNCHANGED <<cap, fifo>>

(* A forced value that finds the storage full takes the oldest one's place *)
(* and is the last of the stored ones.                                     *)
Overwrite(v) ==
    /\ cap # NONE /\ cap # 0 /\ Len(line) >= cap
    /\ line' = InsertAt(Tail(line), cap, v) /\ got' = NONE
    /\ UNCHANGED <<cap, fifo>>

(* A sender that waits gives up, *)
GiveUp ==
    /\ cap # NONE
    /\ \E i \in (cap + 1)..Len(line) : line' = RemoveAt(line, i)
    /\ got' = NONE
    /\ UNCHANGED <<cap, fifo>>

(* or another priority gives it another place. *)
Move ==
    /\ cap # NONE /\ ~fifo
    /\ \E i, j \in (cap + 1)..Len(line) :
          line' = InsertAt(RemoveAt(line, i), j, line[i])
    /\ got' = NONE
    /\ UNCHANGED <<cap, fifo>>

(* What was given is not given any longer. *)
Pause == got' = NONE /\ UNCHANGED <<cap, fifo, line>>

CNext ==
    \/ Open \/ Close \/ Get \/ GiveUp \/ Move \/ Pause
    \/ \E v \in Value : Put(v) \/ Pass(v) \/ Overwrite(v)

CSpec == CInit /\ [][CNext]_cvars

=============================================================================
