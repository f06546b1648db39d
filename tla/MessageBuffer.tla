---------------------------- MODULE MessageBuffer ----------------------------
(***************************************************************************)
(* Message buffers (uC3crembf.c, uC3delmbf.c, uC3sndmbf.c, uC3rcvmbf.c): a *)
(* ring of bytes that holds each message behind a header with its length.  *)
(* Receivers wait in que, senders in sque with their message in par.       *)
(*                                                                         *)
(* A byte of the header stands for the length, a byte of a message for the *)
(* message.  As in MemPool the iterations of _kernel_chkmbf, which serves  *)
(* the senders in the order of the queue while the first one's message     *)
(* fits, are steps during which nothing else happens.                      *)
(***************************************************************************)
EXTENDS Waiting

CONSTANTS Mbf, Mail,
          MailSz,       \* the length of each message
          MbfSz,        \* the sizes of buffers to create
          MaxMsz,       \* the largest length of a message of each buffer
          MbfAtr        \* attributes to create buffers with

ASSUME MessageBufferAssumption ==
    /\ Mbf \subseteq Obj /\ NONE \notin Mail
    /\ MbfSz \subseteq Nat /\ MaxMsz \in [Mbf -> Nat \ {0}]
    /\ MailSz \in [Mail -> Nat \ {0}]
    /\ MbfAtr \subseteq SUBSET {"TPRI"}

(* A length is a half word, in the call and in the header. *)
ASSUME LengthAssumption == \A o \in Mbf : MaxMsz[o] < 65536

VARIABLES
    mbfsz, frsz,    \* size of each ring and of what is free in it
    putp, getp,     \* where to put and to get the next byte
    mbf,            \* the ring
    mcnt,           \* mbf->cnt: the number of messages in it
    mail            \* history: the messages in it
mbfvars == <<mbfsz, frsz, putp, getp, mbf, mcnt, mail>>

MbfInit ==
    /\ mbfsz = [o \in Mbf |-> 0] /\ frsz = mbfsz /\ putp = mbfsz /\ getp = mbfsz
    /\ mcnt = mbfsz
    /\ mbf = [o \in Mbf |-> <<>>] /\ mail = mbf

-----------------------------------------------------------------------------
Header(o) == IF MaxMsz[o] = 1 THEN 0 ELSE IF MaxMsz[o] < 256 THEN 1 ELSE 2

Space(o, m) == MailSz[m] + Header(o)
Fit(o, m)   == frsz[o] >= Space(o, m)

(* A fault: what does not fit before the ring's end is put at its start. *)
AlongNotAcross(o, p, n) == IF p + n >= mbfsz[o] THEN 0 ELSE p + n

(* Where n bytes from p on end; the ring's end is followed by its start. *)
Along(o, p, n) ==
    IF mbfsz[o] - p < n THEN n - (mbfsz[o] - p)
    ELSE IF p + n >= mbfsz[o] THEN 0 ELSE p + n

(* How far the byte i lies behind p. *)
Behind(o, p, i) == IF i >= p THEN i - p ELSE i + mbfsz[o] - p

(* _kernel_putmbf: the header, then the message *)
PutMbf(o, m) ==
    LET start == Along(o, putp[o], Header(o))
    IN /\ mbf' = [mbf EXCEPT ![o] = [i \in DOMAIN @ |->
                    IF Behind(o, putp[o], i) < Header(o) THEN MailSz[m]
                    ELSE IF Behind(o, start, i) < MailSz[m] THEN m ELSE @[i]]]
       /\ putp' = [putp EXCEPT ![o] = Along(o, start, MailSz[m])]
       /\ frsz' = [frsz EXCEPT ![o] = @ - Space(o, m)]
       /\ mcnt' = [mcnt EXCEPT ![o] = @ + 1]
       /\ mail' = [mail EXCEPT ![o] = Append(@, m)]
       /\ UNCHANGED <<mbfsz, getp>>

CreMbf(o, a, n) ==
    /\ Create(o, a)
    /\ mbfsz' = [mbfsz EXCEPT ![o] = n] /\ frsz' = [frsz EXCEPT ![o] = n]
    /\ mbf' = [mbf EXCEPT ![o] = [i \in 0..(n - 1) |-> NONE]]
    /\ UNCHANGED <<putp, getp, mcnt, mail>>

DelMbf(o) ==
    /\ Delete(o)
    /\ mbfsz' = [mbfsz EXCEPT ![o] = 0] /\ frsz' = [frsz EXCEPT ![o] = 0]
    /\ putp' = [putp EXCEPT ![o] = 0] /\ getp' = [getp EXCEPT ![o] = 0]
    /\ mcnt' = [mcnt EXCEPT ![o] = 0]
    /\ mbf' = [mbf EXCEPT ![o] = <<>>] /\ mail' = [mail EXCEPT ![o] = <<>>]

(* snd_mbf, psnd_mbf and tsnd_mbf that need not wait: a message that fits  *)
(* goes past those of the senders that wait.                               *)
SndMbf(o, m) ==
    /\ o \in objs /\ MailSz[m] <= MaxMsz[o]
    /\ IF que[o] # <<>>
       THEN Wake({Head(que[o])}) /\ Gives(o, m) /\ UNCHANGED mbfvars
       ELSE Fit(o, m) /\ PutMbf(o, m) /\ GivesNothing /\ UNCHANGED waiting
    /\ UNCHANGED steady

SndMbfWait(t, o, m, timed) ==
    /\ Ready(t) /\ o \in objs /\ MailSz[m] <= MaxMsz[o]
    /\ que[o] = <<>> /\ ~Fit(o, m)
    /\ Block(t, o, "SMBF", m, timed)
    /\ GivesNothing
    /\ UNCHANGED <<steady, mbfvars>>

(* The length of the message that begins at p, and its first byte. *)
Length(o, p)  == IF Header(o) = 0 THEN 1 ELSE mbf[o][p]
Content(o, p) == mbf[o][Along(o, p, Header(o))]

(* rcv_mbf, prcv_mbf and trcv_mbf that need not wait.  The bytes that were *)
(* read stay in the ring and are marked here as void.  The senders that    *)
(* wait are looked at if the message came from the ring; if it came from   *)
(* the first of them, those behind it are not.                             *)
RcvMbf(o) ==
    /\ o \in objs
    /\ IF frsz[o] # mbfsz[o]
       THEN LET n == Length(o, getp[o]) IN
            /\ Gives(o, Content(o, getp[o]))
            /\ getp' = [getp EXCEPT ![o] = Along(o, Along(o, @, Header(o)), n)]
            /\ frsz' = [frsz EXCEPT ![o] = @ + Header(o) + n]
            /\ mcnt' = [mcnt EXCEPT ![o] = @ - 1]
            /\ mbf'  = [mbf EXCEPT ![o] = [i \in DOMAIN @ |->
                    IF Behind(o, getp[o], i) < Header(o) + n THEN NONE ELSE @[i]]]
            /\ mail' = [mail EXCEPT ![o] = Tail(@)]
            /\ chk' = o
            /\ UNCHANGED <<mbfsz, putp, waiting, owed>>
       ELSE /\ sque[o] # <<>>
            /\ Gives(o, par[Head(sque[o])])
            /\ Wake({Head(sque[o])})
            /\ owed' = IF Len(sque[o]) > 1 /\ Fit(o, par[sque[o][2]])
                       THEN owed \cup {o} ELSE owed
            /\ UNCHANGED <<mbfvars, chk>>
    /\ UNCHANGED <<ids, objs, atr, cpri, post>>

RcvMbfWait(t, o, timed) ==
    /\ Ready(t) /\ o \in objs
    /\ frsz[o] = mbfsz[o] /\ sque[o] = <<>>
    /\ Block(t, o, "RMBF", NONE, timed)
    /\ GivesNothing
    /\ UNCHANGED <<steady, mbfvars>>

(* _kernel_chkmbf: an iteration, or the end of the loop *)
ChkMbf(o) ==
    /\ chk = o /\ o \in objs
    /\ IF sque[o] # <<>> /\ Fit(o, par[Head(sque[o])])
       THEN /\ PutMbf(o, par[Head(sque[o])])
            /\ Wake({Head(sque[o])})
            /\ UNCHANGED <<chk, owed>>
       ELSE /\ chk' = NONE /\ owed' = owed \ {o}
            /\ UNCHANGED <<mbfvars, waiting>>
    /\ GivesNothing
    /\ UNCHANGED <<ids, objs, atr, cpri, post>>

MbfNext == \E o \in Mbf \cap ids :
    \/ \E a \in MbfAtr, n \in MbfSz : CreMbf(o, a, n)
    \/ DelMbf(o) \/ RcvMbf(o)
    \/ \E m \in Mail : SndMbf(o, m)
    \/ \E t \in Task, timed \in BOOLEAN :
          \/ \E m \in Mail : SndMbfWait(t, o, m, timed)
          \/ RcvMbfWait(t, o, timed)

-----------------------------------------------------------------------------
MbfTypeOK ==
    /\ mbfsz \in [Mbf -> Nat] /\ frsz \in [Mbf -> Nat]
    /\ putp \in [Mbf -> Nat] /\ getp \in [Mbf -> Nat] /\ mcnt \in [Mbf -> Nat]
    /\ mail \in [Mbf -> Seq(Mail)]
    /\ \A o \in Mbf : frsz[o] <= mbfsz[o] /\ mcnt[o] = Len(mail[o])

(* The bytes that the first k messages of q take in the ring of o. *)
Taking(o, q, k) ==
    LET bytes[j \in 0..Len(q)] ==
            IF j = 0 THEN 0 ELSE bytes[j - 1] + Space(o, q[j])
    IN bytes[k]

(* Reading the ring from getp on gives the messages that were put and not  *)
(* received, in their order, each whole with its length, across the end of *)
(* the ring too; and what they take and what is free is all there is.      *)
RingHolds == \A o \in objs \cap Mbf :
    LET used(k)  == Taking(o, mail[o], k)
        at(i)    == Along(o, getp[o], i)
    IN /\ frsz[o] + used(Len(mail[o])) = mbfsz[o]
       /\ mail[o] # <<>> => putp[o] = at(used(Len(mail[o])))
       /\ \A k \in 1..Len(mail[o]) : \A i \in 0..(Space(o, mail[o][k]) - 1) :
             mbf[o][at(used(k - 1) + i)] =
                IF i < Header(o) THEN MailSz[mail[o][k]] ELSE mail[o][k]

(* A receiver waits only while the ring is empty and no sender waits; a    *)
(* sender that is the first waits for room that is not there, unless it    *)
(* became the first by a timeout, or by a message that was taken from the  *)
(* sender before it, since the queue was last looked at.                   *)
NoIdleMbf == \A o \in objs \cap Mbf :
    /\ que[o] # <<>> => frsz[o] = mbfsz[o] /\ sque[o] = <<>>
    /\ chk = NONE /\ sque[o] # <<>> /\ Fit(o, par[Head(sque[o])])
          => o \in owed

=============================================================================
