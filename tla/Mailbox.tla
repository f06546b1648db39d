------------------------------- MODULE Mailbox -------------------------------
(***************************************************************************)
(* Mailboxes (uC3crembx.c, uC3delmbx.c, uC3sndmbx.c, uC3rcvmbx.c).  A      *)
(* message is the sender's memory, linked through its own header into the  *)
(* list of the mailbox or, with TA_MPRI, into the list of its priority.    *)
(* A list head holds the first and the last message; the last one means    *)
(* something only while there is a first.                                  *)
(***************************************************************************)
EXTENDS Waiting

CONSTANTS Mbx, Msg,
          MsgPri,     \* the priority in each message's header
          MaxMpri,
          MbxAtr      \* attributes to create mailboxes with

ASSUME MailboxAssumption ==
    /\ Mbx \subseteq Obj /\ NONE \notin Msg
    /\ MaxMpri \in Nat \ {0} /\ MsgPri \in [Msg -> 1..MaxMpri]
    /\ MbxAtr \subseteq SUBSET {"TPRI", "MPRI"}

VARIABLES
    top, btm,   \* the list heads; list 0 is that of a mailbox without MPRI
    msgque,     \* the link in each message
    sent        \* history: the messages in each mailbox, in order of arrival

mbxvars == <<top, btm, msgque, sent>>
Lists == 0..MaxMpri

MbxInit ==
    /\ top = [o \in Mbx |-> [l \in Lists |-> NONE]] /\ btm = top
    /\ msgque = [m \in Msg |-> NONE]
    /\ sent = [o \in Mbx |-> <<>>]

-----------------------------------------------------------------------------
ListOf(o, m) == IF "MPRI" \in atr[o] THEN MsgPri[m] ELSE 0

(* A list is empty if it has no first message; not, which is a fault, only *)
(* if it never had one.                                                    *)
NeverFilled(o, l) == btm[o][l] = NONE
Empty(o, l) == top[o][l] = NONE
Filled(o) == {l \in Lists : top[o][l] # NONE}

(* A message that is in no mailbox may be sent. *)
Own(m) == \A o \in Mbx : m \notin Members(sent[o])

CreMbx(o, a) ==
    /\ Create(o, a)
    /\ top' = [top EXCEPT ![o] = [l \in Lists |-> NONE]]
    /\ btm' = [btm EXCEPT ![o] = [l \in Lists |-> NONE]]
    /\ UNCHANGED <<msgque, sent>>

(* The messages in a mailbox that is deleted belong to their senders       *)
(* again.  What its memory and their links hold does not matter any more.  *)
DelMbx(o) ==
    /\ Delete(o)
    /\ top' = [top EXCEPT ![o] = [l \in Lists |-> NONE]]
    /\ btm' = [btm EXCEPT ![o] = [l \in Lists |-> NONE]]
    /\ msgque' = [m \in Msg |->
                    IF m \in Members(sent[o]) THEN NONE ELSE msgque[m]]
    /\ sent' = [sent EXCEPT ![o] = <<>>]

SndMbx(o, m) ==
    /\ o \in objs /\ Own(m)
    /\ IF sque[o] # <<>>
       THEN Wake({Head(sque[o])}) /\ Gives(o, m) /\ UNCHANGED mbxvars
       ELSE LET l == ListOf(o, m) IN
            /\ IF Empty(o, l)
               THEN /\ top' = [top EXCEPT ![o][l] = m]
                    /\ msgque' = [msgque EXCEPT ![m] = NONE]
               ELSE /\ msgque' = [msgque EXCEPT ![btm[o][l]] = m, ![m] = NONE]
                    /\ UNCHANGED top
            /\ btm' = [btm EXCEPT ![o][l] = m]
            /\ sent' = [sent EXCEPT ![o] = Append(@, m)]
            /\ GivesNothing /\ UNCHANGED waiting
    /\ UNCHANGED steady

(* _kernel_rcvmbx_2 looks at the lists from the most urgent one on. *)
RcvMbx(o) ==
    /\ o \in objs
    /\ \E l \in Filled(o) :
          /\ \A k \in Filled(o) : l <= k
          /\ Gives(o, top[o][l])
          /\ top' = [top EXCEPT ![o][l] = msgque[@]]
          /\ sent' = [sent EXCEPT ![o] = Keep(@, Msg \ {top[o][l]})]
    /\ UNCHANGED <<waiting, steady, btm, msgque>>

RcvMbxWait(t, o, timed) ==
    /\ Ready(t) /\ o \in objs /\ Filled(o) = {}
    /\ Block(t, o, "MBX", NONE, timed)
    /\ GivesNothing
    /\ UNCHANGED <<steady, mbxvars>>

MbxNext == \E o \in Mbx \cap ids :
    \/ \E a \in MbxAtr : CreMbx(o, a)
    \/ DelMbx(o) \/ RcvMbx(o)
    \/ \E m \in Msg : SndMbx(o, m)
    \/ \E t \in Task, timed \in BOOLEAN : RcvMbxWait(t, o, timed)

-----------------------------------------------------------------------------
MbxTypeOK ==
    /\ top \in [Mbx -> [Lists -> Msg \cup {NONE}]]
    /\ btm \in [Mbx -> [Lists -> Msg \cup {NONE}]]
    /\ msgque \in [Msg -> Msg \cup {NONE}] /\ sent \in [Mbx -> Seq(Msg)]

(* The messages in a list, in order of arrival. *)
InList(o, l) == Keep(sent[o], {m \in Msg : ListOf(o, m) = l})

(* The links of each list lead from its first message through those that   *)
(* arrived and were not received, in their order and no others, whatever   *)
(* btm and the links of received messages still say.                       *)
LinkedInOrder == \A o \in objs \cap Mbx, l \in Lists :
    LET s == InList(o, l)
    IN /\ top[o][l] = IF s = <<>> THEN NONE ELSE s[1]
       /\ s # <<>> => btm[o][l] = s[Len(s)]
       /\ \A i \in 1..Len(s) :
             msgque[s[i]] = IF i < Len(s) THEN s[i + 1] ELSE NONE

(* No task waits for a message that is there. *)
NoIdleMbx == \A o \in objs \cap Mbx : sque[o] # <<>> => Filled(o) = {}

=============================================================================
