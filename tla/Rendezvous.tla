----------------------------- MODULE Rendezvous -----------------------------
(***************************************************************************)
(* Rendezvous ports (uC3crepor.c, uC3delpor.c, uC3calpor.c, uC3acppor.c,   *)
(* uC3fwdpor.c, uC3rplrdv.c).  A caller waits in sque for an acceptor      *)
(* whose pattern has a bit of its own, an acceptor in que for such a       *)
(* caller.  When they meet the caller is in rendezvous, in no queue, until *)
(* somebody replies, who may be anybody: of the rendezvous number only the *)
(* caller's task identifier is looked at.  A rendezvous may be forwarded   *)
(* to another port.                                                        *)
(*                                                                         *)
(* par of a caller is its pattern, p4 and p5 of its control block: p4 is   *)
(* the size of its message until it is accepted and of the largest reply   *)
(* from then on, p5 the size of the largest reply at the port it called,   *)
(* which its buffer holds.  In rendezvous the pattern does not matter, and *)
(* neither does the port.                                                  *)
(***************************************************************************)
EXTENDS Waiting

CONSTANTS Por,
          Patterns,           \* the patterns to call and accept with
          MaxRmsz, MaxCmsz,   \* the largest reply and message of each port
          MsgSz, RplSz,       \* the sizes of messages and replies
          FwdPri,             \* bound: calls are forwarded into queues in
                              \* order of priority
          AcpTimed,           \* bound: whether acceptors have a timeout
          PorAtr              \* attributes to create each port with

ASSUME RendezvousAssumption ==
    /\ Por \subseteq Obj
    /\ MaxRmsz \in [Por -> Nat] /\ MaxCmsz \in [Por -> Nat]
    /\ {} \notin Patterns /\ MsgSz \subseteq Nat /\ RplSz \subseteq Nat
    /\ FwdPri \in BOOLEAN /\ AcpTimed \subseteq BOOLEAN
    /\ PorAtr \in [Por -> SUBSET SUBSET {"TPRI"}]

-----------------------------------------------------------------------------
(* The first task in the queue q whose pattern has a bit of ptn. *)
First(q, ptn, t) == \E i \in 1..Len(q) :
    /\ t = q[i] /\ par[t].ptn \cap ptn # {}
    /\ \A j \in 1..(i - 1) : par[q[j]].ptn \cap ptn = {}

(* A fault: only the first task is looked at. *)
MeetsHead(q, ptn) == q # <<>> /\ par[Head(q)].ptn \cap ptn # {}
Meets(q, ptn) == \E i \in 1..Len(q) : par[q[i]].ptn \cap ptn # {}

CrePor(o, a) == Create(o, a)

DelPor(o) == Delete(o)

Call(o, ptn, p4) == [ptn |-> ptn, p4 |-> p4, p5 |-> MaxRmsz[o]]

(* cal_por and tcal_por that find an acceptor: it is released and the      *)
(* caller is in rendezvous.                                                *)
CalPor(t, o, ptn, timed) ==
    /\ Ready(t) /\ o \in objs
    /\ \E a \in Task :
          /\ First(que[o], ptn, a)
          /\ que'  = Without(que, {a})
          /\ msts' = [msts EXCEPT ![a] = {"RDY"},
                        ![t] = {"WAI"} \cup (IF timed THEN {"TMR"} ELSE {})]
          /\ wsts' = [wsts EXCEPT ![a] = NONE, ![t] = "RDV"]
          /\ wobj' = [wobj EXCEPT ![a] = NONE]
          /\ par'  = [par EXCEPT ![a] = NONE, ![t] = Call(o, {}, MaxRmsz[o])]
          /\ timq' = (timq \ Timed({a})) \cup (IF timed THEN {t} ELSE {})
    /\ GivesNothing
    /\ UNCHANGED <<sque, steady>>

CalPorWait(t, o, ptn, cmsgsz, timed) ==
    /\ Ready(t) /\ o \in objs /\ cmsgsz <= MaxCmsz[o]
    /\ ~Meets(que[o], ptn)
    /\ Block(t, o, "CAL", Call(o, ptn, cmsgsz), timed)
    /\ GivesNothing
    /\ UNCHANGED steady

(* acp_por, pacp_por and tacp_por that find a caller *)
AcpPor(o, ptn) ==
    /\ o \in objs
    /\ \E c \in Task :
          /\ First(sque[o], ptn, c)
          /\ sque' = Without(sque, {c})
          /\ wsts' = [wsts EXCEPT ![c] = "RDV"]
          /\ wobj' = [wobj EXCEPT ![c] = NONE]
          /\ par'  = [par EXCEPT ![c].ptn = {}, ![c].p4 = MaxRmsz[o]]
    /\ GivesNothing
    /\ UNCHANGED <<que, msts, timq, steady>>

AcpPorWait(t, o, ptn, timed) ==
    /\ Ready(t) /\ o \in objs /\ ~Meets(sque[o], ptn)
    /\ Block(t, o, "ACP", [ptn |-> ptn], timed)
    /\ GivesNothing
    /\ UNCHANGED steady

InRdv(c) == Waits(c) /\ wsts[c] = "RDV"

(* A fault: the size of the reply at the new port is not looked at. *)
ForwardableToAny(c, o, cmsgsz) ==
    InRdv(c) /\ o \in objs /\ cmsgsz <= MaxCmsz[o] /\ cmsgsz <= par[c].p5

Forwardable(c, o, cmsgsz) ==
    /\ InRdv(c) /\ o \in objs /\ cmsgsz <= MaxCmsz[o]
    /\ cmsgsz <= par[c].p5 /\ MaxRmsz[o] <= par[c].p5

(* fwd_por to an acceptor that waits: only it changes queues *)
FwdPor(c, o, ptn, cmsgsz) ==
    /\ Forwardable(c, o, cmsgsz)
    /\ \E a \in Task :
          /\ First(que[o], ptn, a)
          /\ que'  = Without(que, {a})
          /\ msts' = [msts EXCEPT ![a] = {"RDY"}]
          /\ wsts' = [wsts EXCEPT ![a] = NONE]
          /\ wobj' = [wobj EXCEPT ![a] = NONE]
          /\ par'  = [par EXCEPT ![a] = NONE, ![c].p4 = MaxRmsz[o]]
          /\ timq' = timq \ Timed({a})
    /\ GivesNothing
    /\ UNCHANGED <<sque, steady>>

(* fwd_por to a port where the call has to wait again.  For a queue in     *)
(* order of priority the code keeps the flag TTS_FIFO where it means to    *)
(* drop it, and so drops the others.                                       *)
FwdPorWait(c, o, ptn, cmsgsz) ==
    LET tpri == "TPRI" \in atr[o] IN
    /\ Forwardable(c, o, cmsgsz) /\ ~Meets(que[o], ptn)
    /\ tpri => FwdPri
    /\ par'  = [par EXCEPT ![c].ptn = ptn, ![c].p4 = cmsgsz]
    /\ wobj' = [wobj EXCEPT ![c] = o]
    /\ wsts' = [wsts EXCEPT ![c] = "CAL"]
    /\ msts' = [msts EXCEPT ![c] = IF tpri THEN @ \cap {"FIFO"}
                                           ELSE @ \cup {"FIFO"}]
    /\ sque' = [sque EXCEPT ![o] = Enq(@, c, cpri, tpri)]
    /\ GivesNothing
    /\ UNCHANGED <<que, timq, steady>>

RplRdv(c, msgsz) ==
    /\ InRdv(c) /\ msgsz <= par[c].p4
    /\ Release({c}, {}, Timed({c}))
    /\ GivesNothing
    /\ UNCHANGED steady

PorNext ==
    \/ \E o \in Por \cap ids :
          \/ \E a \in PorAtr[o] : CrePor(o, a)
          \/ DelPor(o)
          \/ \E p \in Patterns :
                \/ AcpPor(o, p)
                \/ \E t \in Task, timed \in BOOLEAN :
                      \/ CalPor(t, o, p, timed)
                      \/ timed \in AcpTimed /\ AcpPorWait(t, o, p, timed)
                      \/ \E n \in MsgSz : CalPorWait(t, o, p, n, timed)
                \/ \E c \in Task, n \in MsgSz :
                      FwdPor(c, o, p, n) \/ FwdPorWait(c, o, p, n)
    \/ \E c \in Task, n \in RplSz : RplRdv(c, n)

-----------------------------------------------------------------------------
(* A reply that is accepted fits the buffer the caller gave at the first   *)
(* port, wherever the call was forwarded and whatever size its message had *)
(* on the way.                                                             *)
ReplyFits == \A c \in Task : InRdv(c) => par[c].p4 <= par[c].p5

(* A caller and an acceptor whose patterns meet do not both wait. *)
NoMatchWaits == \A o \in objs \cap Por :
    \A i \in 1..Len(que[o]), j \in 1..Len(sque[o]) :
        par[que[o][i]].ptn \cap par[sque[o][j]].ptn = {}

(* A task in the call queue of a port waits there. *)
CallersWait == \A o \in Por : \A i \in 1..Len(sque[o]) :
    Waits(sque[o][i]) /\ wsts[sque[o][i]] = "CAL"

=============================================================================
