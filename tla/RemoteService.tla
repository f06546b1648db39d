--------------------------- MODULE RemoteService ---------------------------
(***************************************************************************)
(* What the multi-core extension promises: a service called on another     *)
(* core takes effect there once, at one moment between call and return,    *)
(* and its caller gets that answer.  A service posted from an interrupt    *)
(* handler takes effect once, later, in the order in which a core's box    *)
(* accepted the posts.                                                     *)
(***************************************************************************)
EXTENDS Naturals, Sequences

CONSTANTS Core, SyncReq, AsyncReq, InitObj, Effect(_, _), Answer(_, _), NONE

VARIABLES
    obj,    \* the kernel objects of each core
    box,    \* the posts a core has accepted and not yet executed
    call    \* the call in progress from each core, or NoCall

rvars == <<obj, box, call>>

NoCall == [to |-> NONE, req |-> NONE, done |-> FALSE, ans |-> NONE]
Calling(c) == call[c].to # NONE

RInit ==
    /\ obj = [c \in Core |-> InitObj]
    /\ box = [c \in Core |-> <<>>]
    /\ call = [c \in Core |-> NoCall]

Ask(c, d, r) ==
    /\ ~Calling(c) /\ d # c
    /\ call' = [call EXCEPT ![c] = [to |-> d, req |-> r, done |-> FALSE, ans |-> NONE]]
    /\ UNCHANGED <<obj, box>>

Serve(c) ==
    /\ Calling(c) /\ ~call[c].done
    /\ LET d == call[c].to  r == call[c].req IN
         /\ obj' = [obj EXCEPT ![d] = Effect(@, r)]
         /\ call' = [call EXCEPT ![c] = [to |-> d, req |-> r, done |-> TRUE,
                                         ans |-> Answer(obj[d], r)]]
    /\ UNCHANGED box

Return(c) ==
    /\ Calling(c) /\ call[c].done
    /\ call' = [call EXCEPT ![c] = NoCall]
    /\ UNCHANGED <<obj, box>>

Post(d, r) ==
    /\ box' = [box EXCEPT ![d] = Append(@, r)]
    /\ UNCHANGED <<obj, call>>

Execute(d) ==
    /\ box[d] # <<>>
    /\ obj' = [obj EXCEPT ![d] = Effect(@, Head(box[d]))]
    /\ box' = [box EXCEPT ![d] = Tail(@)]
    /\ UNCHANGED call

RNext ==
    \/ \E c, d \in Core, r \in SyncReq : Ask(c, d, r)
    \/ \E c \in Core : Serve(c) \/ Return(c) \/ Execute(c)
    \/ \E d \in Core, r \in AsyncReq : Post(d, r)

RSpec == RInit /\ [][RNext]_rvars

=============================================================================
