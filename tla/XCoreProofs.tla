---------------------------- MODULE XCoreProofs ----------------------------
(***************************************************************************)
(* Theorems about XCore, for any cores, services and size of the rings: no *)
(* request is forgotten; and XCore implements RemoteService: a call takes  *)
(* effect once, between call and return, and its caller gets that answer;  *)
(* posts take effect in the order of the ring.                             *)
(***************************************************************************)
EXTENDS XCore, SequenceTheorems, TLAPS

InCall(c) == sys[c] \in {"try", "fill", "signal", "wait", "clear", "release"}
Holds(c) == sys[c] \in {"fill", "signal", "wait", "clear", "release"}

(* What the callers and handlers know about their own request. *)
RequestInv ==
    \A c \in Core :
        /\ InCall(c) => to[c] \in Core /\ to[c] # c /\ req[c] \in SyncReq
        /\ ~InCall(c) => to[c] = NONE
        /\ isr[c] # "none" => ito[c] \in Core /\ ireq[c] \in AsyncReq

(* A table is locked by the caller that holds it, and by nobody else.      *)
LockInv ==
    /\ \A c \in Core : Holds(c) => slock[to[c]] = c
    /\ \A d \in Core : slock[d] # FREE => Holds(slock[d]) /\ to[slock[d]] = d

(* A table has a function from the moment its holder put it there until it *)
(* cleared it, and is finished from the answer until it is released.       *)
TableInv ==
    /\ \A d \in Core : func[d] => /\ slock[d] # FREE
                                  /\ sys[slock[d]] \in {"signal", "wait", "clear"}
    /\ \A c \in Core : sys[c] \in {"signal", "wait", "clear"} =>
                          func[to[c]] /\ cmd[to[c]] = req[c]
    /\ \A d \in Core : fin[d] => /\ slock[d] # FREE
                                 /\ sys[slock[d]] \in {"signal", "wait", "clear", "release"}
    /\ \A c \in Core : sys[c] \in {"clear", "release"} => fin[to[c]]

(* A server that has begun with a request has the only one there is.       *)
ServerInv ==
    \A d \in Core :
        /\ serve[d] \in {"func", "run", "finish"} => ~fin[d]
        /\ serve[d] \in {"run", "finish"} => func[d]
        /\ serve[d] # "none" => sys[d] \in {"try", "wait", "own"}
        /\ sys[d] = "own" => serve[d] # "none"

(* The driver's block is marked while it is queued or about to be unmarked *)
DriverInv ==
    \A d \in Core :
        /\ p1[d] <=> queued[d] \/ sys[d] = "unmark"
        /\ ~(queued[d] /\ sys[d] = "unmark")
        /\ sys[d] = "take" => cnt[d] > 0

(* Every core has room for an answer, whatever answers are. *)
AnswerInv == DOMAIN reply = Core /\ DOMAIN got = Core

XInv == XTypeOK /\ RequestInv /\ LockInv /\ TableInv /\ ServerInv /\ DriverInv
        /\ AnswerInv /\ NoRequestForgotten

-----------------------------------------------------------------------------
(* The invariant holds at first. *)
LEMMA InitInv == XInit => XInv
<1> SUFFICES ASSUME XInit PROVE XInv OBVIOUS
<1>1. XTypeOK
  BY XCoreAssumption DEF XInit, XTypeOK
<1>2. RequestInv /\ LockInv /\ TableInv /\ ServerInv /\ DriverInv /\ AnswerInv
  BY XCoreAssumption DEF XInit, RequestInv, LockInv, TableInv, ServerInv, DriverInv, AnswerInv,
     InCall, Holds
<1>3. NoRequestForgotten
  BY DEF XInit, NoRequestForgotten
<1> QED BY <1>1, <1>2, <1>3 DEF XInv

(* What the assumptions on the constants say of the cores and the rings. *)
LEMMA Constants ==
    FREE \notin Core /\ NONE \notin Core /\ async_max \in Nat \ {0} /\ MaxWork \in Nat
BY XCoreAssumption

(* From here on groups of variables and the control of a core are spelt out. *)
USE DEF asynctbl, synctbl, signals, system, handler, At, Goto, Serving, Handling

(* A step preserves the types. *)
LEMMA TypeStep == XInv /\ [XNext]_xvars => XTypeOK'
<1> SUFFICES ASSUME XInv, [XNext]_xvars PROVE XTypeOK' OBVIOUS
<1> USE DEF XInv, XTypeOK
<1>1. ASSUME NEW c \in Core, NEW d \in Core, NEW r \in SyncReq, Call(c, d, r) PROVE XTypeOK'
  BY <1>1, Constants DEF Call
<1>2. ASSUME NEW c \in Core, Lock(c) PROVE XTypeOK'
  BY <1>2, Constants DEF Lock, RequestInv, InCall
<1>3. ASSUME NEW c \in Core, Attend(c) PROVE XTypeOK'
  BY <1>3, Constants DEF Attend
<1>4. ASSUME NEW c \in Core, Publish(c) PROVE XTypeOK'
  BY <1>4, Constants DEF Publish, RequestInv, InCall
<1>5. ASSUME NEW c \in Core, Signal(c) PROVE XTypeOK'
  BY <1>5, Constants DEF Signal, RequestInv, InCall
<1>6. ASSUME NEW c \in Core, Receive(c) PROVE XTypeOK'
  BY <1>6, Constants DEF Receive
<1>7. ASSUME NEW c \in Core, ClearFunc(c) PROVE XTypeOK'
  BY <1>7, Constants DEF ClearFunc
<1>8. ASSUME NEW c \in Core, Release(c) PROVE XTypeOK'
  BY <1>8, Constants DEF Release
<1>9. ASSUME NEW c \in Core, SeeFin(c) PROVE XTypeOK'
  BY <1>9, Constants DEF SeeFin
<1>10. ASSUME NEW c \in Core, SeeFunc(c) PROVE XTypeOK'
  BY <1>10, Constants DEF SeeFunc
<1>11. ASSUME NEW c \in Core, SeeNothing(c) PROVE XTypeOK'
  BY <1>11, Constants DEF SeeNothing, Leave
<1>12. ASSUME NEW c \in Core, Run(c) PROVE XTypeOK'
  BY <1>12, Constants DEF Run
<1>13. ASSUME NEW c \in Core, Finish(c) PROVE XTypeOK'
  BY <1>13, Constants DEF Finish, Leave
<1>14. ASSUME NEW c \in Core, Begin(c) PROVE XTypeOK'
  BY <1>14, Constants DEF Begin
<1>15. ASSUME NEW c \in Core, Unmark(c) PROVE XTypeOK'
  BY <1>15, Constants DEF Unmark
<1>16. ASSUME NEW c \in Core, Look(c) PROVE XTypeOK'
  BY <1>16, Constants DEF Look
<1>17. ASSUME NEW c \in Core, Drained(c) PROVE XTypeOK'
  BY <1>17, Constants DEF Drained
<1>18. ASSUME NEW c \in Core, Take(c) PROVE XTypeOK'
  BY <1>18, Constants DEF Take, DriverInv, Oldest
<1>19. ASSUME NEW c \in Core, Execute(c) PROVE XTypeOK'
  BY <1>19, Constants DEF Execute
<1>20. ASSUME NEW c \in Core, Sgi(c) PROVE XTypeOK'
  BY <1>20, Constants DEF Sgi
<1>21. ASSUME NEW c \in Core, NEW d \in Core, NEW r \in AsyncReq, Interrupt(c, d, r)
      PROVE XTypeOK'
  BY <1>21, Constants DEF Interrupt
<1>22. ASSUME NEW c \in Core, Put(c) PROVE XTypeOK'
  BY <1>22, Constants DEF Put, RequestInv, Following
<1>23. ASSUME NEW c \in Core, Refuse(c) PROVE XTypeOK'
  BY <1>23, Constants DEF Refuse, RequestInv
<1>24. ASSUME NEW c \in Core, Posted(c) PROVE XTypeOK'
  BY <1>24, Constants DEF Posted, RequestInv
<1>25. ASSUME NEW c \in Core, Refused(c) PROVE XTypeOK'
  BY <1>25, Constants DEF Refused, Returned, RequestInv
<1>26. ASSUME NEW c \in Core, Notify(c) PROVE XTypeOK'
  BY <1>26, Constants DEF Notify, Returned, RequestInv
<1>27. CASE UNCHANGED xvars
  BY <1>27 DEF xvars
<1> QED
  BY <1>1, <1>2, <1>3, <1>4, <1>5, <1>6, <1>7, <1>8, <1>9, <1>10, <1>11, <1>12, <1>13,
     <1>14, <1>15, <1>16, <1>17, <1>18, <1>19, <1>20, <1>21, <1>22, <1>23, <1>24, <1>25,
     <1>26, <1>27 DEF XNext, Caller, Server, Driver, Handler

(* A step preserves what is known of requests. *)
LEMMA RequestStep == XInv /\ [XNext]_xvars => RequestInv'
<1> SUFFICES ASSUME XInv, [XNext]_xvars PROVE RequestInv' OBVIOUS
<1> USE DEF XInv, XTypeOK, RequestInv, InCall, ServerInv
<1>1. ASSUME NEW c \in Core, NEW d \in Core, NEW r \in SyncReq, Call(c, d, r) PROVE RequestInv'
  <2>1. d # c
    BY <1>1, XCoreAssumption DEF Call
  <2> QED BY <1>1, <2>1 DEF Call
<1>2. ASSUME NEW c \in Core, Lock(c) PROVE RequestInv'
  BY <1>2, Constants DEF Lock
<1>3. ASSUME NEW c \in Core, Publish(c) PROVE RequestInv'
  BY <1>3, Constants DEF Publish
<1>4. ASSUME NEW c \in Core, Signal(c) PROVE RequestInv'
  BY <1>4, Constants DEF Signal
<1>5. ASSUME NEW c \in Core, Receive(c) PROVE RequestInv'
  BY <1>5, Constants DEF Receive
<1>6. ASSUME NEW c \in Core, ClearFunc(c) PROVE RequestInv'
  BY <1>6, Constants DEF ClearFunc
<1>7. ASSUME NEW c \in Core, Release(c) PROVE RequestInv'
  BY <1>7, Constants DEF Release
<1>8. ASSUME NEW c \in Core, SeeNothing(c) PROVE RequestInv'
  BY <1>8, Constants DEF SeeNothing, Leave
<1>9. ASSUME NEW c \in Core, Finish(c) PROVE RequestInv'
  BY <1>9, Constants DEF Finish, Leave
<1>10. ASSUME NEW c \in Core, Driver(c) PROVE RequestInv'
  <2>1. \A d \in Core : InCall(d)' <=> InCall(d)
    BY <1>10 DEF Driver, Begin, Unmark, Look, Drained, Take, Execute
  <2>2. UNCHANGED <<to, req, isr, ito, ireq>>
    BY <1>10 DEF Driver, Begin, Unmark, Look, Drained, Take, Execute
  <2> HIDE DEF InCall, ServerInv, XTypeOK
  <2> QED BY <2>1, <2>2
<1>11. ASSUME NEW c \in Core, NEW d \in Core, NEW r \in AsyncReq, Interrupt(c, d, r)
      PROVE RequestInv'
  BY <1>11, Constants DEF Interrupt
<1>12. ASSUME NEW c \in Core, Put(c) PROVE RequestInv'
  BY <1>12, Constants DEF Put
<1>13. ASSUME NEW c \in Core, Refuse(c) PROVE RequestInv'
  BY <1>13, Constants DEF Refuse
<1>14. ASSUME NEW c \in Core, Posted(c) PROVE RequestInv'
  BY <1>14, Constants DEF Posted
<1>15. ASSUME NEW c \in Core, Refused(c) PROVE RequestInv'
  BY <1>15, Constants DEF Refused, Returned
<1>16. ASSUME NEW c \in Core, Notify(c) PROVE RequestInv'
  BY <1>16, Constants DEF Notify, Returned
<1>17. ASSUME NEW c \in Core,
           \/ Attend(c) \/ SeeFin(c) \/ SeeFunc(c) \/ Run(c) \/ Sgi(c)
    PROVE  UNCHANGED <<sys, to, req, isr, ito, ireq>>
  BY <1>17 DEF Attend, SeeFin, SeeFunc, Run, Sgi
<1>18. CASE UNCHANGED <<sys, to, req, isr, ito, ireq>>
  BY <1>18
<1>19. CASE UNCHANGED xvars
  BY <1>18, <1>19 DEF xvars
<1> QED
  BY <1>1, <1>2, <1>3, <1>4, <1>5, <1>6, <1>7, <1>8, <1>9, <1>10, <1>11, <1>12, <1>13, <1>14, <1>15, <1>16,
     <1>17, <1>18, <1>19 DEF XNext, Caller, Server, Handler

(* A step preserves the ownership of tables. *)
LEMMA LockStep == XInv /\ [XNext]_xvars => LockInv'
<1> SUFFICES ASSUME XInv, [XNext]_xvars PROVE LockInv' OBVIOUS
<1> USE DEF XInv, XTypeOK, RequestInv, LockInv, ServerInv, InCall, Holds
<1>1. ASSUME NEW c \in Core, NEW d \in Core, NEW r \in SyncReq, Call(c, d, r) PROVE LockInv'
  BY <1>1, Constants DEF Call
<1>2. ASSUME NEW c \in Core, Lock(c) PROVE LockInv'
  BY <1>2, Constants DEF Lock
<1>3. ASSUME NEW c \in Core, Publish(c) PROVE LockInv'
  BY <1>3, Constants DEF Publish
<1>4. ASSUME NEW c \in Core, Signal(c) PROVE LockInv'
  BY <1>4, Constants DEF Signal
<1>5. ASSUME NEW c \in Core, Receive(c) PROVE LockInv'
  BY <1>5, Constants DEF Receive
<1>6. ASSUME NEW c \in Core, ClearFunc(c) PROVE LockInv'
  BY <1>6, Constants DEF ClearFunc
<1>7. ASSUME NEW c \in Core, Release(c) PROVE LockInv'
  BY <1>7, Constants DEF Release
<1>8. ASSUME NEW c \in Core, SeeNothing(c) PROVE LockInv'
  BY <1>8, Constants DEF SeeNothing, Leave
<1>9. ASSUME NEW c \in Core, Finish(c) PROVE LockInv'
  BY <1>9, Constants DEF Finish, Leave
<1>10. ASSUME NEW c \in Core, Begin(c) PROVE LockInv'
  BY <1>10, Constants DEF Begin
<1>11. ASSUME NEW c \in Core, Unmark(c) PROVE LockInv'
  BY <1>11, Constants DEF Unmark
<1>12. ASSUME NEW c \in Core, Look(c) PROVE LockInv'
  BY <1>12, Constants DEF Look
<1>13. ASSUME NEW c \in Core, Drained(c) PROVE LockInv'
  BY <1>13, Constants DEF Drained
<1>14. ASSUME NEW c \in Core, Take(c) PROVE LockInv'
  BY <1>14, Constants DEF Take
<1>15. ASSUME NEW c \in Core, Execute(c) PROVE LockInv'
  BY <1>15, Constants DEF Execute
<1>16. ASSUME NEW c \in Core,
           \/ Attend(c) \/ SeeFin(c) \/ SeeFunc(c) \/ Run(c) \/ Sgi(c) \/ Put(c)
           \/ Refuse(c) \/ Posted(c) \/ Refused(c) \/ Notify(c)
           \/ \E d \in Core, r \in AsyncReq : Interrupt(c, d, r)
    PROVE  UNCHANGED <<sys, to, slock>>
  BY <1>16 DEF Attend, SeeFin, SeeFunc, Run, Sgi, Put, Refuse, Posted, Refused,
     Notify, Interrupt
<1>17. CASE UNCHANGED <<sys, to, slock>>
  BY <1>17
<1>18. CASE UNCHANGED xvars
  BY <1>17, <1>18 DEF xvars
<1> QED
  BY <1>1, <1>2, <1>3, <1>4, <1>5, <1>6, <1>7, <1>8, <1>9, <1>10, <1>11, <1>12, <1>13,
     <1>14, <1>15, <1>16, <1>17, <1>18 DEF XNext, Caller, Server, Driver, Handler

(* A step preserves the order in which a table is used. *)
LEMMA TableStep == XInv /\ [XNext]_xvars => TableInv'
<1> SUFFICES ASSUME XInv, [XNext]_xvars PROVE TableInv' OBVIOUS
<1> USE DEF XInv, XTypeOK, RequestInv, LockInv, TableInv, ServerInv, InCall, Holds
<1>1. ASSUME NEW c \in Core, NEW d \in Core, NEW r \in SyncReq, Call(c, d, r) PROVE TableInv'
  BY <1>1, Constants DEF Call
<1>2. ASSUME NEW c \in Core, Lock(c) PROVE TableInv'
  BY <1>2, Constants DEF Lock
<1>3. ASSUME NEW c \in Core, Publish(c) PROVE TableInv'
  BY <1>3, Constants DEF Publish
<1>4. ASSUME NEW c \in Core, Signal(c) PROVE TableInv'
  BY <1>4, Constants DEF Signal
<1>5. ASSUME NEW c \in Core, Receive(c) PROVE TableInv'
  BY <1>5, Constants DEF Receive
<1>6. ASSUME NEW c \in Core, ClearFunc(c) PROVE TableInv'
  BY <1>6, Constants DEF ClearFunc
<1>7. ASSUME NEW c \in Core, Release(c) PROVE TableInv'
  BY <1>7, Constants DEF Release
<1>8. ASSUME NEW c \in Core, SeeNothing(c) PROVE TableInv'
  BY <1>8, Constants DEF SeeNothing, Leave
<1>9. ASSUME NEW c \in Core, Finish(c) PROVE TableInv'
  BY <1>9, Constants DEF Finish, Leave
<1>10. ASSUME NEW c \in Core, Begin(c) PROVE TableInv'
  BY <1>10, Constants DEF Begin
<1>11. ASSUME NEW c \in Core, Unmark(c) PROVE TableInv'
  BY <1>11, Constants DEF Unmark
<1>12. ASSUME NEW c \in Core, Look(c) PROVE TableInv'
  BY <1>12, Constants DEF Look
<1>13. ASSUME NEW c \in Core, Drained(c) PROVE TableInv'
  BY <1>13, Constants DEF Drained
<1>14. ASSUME NEW c \in Core, Take(c) PROVE TableInv'
  BY <1>14, Constants DEF Take
<1>15. ASSUME NEW c \in Core, Execute(c) PROVE TableInv'
  BY <1>15, Constants DEF Execute
<1>16. ASSUME NEW c \in Core,
           \/ Attend(c) \/ SeeFin(c) \/ SeeFunc(c) \/ Run(c) \/ Sgi(c) \/ Put(c)
           \/ Refuse(c) \/ Posted(c) \/ Refused(c) \/ Notify(c)
           \/ \E d \in Core, r \in AsyncReq : Interrupt(c, d, r)
    PROVE  UNCHANGED <<sys, to, req, slock, fin, func, cmd>>
  BY <1>16 DEF Attend, SeeFin, SeeFunc, Run, Sgi, Put, Refuse, Posted, Refused,
     Notify, Interrupt
<1>17. CASE UNCHANGED <<sys, to, req, slock, fin, func, cmd>>
  BY <1>17
<1>18. CASE UNCHANGED xvars
  BY <1>17, <1>18 DEF xvars
<1> QED
  BY <1>1, <1>2, <1>3, <1>4, <1>5, <1>6, <1>7, <1>8, <1>9, <1>10, <1>11, <1>12, <1>13,
     <1>14, <1>15, <1>16, <1>17, <1>18 DEF XNext, Caller, Server, Driver, Handler

(* A step preserves what a server relies on. *)
LEMMA ServerStep == XInv /\ [XNext]_xvars => ServerInv'
<1> SUFFICES ASSUME XInv, [XNext]_xvars PROVE ServerInv' OBVIOUS
<1> USE DEF XInv, XTypeOK, RequestInv, LockInv, TableInv, ServerInv, InCall, Holds
<1>1. ASSUME NEW c \in Core, NEW d \in Core, NEW r \in SyncReq, Call(c, d, r) PROVE ServerInv'
  BY <1>1, Constants DEF Call
<1>2. ASSUME NEW c \in Core, Lock(c) PROVE ServerInv'
  BY <1>2, Constants DEF Lock
<1>3. ASSUME NEW c \in Core, Attend(c) PROVE ServerInv'
  BY <1>3, Constants DEF Attend
<1>4. ASSUME NEW c \in Core, Publish(c) PROVE ServerInv'
  BY <1>4, Constants DEF Publish
<1>5. ASSUME NEW c \in Core, Signal(c) PROVE ServerInv'
  BY <1>5, Constants DEF Signal
<1>6. ASSUME NEW c \in Core, Receive(c) PROVE ServerInv'
  BY <1>6, Constants DEF Receive
<1>7. ASSUME NEW c \in Core, ClearFunc(c) PROVE ServerInv'
  BY <1>7, Constants DEF ClearFunc
<1>8. ASSUME NEW c \in Core, Release(c) PROVE ServerInv'
  BY <1>8, Constants DEF Release
<1>9. ASSUME NEW c \in Core, SeeFin(c) PROVE ServerInv'
  BY <1>9, Constants DEF SeeFin
<1>10. ASSUME NEW c \in Core, SeeFunc(c) PROVE ServerInv'
  BY <1>10, Constants DEF SeeFunc
<1>11. ASSUME NEW c \in Core, SeeNothing(c) PROVE ServerInv'
  BY <1>11, Constants DEF SeeNothing, Leave
<1>12. ASSUME NEW c \in Core, Run(c) PROVE ServerInv'
  BY <1>12, Constants DEF Run
<1>13. ASSUME NEW c \in Core, Finish(c) PROVE ServerInv'
  BY <1>13, Constants DEF Finish, Leave
<1>14. ASSUME NEW c \in Core, Begin(c) PROVE ServerInv'
  BY <1>14, Constants DEF Begin
<1>15. ASSUME NEW c \in Core, Unmark(c) PROVE ServerInv'
  BY <1>15, Constants DEF Unmark
<1>16. ASSUME NEW c \in Core, Look(c) PROVE ServerInv'
  BY <1>16, Constants DEF Look
<1>17. ASSUME NEW c \in Core, Drained(c) PROVE ServerInv'
  BY <1>17, Constants DEF Drained
<1>18. ASSUME NEW c \in Core, Take(c) PROVE ServerInv'
  BY <1>18, Constants DEF Take
<1>19. ASSUME NEW c \in Core, Execute(c) PROVE ServerInv'
  BY <1>19, Constants DEF Execute
<1>20. ASSUME NEW c \in Core,
           \/ Sgi(c) \/ Put(c) \/ Refuse(c) \/ Posted(c) \/ Refused(c) \/ Notify(c)
           \/ \E d \in Core, r \in AsyncReq : Interrupt(c, d, r)
    PROVE  UNCHANGED <<sys, serve, fin, func>>
  BY <1>20 DEF Sgi, Put, Refuse, Posted, Refused, Notify, Interrupt
<1>21. CASE UNCHANGED <<sys, serve, fin, func>>
  BY <1>21
<1>22. CASE UNCHANGED xvars
  BY <1>21, <1>22 DEF xvars
<1> QED
  BY <1>1, <1>2, <1>3, <1>4, <1>5, <1>6, <1>7, <1>8, <1>9, <1>10, <1>11, <1>12, <1>13,
     <1>14, <1>15, <1>16, <1>17, <1>18, <1>19, <1>20, <1>21, <1>22 DEF XNext, Caller,
     Server, Driver, Handler

(* A step preserves what the driver relies on. *)
LEMMA DriverStep == XInv /\ [XNext]_xvars => DriverInv'
<1> SUFFICES ASSUME XInv, [XNext]_xvars PROVE DriverInv' OBVIOUS
<1> USE DEF XInv, XTypeOK, RequestInv, ServerInv, DriverInv
<1>1. ASSUME NEW c \in Core, NEW d \in Core, NEW r \in SyncReq, Call(c, d, r) PROVE DriverInv'
  BY <1>1, Constants DEF Call
<1>2. ASSUME NEW c \in Core, Lock(c) PROVE DriverInv'
  BY <1>2, Constants DEF Lock
<1>3. ASSUME NEW c \in Core, Publish(c) PROVE DriverInv'
  BY <1>3, Constants DEF Publish
<1>4. ASSUME NEW c \in Core, Signal(c) PROVE DriverInv'
  BY <1>4, Constants DEF Signal
<1>5. ASSUME NEW c \in Core, Receive(c) PROVE DriverInv'
  BY <1>5, Constants DEF Receive
<1>6. ASSUME NEW c \in Core, ClearFunc(c) PROVE DriverInv'
  BY <1>6, Constants DEF ClearFunc
<1>7. ASSUME NEW c \in Core, Release(c) PROVE DriverInv'
  BY <1>7, Constants DEF Release
<1>8. ASSUME NEW c \in Core, SeeNothing(c) PROVE DriverInv'
  BY <1>8, Constants DEF SeeNothing, Leave
<1>9. ASSUME NEW c \in Core, Finish(c) PROVE DriverInv'
  BY <1>9, Constants DEF Finish, Leave
<1>10. ASSUME NEW c \in Core, Begin(c) PROVE DriverInv'
  BY <1>10, Constants DEF Begin
<1>11. ASSUME NEW c \in Core, Unmark(c) PROVE DriverInv'
  BY <1>11, Constants DEF Unmark
<1>12. ASSUME NEW c \in Core, Look(c) PROVE DriverInv'
  BY <1>12, Constants DEF Look
<1>13. ASSUME NEW c \in Core, Drained(c) PROVE DriverInv'
  BY <1>13, Constants DEF Drained
<1>14. ASSUME NEW c \in Core, Take(c) PROVE DriverInv'
  BY <1>14, Constants DEF Take
<1>15. ASSUME NEW c \in Core, Execute(c) PROVE DriverInv'
  BY <1>15, Constants DEF Execute
<1>16. ASSUME NEW c \in Core, Sgi(c) PROVE DriverInv'
  BY <1>16, Constants DEF Sgi
<1>17. ASSUME NEW c \in Core, Put(c) PROVE DriverInv'
  BY <1>17, Constants DEF Put
<1>18. ASSUME NEW c \in Core,
           \/ Attend(c) \/ SeeFin(c) \/ SeeFunc(c) \/ Run(c) \/ Refuse(c)
           \/ Posted(c) \/ Refused(c) \/ Notify(c)
           \/ \E d \in Core, r \in AsyncReq : Interrupt(c, d, r)
    PROVE  UNCHANGED <<p1, queued, sys, cnt>>
  BY <1>18 DEF Attend, SeeFin, SeeFunc, Run, Refuse, Posted, Refused, Notify,
     Interrupt
<1>19. CASE UNCHANGED <<p1, queued, sys, cnt>>
  BY <1>19
<1>20. CASE UNCHANGED xvars
  BY <1>19, <1>20 DEF xvars
<1> QED
  BY <1>1, <1>2, <1>3, <1>4, <1>5, <1>6, <1>7, <1>8, <1>9, <1>10, <1>11, <1>12, <1>13,
     <1>14, <1>15, <1>16, <1>17, <1>18, <1>19, <1>20 DEF XNext, Caller, Server, Driver,
     Handler

(* A step leaves every core its room for an answer. *)
LEMMA AnswerStep == XInv /\ [XNext]_xvars => AnswerInv'
<1> SUFFICES ASSUME XInv, [XNext]_xvars PROVE AnswerInv' OBVIOUS
<1> USE DEF XInv, AnswerInv
<1>1. ASSUME NEW c \in Core, Receive(c) \/ Release(c) \/ Run(c) PROVE AnswerInv'
  BY <1>1 DEF Receive, Release, Run
<1>2. ASSUME NEW c \in Core,
           \/ Caller(c) /\ ~Receive(c) /\ ~Release(c)
           \/ Server(c) /\ ~Run(c)
           \/ Driver(c) \/ Sgi(c) \/ Handler(c)
           \/ \E d \in Core, r \in SyncReq : Call(c, d, r)
           \/ \E d \in Core, r \in AsyncReq : Interrupt(c, d, r)
    PROVE  UNCHANGED <<reply, got>>
  BY <1>2 DEF Caller, Server, Driver, Handler, Lock, Attend, Publish, Signal, ClearFunc, SeeFin,
     SeeFunc, SeeNothing, Finish, Begin, Unmark, Look, Drained, Take, Execute, Sgi, Put, Refuse,
     Posted, Refused, Notify, Call, Interrupt
<1>3. CASE UNCHANGED <<reply, got>>
  BY <1>3
<1>4. CASE UNCHANGED xvars
  BY <1>3, <1>4 DEF xvars
<1> QED BY <1>1, <1>2, <1>3, <1>4 DEF XNext, Caller, Server

(* A step leaves no request forgotten. *)
LEMMA NotifiedStep == XInv /\ [XNext]_xvars => NoRequestForgotten'
<1> SUFFICES ASSUME XInv, [XNext]_xvars PROVE NoRequestForgotten' OBVIOUS
<1> USE DEF XInv, XTypeOK, RequestInv, LockInv, TableInv, ServerInv, DriverInv, InCall, Holds,
            NoRequestForgotten, Notified, DrivesOn
<1>1. ASSUME NEW c \in Core, NEW d \in Core, NEW r \in SyncReq, Call(c, d, r)
      PROVE NoRequestForgotten'
  BY <1>1, Constants DEF Call
<1>2. ASSUME NEW c \in Core, Lock(c) PROVE NoRequestForgotten'
  BY <1>2, Constants DEF Lock
<1>3. ASSUME NEW c \in Core, Attend(c) PROVE NoRequestForgotten'
  BY <1>3, Constants DEF Attend
<1>4. ASSUME NEW c \in Core, Publish(c) PROVE NoRequestForgotten'
  BY <1>4, Constants DEF Publish
<1>5. ASSUME NEW c \in Core, Signal(c) PROVE NoRequestForgotten'
  BY <1>5, Constants DEF Signal
<1>6. ASSUME NEW c \in Core, Receive(c) PROVE NoRequestForgotten'
  BY <1>6, Constants DEF Receive
<1>7. ASSUME NEW c \in Core, ClearFunc(c) PROVE NoRequestForgotten'
  BY <1>7, Constants DEF ClearFunc
<1>8. ASSUME NEW c \in Core, Release(c) PROVE NoRequestForgotten'
  BY <1>8, Constants DEF Release
<1>9. ASSUME NEW c \in Core, SeeFin(c) PROVE NoRequestForgotten'
  BY <1>9, Constants DEF SeeFin
<1>10. ASSUME NEW c \in Core, SeeFunc(c) PROVE NoRequestForgotten'
  BY <1>10, Constants DEF SeeFunc
<1>11. ASSUME NEW c \in Core, SeeNothing(c) PROVE NoRequestForgotten'
  BY <1>11, Constants DEF SeeNothing, Leave
<1>12. ASSUME NEW c \in Core, Run(c) PROVE NoRequestForgotten'
  BY <1>12, Constants DEF Run
<1>13. ASSUME NEW c \in Core, Finish(c) PROVE NoRequestForgotten'
  BY <1>13, Constants DEF Finish, Leave
<1>14. ASSUME NEW c \in Core, Begin(c) PROVE NoRequestForgotten'
  BY <1>14, Constants DEF Begin
<1>15. ASSUME NEW c \in Core, Unmark(c) PROVE NoRequestForgotten'
  BY <1>15, Constants DEF Unmark
<1>16. ASSUME NEW c \in Core, Look(c) PROVE NoRequestForgotten'
  BY <1>16, Constants DEF Look
<1>17. ASSUME NEW c \in Core, Drained(c) PROVE NoRequestForgotten'
  BY <1>17, Constants DEF Drained
<1>18. ASSUME NEW c \in Core, Take(c) PROVE NoRequestForgotten'
  BY <1>18, Constants DEF Take
<1>19. ASSUME NEW c \in Core, Execute(c) PROVE NoRequestForgotten'
  BY <1>19, Constants DEF Execute
<1>20. ASSUME NEW c \in Core, Sgi(c) PROVE NoRequestForgotten'
  BY <1>20, Constants DEF Sgi
<1>21. ASSUME NEW c \in Core, NEW d \in Core, NEW r \in AsyncReq, Interrupt(c, d, r)
      PROVE NoRequestForgotten'
  <2> HIDE DEF RequestInv, LockInv, TableInv, ServerInv, DriverInv
  <2>1. \A x \in Core : isr[x] \in {"accepted", "notify"} =>
                             isr'[x] = isr[x] /\ ito'[x] = ito[x]
    BY <1>21 DEF Interrupt
  <2>2. UNCHANGED <<cnt, sgi, queued, sys, func, fin, to, serve>>
    BY <1>21 DEF Interrupt
  <2> QED BY <2>1, <2>2
<1>22. ASSUME NEW c \in Core, Put(c) PROVE NoRequestForgotten'
  BY <1>22, Constants DEF Put
<1>23. ASSUME NEW c \in Core, Refuse(c) PROVE NoRequestForgotten'
  <2> HIDE DEF RequestInv, LockInv, TableInv, ServerInv, DriverInv
  <2>1. \A x \in Core : isr[x] \in {"accepted", "notify"} =>
                             isr'[x] = isr[x] /\ ito'[x] = ito[x]
    BY <1>23 DEF Refuse
  <2>2. UNCHANGED <<cnt, sgi, queued, sys, func, fin, to, serve>>
    BY <1>23 DEF Refuse
  <2> QED BY <2>1, <2>2
<1>24. ASSUME NEW c \in Core, Posted(c) PROVE NoRequestForgotten'
  BY <1>24, Constants DEF Posted
<1>25. ASSUME NEW c \in Core, Refused(c) PROVE NoRequestForgotten'
  <2> HIDE DEF RequestInv, LockInv, TableInv, ServerInv, DriverInv
  <2>1. \A x \in Core : isr[x] \in {"accepted", "notify"} =>
                             isr'[x] = isr[x] /\ ito'[x] = ito[x]
    BY <1>25 DEF Refused, Returned
  <2>2. UNCHANGED <<cnt, sgi, queued, sys, func, fin, to, serve>>
    BY <1>25 DEF Refused
  <2> QED BY <2>1, <2>2
<1>26. ASSUME NEW c \in Core, Notify(c) PROVE NoRequestForgotten'
  BY <1>26, Constants DEF Notify, Returned
<1>27. CASE UNCHANGED xvars
  BY <1>27 DEF xvars
<1> QED
  BY <1>1, <1>2, <1>3, <1>4, <1>5, <1>6, <1>7, <1>8, <1>9, <1>10, <1>11, <1>12, <1>13,
     <1>14, <1>15, <1>16, <1>17, <1>18, <1>19, <1>20, <1>21, <1>22, <1>23, <1>24, <1>25,
     <1>26, <1>27 DEF XNext, Caller, Server, Driver, Handler

(* The invariant is one of every behaviour. *)
THEOREM XInvariance == XSpec => []XInv
<1>1. XInv /\ [XNext]_xvars => XInv'
  BY TypeStep, RequestStep, LockStep, TableStep, ServerStep, DriverStep, AnswerStep, NotifiedStep
  DEF XInv
<1> QED BY InitInv, <1>1, PTL DEF XSpec

(* The counts, places and owners of rings and tables stay in their ranges: *)
(* a ring never holds more than async_max posts.                           *)
THEOREM RingsHold == XSpec => []XTypeOK
<1>1. XInv => XTypeOK
  BY DEF XInv
<1> QED BY XInvariance, <1>1, PTL

(* No request is forgotten, for any cores, ring size and services: what is *)
(* in a ring or a table has an SGI, a queued block or a driver on its way. *)
THEOREM RequestsRemembered == XSpec => []NoRequestForgotten
<1>1. XInv => NoRequestForgotten
  BY DEF XInv
<1> QED BY XInvariance, <1>1, PTL

-----------------------------------------------------------------------------
(* THE REFINEMENT                                                          *)

(* Groups of variables and the control of a core are spelt out. *)
USE DEF asynctbl, synctbl, signals, system, handler, At, Goto, Serving, Handling

Request == AsyncReq \cup {NONE}

-----------------------------------------------------------------------------
(* THE RING AS A SEQUENCE                                                  *)

(* The entries of a ring are a sequence as long as its count. *)
LEMMA WaitingSeq ==
    ASSUME XTypeOK, NEW d \in Core
    PROVE  Waiting(d) \in Seq(Request) /\ Len(Waiting(d)) = cnt[d]
<1>1. cnt[d] \in 0..async_max /\ ptr[d] \in 0..(async_max - 1)
      /\ ring[d] \in [0..(async_max - 1) -> Request]
  BY DEF XTypeOK, Request
<1>2. async_max \in Nat \ {0}
  BY Constants
<1>3. \A i \in 1..cnt[d] : Slot(d, i) \in 0..(async_max - 1)
  BY <1>1, <1>2 DEF Slot
<1>4. Waiting(d) \in [1..cnt[d] -> Request]
  BY <1>1, <1>3 DEF Waiting
<1> QED BY <1>1, <1>4, SeqDef, LenProperties

(* Putting a request where ptr points, and moving ptr on, appends it. *)
LEMMA PutAppends ==
    ASSUME XTypeOK, NEW c \in Core, Put(c), ito[c] \in Core, ireq[c] \in AsyncReq, XTypeOK'
    PROVE  Waiting(ito[c])' = Append(Waiting(ito[c]), ireq[c])
<1> DEFINE d == ito[c]
           n == cnt[d]
           q == Waiting(d)
           t == Waiting(ito[c])'
<1>1. n \in 0..(async_max - 1) /\ ptr[d] \in 0..(async_max - 1) /\ async_max \in Nat \ {0}
  BY Constants DEF XTypeOK, Put
<1>2. /\ cnt'[d] = n + 1 /\ ptr'[d] = Following(ptr[d])
      /\ ring'[d] = [ring[d] EXCEPT ![ptr[d]] = ireq[c]] /\ ito'[c] = d
  BY DEF XTypeOK, Put
<1>3. q \in Seq(Request) /\ Len(q) = n
  BY WaitingSeq
<1>4. t = [i \in 1..(n + 1) |-> ring'[d][Slot(d, i)']]
  BY <1>2 DEF Waiting
<1>5. ASSUME NEW i \in 1..n PROVE ring'[d][Slot(d, i)'] = q[i]
  <2>1. Slot(d, i)' = Slot(d, i) /\ Slot(d, i) # ptr[d] /\ Slot(d, i) \in 0..(async_max - 1)
    BY <1>1, <1>2 DEF Slot, Following
  <2>2. ring[d] \in [0..(async_max - 1) -> Request]
    BY DEF XTypeOK, Request
  <2> QED BY <1>2, <2>1, <2>2 DEF Waiting
<1>6. ASSUME NEW i \in 1..(n + 1), i = n + 1 PROVE ring'[d][Slot(d, i)'] = ireq[c]
  <2>1. Slot(d, i)' = ptr[d]
    BY <1>1, <1>2, <1>6 DEF Slot, Following
  <2>2. ring[d] \in [0..(async_max - 1) -> Request]
    BY DEF XTypeOK, Request
  <2> QED BY <1>1, <1>2, <1>6, <2>1, <2>2
<1>7. Append(q, ireq[c]) = [i \in 1..(n + 1) |-> IF i = n + 1 THEN ireq[c] ELSE q[i]]
  BY <1>3, <1>1 DEF Request
<1>8. \A i \in 1..(n + 1) : ring'[d][Slot(d, i)'] = IF i = n + 1 THEN ireq[c] ELSE q[i]
  BY <1>1, <1>5, <1>6
<1> QED BY <1>4, <1>7, <1>8

(* The driver takes the first entry. *)
LEMMA TakeOldest ==
    ASSUME XTypeOK, NEW c \in Core, Take(c), cnt[c] > 0, XTypeOK'
    PROVE  Waiting(c) = <<buffer'[c]>> \o Waiting(c)'
<1> DEFINE n == cnt[c]
           q == Waiting(c)
           t == Waiting(c)'
           b == buffer'[c]
<1>1. n \in 1..async_max /\ ptr[c] \in 0..(async_max - 1) /\ async_max \in Nat \ {0}
  BY Constants DEF XTypeOK
<1>2. cnt'[c] = n - 1 /\ UNCHANGED <<ptr, ring>> /\ b = ring[c][Oldest(c)]
  BY DEF XTypeOK, Take
<1>3. q \in Seq(Request) /\ Len(q) = n
  BY WaitingSeq
<1>4. b \in Request
  BY DEF XTypeOK, Request
<1>5. t = [i \in 1..(n - 1) |-> ring[c][Slot(c, i)']]
  BY <1>2 DEF Waiting
<1>6. \A i \in 1..(n - 1) : Slot(c, i)' = Slot(c, i + 1)
  BY <1>1, <1>2 DEF Slot
<1>7. ASSUME NEW i \in 1..(n - 1) PROVE t[i] = q[i + 1]
  <2>1. t[i] = ring[c][Slot(c, i + 1)]
    BY <1>5, <1>6
  <2>2. i + 1 \in 1..n
    BY <1>1
  <2> QED BY <2>1, <2>2 DEF Waiting
<1>8. q[1] = b
  BY <1>1, <1>2 DEF Waiting, Slot, Oldest
<1>9. t \in Seq(Request) /\ Len(t) = n - 1
  <2>1. \A i \in 1..(n - 1) : t[i] \in Request
    BY <1>1, <1>3, <1>7, ElementOfSeq
  <2>2. t \in [1..(n - 1) -> Request]
    BY <1>5, <2>1
  <2> QED BY <1>1, <2>2, SeqDef, LenProperties
<1>10. <<b>> \in Seq(Request) /\ Len(<<b>>) = 1 /\ <<b>>[1] = b
  BY <1>4
<1>11. /\ <<b>> \o t \in Seq(Request) /\ Len(<<b>> \o t) = n
       /\ \A i \in 1..n : (<<b>> \o t)[i] = IF i <= 1 THEN b ELSE t[i - 1]
  BY <1>1, <1>9, <1>10, ConcatProperties
<1>12. ASSUME NEW i \in 1..n PROVE q[i] = (<<b>> \o t)[i]
  <2>1. CASE i = 1
    BY <1>1, <1>8, <1>11, <2>1
  <2>2. CASE i > 1
    <3>1. i - 1 \in 1..(n - 1) /\ (i - 1) + 1 = i
      BY <1>1, <2>2
    <3>2. t[i - 1] = q[i]
      BY <1>7, <3>1
    <3> QED BY <1>1, <1>11, <2>2, <3>2
  <2>3. i = 1 \/ i > 1
    BY <1>1
  <2> QED BY <2>1, <2>2, <2>3
<1> QED BY <1>3, <1>11, <1>12, SeqEqual

(* Appending behind a first element, and taking that off again. *)
LEMMA FirstThenRest ==
    ASSUME NEW S, NEW q \in Seq(S), NEW b \in S, NEW e \in S
    PROVE  /\ <<b>> \o Append(q, e) = Append(<<b>> \o q, e)
           /\ <<b>> \o q # <<>> /\ Head(<<b>> \o q) = b /\ Tail(<<b>> \o q) = q
<1>1. <<b>> \in Seq(S) /\ Len(<<b>>) = 1 /\ <<b>>[1] = b
  OBVIOUS
<1>2. /\ <<b>> \o q \in Seq(S) /\ Len(<<b>> \o q) = 1 + Len(q) /\ Len(q) \in Nat
      /\ \A i \in 1..(1 + Len(q)) : (<<b>> \o q)[i] = IF i <= 1 THEN b ELSE q[i - 1]
  BY <1>1, ConcatProperties, LenProperties
<1>3. Append(q, e) \in Seq(S) /\ Append(q, e) = q \o <<e>> /\ <<e>> \in Seq(S)
  OBVIOUS
<1>4. <<b>> \o Append(q, e) = Append(<<b>> \o q, e)
  BY <1>1, <1>2, <1>3, ConcatAssociative
<1>5. <<b>> \o q # <<>> /\ Head(<<b>> \o q) = b
  BY <1>2
<1>6. /\ Tail(<<b>> \o q) \in Seq(S) /\ Len(Tail(<<b>> \o q)) = Len(q)
      /\ \A i \in 1..Len(q) : Tail(<<b>> \o q)[i] = (<<b>> \o q)[i + 1]
  BY <1>2, <1>5, HeadTailProperties
<1>7. \A i \in 1..Len(q) : Tail(<<b>> \o q)[i] = q[i]
  BY <1>2, <1>6
<1>8. Tail(<<b>> \o q) = q
  BY <1>6, <1>7, SeqEqual
<1> QED BY <1>4, <1>5, <1>8

-----------------------------------------------------------------------------
(* WHAT STAYS                                                              *)

(* The boxes stay while no ring, and no request taken from one, changes. *)
LEMMA BoxStays ==
    ASSUME UNCHANGED <<cnt, ptr, ring, buffer>>,
           \A d \in Core : (sys'[d] = "unlock") <=> (sys[d] = "unlock")
    PROVE  Box' = Box
<1>1. ASSUME NEW d \in Core PROVE BoxOf(d)' = BoxOf(d)
  <2>1. Waiting(d)' = Waiting(d)
    BY DEF Waiting, Slot
  <2> QED BY <2>1 DEF BoxOf
<1> QED BY <1>1 DEF Box

(* The calls stay while none begins, is answered or returns. *)
LEMMA CallsStay ==
    ASSUME UNCHANGED <<to, req, got, reply, fin>>, RequestInv,
           \A c \in Core : sys'[c] = sys[c] \/ (~InCall(c) /\ ~InCall(c)'),
           \A d \in Core : (serve'[d] = "finish") <=> (serve[d] = "finish")
    PROVE  CallOf' = CallOf
<1>1. ASSUME NEW c \in Core PROVE CallFrom(c)' = CallFrom(c)
  <2>1. Answered(c)' = Answered(c)
    BY DEF InCall, Answered, RequestInv
  <2>2. AnswerTo(c)' = AnswerTo(c)
    BY <2>1 DEF InCall, AnswerTo, Answered
  <2> QED BY <2>1, <2>2 DEF CallFrom
<1> QED BY <1>1 DEF CallOf

(* A step for the call of h leaves the calls of others: nobody else holds  *)
(* the table that h holds, and what is in it is nobody else's.             *)
LEMMA OthersStay ==
    ASSUME LockInv, RequestInv, NEW h \in Core, NEW x \in Core \ {h},
           sys'[x] = sys[x], to'[x] = to[x], req'[x] = req[x], got'[x] = got[x],
           \A d \in Core :
               \/ /\ fin'[d] = fin[d] /\ reply'[d] = reply[d]
                  /\ (serve'[d] = "finish") <=> (serve[d] = "finish")
               \/ Holds(h) /\ d = to[h]
    PROVE  CallFrom(x)' = CallFrom(x)
<1>1. Holds(x) => to[x] \in Core /\ ~(Holds(h) /\ to[x] = to[h])
  BY DEF LockInv, RequestInv, Holds, InCall
<1>2. Answered(x)' = Answered(x)
  BY <1>1 DEF Answered, Holds
<1>3. AnswerTo(x)' = AnswerTo(x)
  BY <1>1, <1>2 DEF AnswerTo, Answered, Holds
<1> QED BY <1>2, <1>3 DEF CallFrom

(* One call changes at a time. *)
LEMMA OneCall ==
    ASSUME NEW h \in Core, \A x \in Core \ {h} : CallFrom(x)' = CallFrom(x)
    PROVE  CallOf' = [CallOf EXCEPT ![h] = CallFrom(h)']
BY DEF CallOf

-----------------------------------------------------------------------------
(* THE STEPS                                                               *)

(* What a caller does by itself: nothing of it shows but the return. *)
LEMMA CallerShows ==
    ASSUME XInv, NEW c \in Core, Caller(c)
    PROVE  Box' = Box /\ obj' = obj /\ (CallOf' = CallOf \/ Remote!Return(c))
<1> USE DEF XInv
<1>1. Box' = Box /\ obj' = obj
  <2>1. UNCHANGED <<cnt, ptr, ring, buffer, obj>>
        /\ \A d \in Core : (sys'[d] = "unlock") <=> (sys[d] = "unlock")
    BY DEF Caller, Lock, Attend, Publish, Signal, Receive, ClearFunc, Release, XTypeOK
  <2> QED BY <2>1, BoxStays
<1>2. CASE Attend(c)
  <2>1. /\ UNCHANGED <<to, req, got, reply, fin, sys>>
        /\ \A d \in Core : (serve'[d] = "finish") <=> (serve[d] = "finish")
    BY <1>2 DEF Attend, XTypeOK
  <2> QED BY <1>1, <2>1, CallsStay
<1> USE DEF Holds, InCall
<1>3. ASSUME ~Attend(c), NEW x \in Core \ {c} PROVE CallFrom(x)' = CallFrom(x)
  <2>1. sys'[x] = sys[x] /\ to'[x] = to[x] /\ req'[x] = req[x] /\ got'[x] = got[x]
    BY <1>3 DEF Caller, Lock, Publish, Signal, Receive, ClearFunc, Release, XTypeOK, AnswerInv
  <2>2. UNCHANGED <<reply, serve>>
        /\ \A d \in Core : fin'[d] = fin[d] \/ (Holds(c) /\ d = to[c])
    BY <1>3 DEF Caller, Lock, Publish, Signal, Receive, ClearFunc, Release, XTypeOK
  <2> QED BY <2>1, <2>2, OthersStay
<1>4. CASE Lock(c) \/ Publish(c) \/ Signal(c) \/ Receive(c) \/ ClearFunc(c)
  <2>1. CallFrom(c)' = CallFrom(c)
    <3>1. Answered(c)' = Answered(c)
      BY <1>4 DEF Lock, Publish, Signal, Receive, ClearFunc, Answered, XTypeOK, RequestInv,
         LockInv, TableInv, ServerInv
    <3>2. AnswerTo(c)' = AnswerTo(c)
      BY <1>4, <3>1 DEF Lock, Publish, Signal, Receive, ClearFunc, Answered, AnswerTo, XTypeOK,
         RequestInv, AnswerInv
    <3>3. to'[c] = to[c] /\ req'[c] = req[c]
      BY <1>4 DEF Lock, Publish, Signal, Receive, ClearFunc, XTypeOK
    <3> QED BY <3>1, <3>2, <3>3 DEF CallFrom
  <2>2. ~Attend(c)
    BY <1>4 DEF Lock, Publish, Signal, Receive, ClearFunc, Attend
  <2> QED BY <1>1, <1>3, <2>1, <2>2 DEF CallOf
<1>5. CASE Release(c)
  <2>1. CallFrom(c)' = Remote!NoCall
    <3>1. Answered(c)' = FALSE
      BY <1>5 DEF Release, Answered, XTypeOK
    <3> QED BY <1>5, <3>1 DEF Release, CallFrom, AnswerTo, Remote!NoCall, XTypeOK
  <2>2. ~Attend(c)
    BY <1>5 DEF Release, Attend
  <2>3. CallOf' = [CallOf EXCEPT ![c] = Remote!NoCall]
    BY <1>3, <2>1, <2>2, OneCall
  <2>4. CallOf[c].to # NONE /\ CallOf[c].done
    BY <1>5, Constants DEF Release, CallOf, CallFrom, Answered, RequestInv
  <2> QED BY <1>1, <2>3, <2>4 DEF Remote!Return, Remote!Calling
<1> QED BY <1>1, <1>2, <1>4, <1>5 DEF Caller

(* A server shows only the moment it runs the request: the one of the      *)
(* core that holds its table.                                              *)
LEMMA ServerShows ==
    ASSUME XInv, NEW c \in Core, Server(c)
    PROVE  Box' = Box /\ ((obj' = obj /\ CallOf' = CallOf) \/ \E h \in Core : Remote!Serve(h))
<1> USE DEF XInv
<1>1. Box' = Box
  <2>1. UNCHANGED <<cnt, ptr, ring, buffer>>
        /\ \A d \in Core : (sys'[d] = "unlock") <=> (sys[d] = "unlock")
    BY DEF Server, SeeFin, SeeFunc, SeeNothing, Run, Finish, Leave, XTypeOK
  <2> QED BY <2>1, BoxStays
<1>2. CASE SeeFin(c) \/ SeeFunc(c) \/ SeeNothing(c)
  <2>1. UNCHANGED <<to, req, got, reply, fin, obj>>
    BY <1>2 DEF SeeFin, SeeFunc, SeeNothing
  <2>2. \A d \in Core : sys'[d] = sys[d] \/ (~InCall(d) /\ ~InCall(d)')
    BY <1>2 DEF SeeFin, SeeFunc, SeeNothing, Leave, InCall, XTypeOK
  <2>3. \A d \in Core : (serve'[d] = "finish") <=> (serve[d] = "finish")
    BY <1>2 DEF SeeFin, SeeFunc, SeeNothing, Leave, XTypeOK
  <2> QED BY <1>1, <2>1, <2>2, <2>3, CallsStay
<1>3. CASE Run(c) \/ Finish(c)
  <2>1. func[c] /\ ~fin[c] /\ serve[c] \in {"run", "finish"} /\ sys[c] \in {"try", "wait", "own"}
    BY <1>3 DEF Run, Finish, ServerInv
  <2>2. PICK h \in Core : /\ h # c /\ Holds(h) /\ to[h] = c /\ sys[h] \in {"signal", "wait"}
                          /\ cmd[c] = req[h]
    <3>1. slock[c] \in Core /\ Holds(slock[c]) /\ to[slock[c]] = c
      BY <2>1 DEF TableInv, LockInv, XTypeOK
    <3>2. slock[c] # c
      BY <3>1 DEF RequestInv, Holds, InCall
    <3>3. sys[slock[c]] \in {"signal", "wait"} /\ cmd[c] = req[slock[c]]
      BY <2>1, <3>1 DEF TableInv
    <3> QED BY <3>1, <3>2, <3>3
  <2>3. ASSUME NEW x \in Core \ {h} PROVE CallFrom(x)' = CallFrom(x)
    <3>1. UNCHANGED <<to, req, got>>
      BY <1>3 DEF Run, Finish
    <3>2. \A d \in Core \ {c} : fin'[d] = fin[d] /\ reply'[d] = reply[d] /\ serve'[d] = serve[d]
      BY <1>3 DEF Run, Finish, Leave, XTypeOK, AnswerInv
    <3>3. sys'[x] = sys[x] \/ (x = c /\ sys[c] = "own" /\ sys'[c] = "idle")
      BY <1>3 DEF Run, Finish, Leave, XTypeOK
    <3>4. CASE sys'[x] = sys[x]
      BY <2>2, <3>1, <3>2, <3>4, OthersStay
    <3>5. CASE x = c /\ sys[c] = "own" /\ sys'[c] = "idle"
      BY <3>1, <3>5 DEF CallFrom, Answered, AnswerTo
    <3> QED BY <3>3, <3>4, <3>5
  <2>4. CallOf' = [CallOf EXCEPT ![h] = CallFrom(h)']
    BY <2>2, <2>3, OneCall
  <2>5. CASE Finish(c)
    <3>1. UNCHANGED <<to, req, got, reply, obj>> /\ sys'[h] = sys[h] /\ fin'[c] = TRUE
          /\ serve[c] = "finish"
      BY <2>2, <2>5 DEF Finish, Leave, XTypeOK
    <3>2. Answered(h)' = Answered(h)
      BY <2>2, <3>1 DEF Answered
    <3>3. AnswerTo(h)' = AnswerTo(h)
      BY <2>2, <3>1, <3>2 DEF AnswerTo
    <3>4. CallFrom(h)' = CallFrom(h)
      BY <3>1, <3>2, <3>3 DEF CallFrom
    <3> QED BY <1>1, <2>3, <3>1, <3>4 DEF CallOf
  <2>6. CASE Run(c)
    <3>1. /\ UNCHANGED <<to, req, sys, fin>> /\ serve[c] = "run" /\ serve'[c] = "finish"
          /\ reply'[c] = Answer(obj[c], req[h])
          /\ obj' = [obj EXCEPT ![c] = Effect(@, req[h])]
      BY <2>2, <2>6 DEF Run, XTypeOK, AnswerInv
    <3>2. Answered(h) = FALSE /\ Answered(h)' = TRUE
      BY <2>1, <2>2, <3>1 DEF Answered
    <3>3. AnswerTo(h)' = Answer(obj[c], req[h])
      BY <2>2, <3>1, <3>2 DEF AnswerTo
    <3>4. CallFrom(h)' = [to |-> c, req |-> req[h], done |-> TRUE, ans |-> Answer(obj[c], req[h])]
      BY <2>2, <3>1, <3>2, <3>3 DEF CallFrom
    <3>5. CallOf[h].to = c /\ CallOf[h].req = req[h] /\ CallOf[h].done = FALSE
      BY <2>2, <3>2 DEF CallOf, CallFrom
    <3>6. Remote!Serve(h)
      BY <1>1, <2>2, <2>4, <3>1, <3>4, <3>5, Constants DEF Remote!Serve, Remote!Calling
    <3> QED BY <1>1, <2>2, <3>6
  <2> QED BY <1>3, <2>5, <2>6
<1> QED BY <1>2, <1>3 DEF Server

(* The driver shows only the moment it executes the oldest post. *)
LEMMA DriverShows ==
    ASSUME XInv, XTypeOK', NEW c \in Core, Driver(c)
    PROVE  CallOf' = CallOf /\ ((obj' = obj /\ Box' = Box) \/ Remote!Execute(c))
<1> USE DEF XInv
<1>1. CallOf' = CallOf
  <2>1. UNCHANGED <<to, req, got, reply, fin>>
    BY DEF Driver, Begin, Unmark, Look, Drained, Take, Execute
  <2>2. \A d \in Core : sys'[d] = sys[d] \/ (~InCall(d) /\ ~InCall(d)')
    BY DEF Driver, Begin, Unmark, Look, Drained, Take, Execute, InCall, XTypeOK
  <2>3. \A d \in Core : (serve'[d] = "finish") <=> (serve[d] = "finish")
    BY DEF Driver, Begin, Unmark, Look, Drained, Take, Execute, XTypeOK
  <2> QED BY <2>1, <2>2, <2>3, CallsStay
<1>2. CASE Begin(c) \/ Unmark(c) \/ Look(c) \/ Drained(c)
  <2>1. UNCHANGED <<cnt, ptr, ring, buffer, obj>>
        /\ \A d \in Core : (sys'[d] = "unlock") <=> (sys[d] = "unlock")
    BY <1>2 DEF Begin, Unmark, Look, Drained, XTypeOK
  <2> QED BY <1>1, <2>1, BoxStays
<1>3. ASSUME Take(c) \/ Execute(c), NEW d \in Core \ {c} PROVE BoxOf(d)' = BoxOf(d)
  <2>1. cnt'[d] = cnt[d] /\ ptr'[d] = ptr[d] /\ ring'[d] = ring[d] /\ buffer'[d] = buffer[d]
        /\ sys'[d] = sys[d]
    BY <1>3 DEF Take, Execute, XTypeOK
  <2>2. Waiting(d)' = Waiting(d)
    BY <2>1 DEF Waiting, Slot
  <2> QED BY <2>1, <2>2 DEF BoxOf
<1>4. CASE Take(c)
  <2>1. Waiting(c) = <<buffer'[c]>> \o Waiting(c)'
    BY <1>4, TakeOldest DEF Take, DriverInv
  <2>2. sys[c] = "take" /\ sys'[c] = "unlock" /\ obj' = obj
    BY <1>4 DEF Take, XTypeOK
  <2>3. BoxOf(c)' = BoxOf(c)
    BY <2>1, <2>2 DEF BoxOf
  <2> QED BY <1>1, <1>3, <1>4, <2>2, <2>3 DEF Box
<1>5. CASE Execute(c)
  <2> DEFINE q == Waiting(c)
             b == buffer[c]
  <2>1. sys[c] = "unlock" /\ sys'[c] = "look" /\ UNCHANGED <<cnt, ptr, ring>>
        /\ obj' = [obj EXCEPT ![c] = Effect(@, b)]
    BY <1>5 DEF Execute, XTypeOK
  <2>2. Waiting(c)' = q
    BY <2>1 DEF Waiting, Slot
  <2>3. Box[c] = <<b>> \o q /\ BoxOf(c)' = q
    BY <2>1, <2>2 DEF Box, BoxOf
  <2>4. q \in Seq(Request) /\ b \in Request
    BY WaitingSeq DEF XTypeOK, Request
  <2>5. Box[c] # <<>> /\ Head(Box[c]) = b /\ Tail(Box[c]) = q
    BY <2>3, <2>4, FirstThenRest
  <2>6. Box' = [Box EXCEPT ![c] = Tail(@)]
    BY <1>3, <1>5, <2>3, <2>5 DEF Box
  <2> QED BY <1>1, <2>1, <2>5, <2>6 DEF Remote!Execute
<1> QED BY <1>2, <1>4, <1>5 DEF Driver

(* A handler shows only the moment its post is put into the ring. *)
LEMMA HandlerShows ==
    ASSUME XInv, XTypeOK', NEW c \in Core, Handler(c)
    PROVE  CallOf' = CallOf /\ obj' = obj
           /\ (Box' = Box \/ \E d \in Core, r \in AsyncReq : Remote!Post(d, r))
<1> USE DEF XInv
<1>1. UNCHANGED <<to, req, got, reply, fin, sys, serve, buffer, obj>>
  BY DEF Handler, Put, Refuse, Posted, Refused, Notify
<1>2. CallOf' = CallOf
  BY <1>1, CallsStay
<1>3. CASE ~Put(c)
  <2>1. UNCHANGED <<cnt, ptr, ring>>
    BY <1>3 DEF Handler, Refuse, Posted, Refused, Notify
  <2> QED BY <1>1, <1>2, <2>1, BoxStays
<1>4. CASE Put(c)
  <2>1. PICK d \in Core, r \in AsyncReq : ito[c] = d /\ ireq[c] = r
    BY <1>4 DEF Put, RequestInv
  <2>2. Waiting(d)' = Append(Waiting(d), r)
    <3>1. Waiting(ito[c])' = Append(Waiting(ito[c]), ireq[c])
      BY <1>4, <2>1, PutAppends
    <3>2. ito'[c] = d
      BY <1>4, <2>1 DEF Put
    <3> QED BY <2>1, <3>1, <3>2
  <2>3. BoxOf(d)' = Append(BoxOf(d), r)
    <3>1. Waiting(d) \in Seq(Request) /\ buffer[d] \in Request /\ r \in Request
      BY WaitingSeq DEF XTypeOK, Request
    <3> QED BY <1>1, <2>2, <3>1, FirstThenRest DEF BoxOf
  <2>4. ASSUME NEW e \in Core \ {d} PROVE BoxOf(e)' = BoxOf(e)
    <3>1. cnt'[e] = cnt[e] /\ ptr'[e] = ptr[e] /\ ring'[e] = ring[e]
      BY <1>4, <2>1 DEF Put, XTypeOK
    <3>2. Waiting(e)' = Waiting(e)
      BY <3>1 DEF Waiting, Slot
    <3> QED BY <1>1, <3>2 DEF BoxOf
  <2>5. Box' = [Box EXCEPT ![d] = Append(@, r)]
    BY <2>3, <2>4 DEF Box
  <2> QED BY <1>1, <1>2, <2>5 DEF Remote!Post
<1> QED BY <1>3, <1>4, <1>1, <1>2

(* A call that begins. *)
LEMMA CallShows ==
    ASSUME XInv, XTypeOK', NEW c \in Core, NEW d \in Core, NEW r \in SyncReq, Call(c, d, r)
    PROVE  Remote!Ask(c, d, r)
<1> USE DEF XInv
<1>1. UNCHANGED <<cnt, ptr, ring, buffer, obj, got, reply, fin, serve>>
      /\ sys[c] = "idle" /\ sys' = [sys EXCEPT ![c] = "try"]
      /\ to' = [to EXCEPT ![c] = d] /\ req' = [req EXCEPT ![c] = r]
  BY DEF Call
<1>2. Box' = Box
  BY <1>1, BoxStays DEF XTypeOK
<1>3. ASSUME NEW x \in Core \ {c} PROVE CallFrom(x)' = CallFrom(x)
  BY <1>1, OthersStay DEF XTypeOK
<1>4. CallFrom(c)' = [to |-> d, req |-> r, done |-> FALSE, ans |-> NONE]
  <2>1. Answered(c)' = FALSE
    BY <1>1 DEF Answered, XTypeOK
  <2>2. AnswerTo(c)' = NONE
    BY <2>1 DEF AnswerTo
  <2>3. to'[c] = d /\ req'[c] = r
    BY <1>1 DEF XTypeOK
  <2> QED BY <2>1, <2>2, <2>3 DEF CallFrom
<1>5. CallOf[c].to = NONE
  BY <1>1 DEF CallOf, CallFrom, RequestInv, InCall
<1>6. d # c
  BY XCoreAssumption DEF Call
<1> QED BY <1>1, <1>2, <1>3, <1>4, <1>5, <1>6, OneCall DEF Remote!Ask, Remote!Calling

(* SGIs, and handlers that begin, show nothing. *)
LEMMA OthersShow ==
    ASSUME XInv, NEW c \in Core,
           Sgi(c) \/ \E d \in Core, r \in AsyncReq : Interrupt(c, d, r)
    PROVE  Box' = Box /\ CallOf' = CallOf /\ obj' = obj
<1>1. UNCHANGED <<obj, cnt, ptr, ring, buffer, sys, serve, to, req, got, reply, fin>>
  BY DEF Sgi, Interrupt
<1> QED BY <1>1, BoxStays, CallsStay DEF XInv

(* XCore starts as RemoteService, and each of its steps is a step of       *)
(* RemoteService or changes nothing of it.                                 *)
LEMMA InitShows == XInit => Remote!RInit
<1> SUFFICES ASSUME XInit PROVE Remote!RInit OBVIOUS
<1>1. ASSUME NEW c \in Core PROVE BoxOf(c) = <<>>
  BY <1>1 DEF XInit, BoxOf, Waiting
<1>2. ASSUME NEW c \in Core PROVE CallFrom(c) = Remote!NoCall
  <2>1. Answered(c) = FALSE
    BY DEF XInit, Answered
  <2> QED BY <2>1 DEF XInit, CallFrom, AnswerTo, Remote!NoCall
<1> QED BY <1>1, <1>2 DEF XInit, Remote!RInit, Box, CallOf

LEMMA StepShows == XInv /\ XInv' /\ [XNext]_xvars => [Remote!RNext]_(Remote!rvars)
<1> SUFFICES ASSUME XInv, XInv', [XNext]_xvars PROVE [Remote!RNext]_(Remote!rvars) OBVIOUS
<1>0. XTypeOK'
  BY DEF XInv
<1> USE DEF Remote!RNext, Remote!rvars
<1>1. ASSUME NEW c \in Core, NEW d \in Core, NEW r \in SyncReq, Call(c, d, r) PROVE Remote!RNext
  BY <1>0, <1>1, CallShows
<1>2. ASSUME NEW c \in Core, Caller(c) PROVE [Remote!RNext]_(Remote!rvars)
  BY <1>2, CallerShows
<1>3. ASSUME NEW c \in Core, Server(c) PROVE [Remote!RNext]_(Remote!rvars)
  BY <1>3, ServerShows
<1>4. ASSUME NEW c \in Core, Driver(c) PROVE [Remote!RNext]_(Remote!rvars)
  BY <1>0, <1>4, DriverShows
<1>5. ASSUME NEW c \in Core, Handler(c) PROVE [Remote!RNext]_(Remote!rvars)
  BY <1>0, <1>5, HandlerShows
<1>6. ASSUME NEW c \in Core, Sgi(c) \/ \E d \in Core, r \in AsyncReq : Interrupt(c, d, r)
      PROVE  [Remote!RNext]_(Remote!rvars)
  BY <1>6, OthersShow
<1>7. CASE UNCHANGED xvars
  <2>1. UNCHANGED <<obj, cnt, ptr, ring, buffer, sys, serve, to, req, got, reply, fin>>
    BY <1>7 DEF xvars
  <2> QED BY <2>1, BoxStays, CallsStay DEF XInv
<1> QED BY <1>1, <1>2, <1>3, <1>4, <1>5, <1>6, <1>7 DEF XNext

(* What callers and servers see is RemoteService: every call takes effect  *)
(* once on the core it names, between call and return, its caller gets     *)
(* that answer, and the posts a core accepts take effect in their order.   *)
THEOREM XCoreIsRemoteService == XSpec => IsRemoteService
<1>1. XInv /\ XInv' /\ [XNext]_xvars => [Remote!RNext]_(Remote!rvars)
  BY StepShows
<1> QED BY InitShows, <1>1, XInvariance, PTL DEF XSpec, IsRemoteService, Remote!RSpec

=============================================================================
