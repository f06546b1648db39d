------------------------------ MODULE EventFlag ------------------------------
(***************************************************************************)
(* Event flags (uC3creflg.c, uC3delflg.c, uC3setflg.c, uC3clrflg.c,        *)
(* uC3waiflg.c).  A pattern is a set of bits.  A task waits in sque for    *)
(* all bits of its pattern or for one of them; every bit that is set       *)
(* releases, in the order of the queue, those it satisfies, up to the      *)
(* first one if the flag is cleared by it.                                 *)
(***************************************************************************)
EXTENDS Waiting

CONSTANTS Flg, Bit,
          FlgAtr    \* attributes to create flags with

(* TA_TPRI without TA_WMUL orders nothing, as one task waits at most. *)
ASSUME EventFlagAssumption ==
    /\ Flg \subseteq Obj
    /\ FlgAtr \subseteq SUBSET {"TPRI", "WMUL", "CLR"}
    /\ \A a \in FlgAtr : "TPRI" \in a => "WMUL" \in a

VARIABLE flgptn

FlgInit == flgptn = [o \in Flg |-> {}]

-----------------------------------------------------------------------------
Satisfies(ptn, w) ==
    CASE w.wfmode = "TWF_ORW"  -> ptn \cap w.waiptn # {}
      [] w.wfmode = "TWF_ANDW" -> w.waiptn \subseteq ptn

CreFlg(o, a, ptn) == Create(o, a) /\ flgptn' = [flgptn EXCEPT ![o] = ptn]

DelFlg(o) == Delete(o) /\ flgptn' = [flgptn EXCEPT ![o] = {}]

(* The places of the tasks that are released when the pattern is ptn: the  *)
(* loop over the queue ends when the flag is clear.                        *)
ServedFirst(o, ptn) ==
    LET hit == {i \in 1..Len(sque[o]) : Satisfies(ptn, par[sque[o][i]])}
    IN {i \in hit : \A j \in hit : i <= j}

Served(o, ptn) ==
    IF "CLR" \in atr[o] THEN ServedFirst(o, ptn)
    ELSE {i \in 1..Len(sque[o]) : Satisfies(ptn, par[sque[o][i]])}

(* _kernel_setflg: a pattern that adds no bit ends here. *)
SetFlg(o, setptn) ==
    /\ o \in objs /\ ~ setptn \subseteq flgptn[o]
    /\ LET ptn  == flgptn[o] \cup setptn
           done == Served(o, ptn)
       IN /\ flgptn' = [flgptn EXCEPT ![o] =
                IF "CLR" \in atr[o] /\ done # {} THEN {} ELSE ptn]
          /\ Wake({sque[o][i] : i \in done})
    /\ GivesNothing
    /\ UNCHANGED steady

ClrFlg(o, clrptn) ==
    /\ o \in objs
    /\ flgptn' = [flgptn EXCEPT ![o] = @ \cap clrptn]
    /\ GivesNothing
    /\ UNCHANGED <<waiting, steady>>

(* Without TA_WMUL a second task is refused. *)
Admits(o) == "WMUL" \in atr[o] \/ sque[o] = <<>>

(* wai_flg, pol_flg and twai_flg that need not wait *)
WaiFlg(o, w) ==
    /\ o \in objs /\ Admits(o) /\ Satisfies(flgptn[o], w)
    /\ flgptn' = [flgptn EXCEPT ![o] = IF "CLR" \in atr[o] THEN {} ELSE @]
    /\ GivesNothing
    /\ UNCHANGED <<waiting, steady>>

WaiFlgWait(t, o, w, timed) ==
    /\ Ready(t) /\ o \in objs /\ Admits(o) /\ ~Satisfies(flgptn[o], w)
    /\ Block(t, o, "FLG", w, timed)
    /\ GivesNothing
    /\ UNCHANGED <<steady, flgptn>>

Wish == [waiptn : (SUBSET Bit) \ {{}}, wfmode : {"TWF_ORW", "TWF_ANDW"}]

FlgNext == \E o \in Flg \cap ids :
    \/ \E a \in FlgAtr, p \in SUBSET Bit : CreFlg(o, a, p)
    \/ DelFlg(o)
    \/ \E p \in SUBSET Bit : SetFlg(o, p) \/ ClrFlg(o, p)
    \/ \E w \in Wish :
          \/ WaiFlg(o, w)
          \/ \E t \in Task, timed \in BOOLEAN : WaiFlgWait(t, o, w, timed)

-----------------------------------------------------------------------------
FlgTypeOK == flgptn \in [Flg -> SUBSET Bit]

(* No task waits for what the flag shows, though set_flg looks at the      *)
(* queue only if it adds a bit and leaves off where the flag was cleared;  *)
(* and without TA_WMUL one task waits at most.                             *)
NoIdleFlg == \A o \in objs \cap Flg :
    /\ \A i \in 1..Len(sque[o]) : ~Satisfies(flgptn[o], par[sque[o][i]])
    /\ "WMUL" \notin atr[o] => Len(sque[o]) <= 1

=============================================================================
