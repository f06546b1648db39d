------------------------------ MODULE MCXCore ------------------------------
(* Instances of XCore for TLC.  The objects of each core are one data queue *)
(* of two words; others send into it from handlers and receive from it.    *)
EXTENDS XCore

CONSTANTS c1, c2, c3, x, y

MCEmpty == <<>>
MCEffect(q, r) ==
    CASE r = "vprcv_dtq" -> IF q = <<>> THEN q ELSE Tail(q)
      [] OTHER -> IF Len(q) < 2 THEN Append(q, r) ELSE q
MCAnswer(q, r) ==
    CASE r = "vprcv_dtq" -> IF q = <<>> THEN "E_TMOUT" ELSE Head(q)
      [] OTHER -> IF Len(q) < 2 THEN "E_OK" ELSE "E_TMOUT"

(* Two cores may wait for the table of c1, c1 and c2 for each other; two   *)
(* handlers post to c2, and one back.                                      *)
MCCallTo == {<<c1, c2, "vprcv_dtq">>, <<c2, c1, "vprcv_dtq">>, <<c3, c1, "vprcv_dtq">>}
MCPostTo == {<<c1, c2, x>>, <<c3, c2, y>>, <<c2, c1, y>>}
=============================================================================
