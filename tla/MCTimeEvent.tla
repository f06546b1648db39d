---------------------------- MODULE MCTimeEvent ----------------------------
(* Instances of TimeEvent for TLC.  The lower word of a time has two bits, *)
(* so that it overflows within the bound.                                  *)
EXTENDS TimeEvent

CONSTANTS alm, cyc, phs

MCOatr == [c \in {cyc, phs} |-> IF c = phs THEN {"PHS", "STA"} ELSE {"STA"}]
MCCyctim == [c \in {cyc, phs} |-> IF c = phs THEN 2 ELSE 1]
MCCycphs == [c \in {cyc, phs} |-> 0]
=============================================================================
