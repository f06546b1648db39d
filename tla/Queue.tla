-------------------------------- MODULE Queue --------------------------------
(***************************************************************************)
(* What the kernel's doubly linked lists have in common, whichever links   *)
(* of a control block they use: the entries of a set taken out of a list   *)
(* leave the others linked in their order.                                 *)
(***************************************************************************)
EXTENDS Naturals, Sequences

(* The entries of q that belong to S, in their order in q. *)
Keep(q, S) ==
    LET kept[n \in 0..Len(q)] ==
            IF n = 0 THEN <<>>
            ELSE IF q[n] \in S THEN Append(kept[n - 1], q[n]) ELSE kept[n - 1]
    IN kept[Len(q)]

=============================================================================
