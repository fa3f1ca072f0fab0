---------------------------- MODULE AnswerStream ----------------------------
(***************************************************************************)
(* What a client is promised about the pieces of an answer that reach it:  *)
(* they come in the order in which the runner made them, none is repeated, *)
(* and an answer that is declared whole has left none out.                 *)
(***************************************************************************)
EXTENDS Naturals, Sequences

CONSTANT Pieces

VARIABLES made,    \* the pieces made so far
          shown,   \* those the client was given
          over     \* "no", "whole", or "cut" when the answer was given up

vars == <<made, shown, over>>

Init == made = <<>> /\ shown = <<>> /\ over = "no"

Make == \E p \in Pieces :
    /\ over # "whole"
    /\ made' = Append(made, p)
    /\ UNCHANGED <<shown, over>>

Show ==
    /\ over # "whole"
    /\ Len(shown) < Len(made)
    /\ shown' = Append(shown, made[Len(shown) + 1])
    /\ UNCHANGED <<made, over>>

Finish == over = "no" /\ shown = made /\ over' = "whole" /\ UNCHANGED <<made, shown>>

GiveUp == over = "no" /\ over' = "cut" /\ UNCHANGED <<made, shown>>

Next == Make \/ Show \/ Finish \/ GiveUp

Spec == Init /\ [][Next]_vars

=============================================================================
