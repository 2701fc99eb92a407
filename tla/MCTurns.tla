------------------------------ MODULE MCTurns ------------------------------
(* Bounds on the calls and model requests of the turns, for TLC.           *)
EXTENDS TurnProperties

EveryTurn == [t \in Turns |-> MaxRequest]
LastOnce  == [t \in Turns |-> IF t = MaxTurn THEN 1 ELSE MaxRequest]
AllCalls  == [t \in Turns |-> Calls]
FirstOnly == [t \in Turns |-> IF t = 1 THEN Calls ELSE {}]
=============================================================================
