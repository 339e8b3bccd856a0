-------------------------- MODULE MCTurnoutBridge --------------------------
(* TLC's instances of TurnoutBridge. *)
EXTENDS TurnoutBridge

\* Commands for one turnout, and one the decoder rejects (address 0).
OneTurnoutCommands ==
  {[address |-> 1, position |-> Closed], [address |-> 1, position |-> Thrown],
   [address |-> 0, position |-> Thrown]}

NoCommands == {}
=============================================================================
