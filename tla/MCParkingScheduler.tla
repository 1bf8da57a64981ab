-------------------------- MODULE MCParkingScheduler --------------------------
(* Instances of ParkingScheduler with blocks of two tokens.                *)
EXTENDS ParkingScheduler

(* A turn that ends with its block, two that extend it and end inside one  *)
(* at the same place, and another conversation.                            *)
MCPrompt == [a1 |-> <<1, 1>>, a2 |-> <<1, 1, 1>>, a3 |-> <<1, 1, 1>>, b |-> <<2, 2, 2>>]
MCTurn == [a1 |-> <<1, 1, 1>>, a2 |-> <<1, 1, 1, 2>>, a3 |-> <<1, 1, 1, 1>>,
           b  |-> <<2, 2, 2, 2, 2>>]

(* Two replies of the same length to one system prompt, and the turn that  *)
(* follows the second.                                                     *)
TwinPrompt == [a1 |-> <<1, 1>>, a2 |-> <<1, 1>>, a3 |-> <<1, 1, 2, 2, 2>>]
TwinTurn == [a1 |-> <<1, 1, 1, 1>>, a2 |-> <<1, 1, 2, 2>>, a3 |-> <<1, 1, 2, 2, 2, 2>>]
=============================================================================
