----------------------------- MODULE MCParkIndex -----------------------------
(* An instance of ParkIndex with blocks of two tokens.                     *)
EXTENDS ParkIndex

(* Two conversations that share their first token, so that their one-block *)
(* turns have the same tail key, and a third one whose second turn needs   *)
(* the room of two others.  The turns end inside a block, at the end of a  *)
(* block, and inside the block after it.                                   *)
A == <<1, 1>>
B == <<1, 2>>
C == <<2, 1>>
L == <<2, 1, 1, 1, 1, 1>>

MCTurns == {A, A \o <<1>>, B, B \o <<1>>, C \o <<1>>, C \o L}

(* Prompts that extend a turn, that end exactly at one, and that diverge   *)
(* from one.                                                               *)
MCPrompts == {<<1>>, A, A \o <<1>>, B \o <<1, 2>>, C \o <<1>>, C \o L, C \o <<2, 2>>}
=============================================================================
