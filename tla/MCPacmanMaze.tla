---------------------------- MODULE MCPacmanMaze ----------------------------
(* The maze as it is: there is one board.                                   *)
EXTENDS PacmanMaze
=============================================================================
