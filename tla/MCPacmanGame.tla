---------------------------- MODULE MCPacmanGame ----------------------------
(* A board of two bubbles with two ghosts.                                  *)
EXTENDS PacmanGame

MCNumGhosts == 2
MCNumBubbles == 2
MCFlashes == 1
MCMaxLifes == 3
MCMaxLevel == 2
MCMaxTwins == 1

LostBy == { g \in Ghosts : game.affraidLost[g] > 0 \/ game.eatLost[g] > 0 }

FruitMatters == game.fruit # "null" \/ game.fruitLost > 0

(* After a clash a game is followed in the first level, without an extra    *)
(* life and while a bubble is missing, and of the timeouts that can be lost *)
(* those of one ghost, or the fruit's when it comes in a pause and ghosts   *)
(* are normal.                                                              *)
Aftermath ==
  game.clash =>
    /\ game.level = 1 /\ game.lifes <= 2 /\ game.bubbles < NumBubbles
    /\ LostBy \subseteq {1}
    /\ FruitMatters =>
         /\ game.fruit # "idle"
         /\ game.fruit = "live" => game.pause \/ game.fruitLost > 0
         /\ LostBy = {} /\ \A g \in Ghosts : game.state[g] = Normal
=============================================================================
