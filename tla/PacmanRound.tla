---------------------------- MODULE PacmanRound ----------------------------
(***************************************************************************)
(* What a player is promised of a game of Pacman: the phases it goes       *)
(* through, the lifes and the level.  Every death costs one life and only  *)
(* a death does, a game ends only when it has no life left, a level is     *)
(* reached only by winning the one before, and a pause changes nothing.    *)
(* PacmanGame implements this until something is met in the middle of      *)
(* another encounter, which is the phase "clash".                          *)
(***************************************************************************)
EXTENDS Integers

CONSTANTS MaxLifes,  \* bound: an extra life beyond this one is not given
          MaxLevel   \* bound: the levels that are told apart

VARIABLES phase, lifes, level

round == << phase, lifes, level >>

Phases == {"home", "ready", "play", "paused", "eating", "dying",
           "retrying", "won", "over", "clash"}

Init == phase = "home" /\ lifes = 2 /\ level = 1

Becomes(from, to) == phase \in from /\ phase' = to

(* The score may bring an extra life while Pacman moves.                    *)
MayGain == lifes' \in { lifes, IF lifes < MaxLifes THEN lifes + 1 ELSE lifes }

Start == Becomes({"home"}, "ready") /\ level' = 1 /\ UNCHANGED lifes

Begin == Becomes({"ready"}, "play") /\ UNCHANGED << lifes, level >>

Play ==
  /\ \E to \in {"play", "eating", "dying", "won"} : Becomes({"play"}, to)
  /\ MayGain /\ UNCHANGED level

Pause == Becomes({"play"}, "paused") /\ UNCHANGED << lifes, level >>

Resume == Becomes({"paused"}, "play") /\ MayGain /\ UNCHANGED level

Eat == Becomes({"eating"}, "play") /\ MayGain /\ UNCHANGED level

Die ==
  \/ /\ Becomes({"dying"}, "retrying") /\ lifes > 0
     /\ lifes' = lifes - 1 /\ UNCHANGED level
  \/ /\ Becomes({"dying"}, "over") /\ lifes = 0
     /\ lifes' = 2 /\ level' = 1

Again == Becomes({"retrying"}, "ready") /\ UNCHANGED << lifes, level >>

NextLevel ==
  /\ Becomes({"won"}, "ready")
  /\ level' = IF level < MaxLevel THEN level + 1 ELSE level
  /\ UNCHANGED lifes

Leave == Becomes({"over"}, "home") /\ UNCHANGED << lifes, level >>

(* Two encounters in one: nothing is promised from here on.                 *)
Clash == Becomes({"play", "paused", "eating", "dying", "retrying", "clash"}, "clash")

Next ==
  \/ Start \/ Begin \/ Play \/ Pause \/ Resume \/ Eat \/ Die
  \/ Again \/ NextLevel \/ Leave \/ Clash

Spec == Init /\ [][Next]_round
=============================================================================
