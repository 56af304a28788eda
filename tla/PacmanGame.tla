----------------------------- MODULE PacmanGame -----------------------------
(***************************************************************************)
(* The Pacman game of streaming-pacman as the browser runs it: global      *)
(* variables that key events, intervals and timeouts read and write.  The  *)
(* browser runs one callback at a time; which of those that are due comes  *)
(* next is open, and so is when a key is pressed.                          *)
(*                                                                         *)
(* A callback calls many small functions one after the other, so the       *)
(* globals are the fields of one record, game, and each function of the    *)
(* script is an operator that takes the record before it to the record     *)
(* after it.  Where Pacman and the ghosts are is module PacmanMaze's       *)
(* subject: here a step of Pacman is what it meets, a member of Steps.     *)
(***************************************************************************)
EXTENDS Integers

CONSTANTS NumGhosts,   \* blinky is 1, pinky 2, inky 3, clyde 4
          NumBubbles,  \* bubbles on the board
          Flashes,     \* the board flashes more often than this after a win (6)
          MaxLifes,    \* bound: an extra life beyond this one is not given
          MaxLevel,    \* bound: the levels that are told apart
          MaxTwins     \* bound: copies of one timeout that are pending

ASSUME PacmanAssumption ==
  /\ NumGhosts \in Nat \ {0}
  /\ NumBubbles \in Nat \ {0}
  /\ Flashes \in Nat
  /\ MaxLifes \in Nat /\ MaxLifes >= 2
  /\ MaxLevel \in Nat \ {0}
  /\ MaxTwins \in Nat \ {0}

VARIABLE game

Ghosts == 1 .. NumGhosts

Normal == 0
Afraid == 1
Eaten == -1

(* A Timer object: there is none; its timeout is running; or it has none,   *)
(* because it is paused or has fired.                                       *)
Timers == {"null", "live", "idle"}

Resting == [g \in Ghosts |-> FALSE]
NoTimers == [g \in Ghosts |-> "null"]
None == [g \in Ghosts |-> 0]

Init ==
  game = [
    home |-> TRUE, lock |-> FALSE, pause |-> FALSE, gameover |-> FALSE,
    lifes |-> 2, level |-> 1, bubbles |-> NumBubbles, combo |-> 0,
    dead |-> FALSE, moving |-> FALSE, fresh |-> TRUE, killing |-> FALSE,
    state |-> [g \in Ghosts |-> Normal], ghosting |-> Resting,
    affraid |-> NoTimers, eat |-> NoTimers,       \* the ghosts' timers
    affraidLost |-> None, eatLost |-> None,       \* timeouts no timer knows of
    times |-> FALSE, fruit |-> "null", fruitLost |-> 0,
    go |-> 0, retry |-> 0, prepare |-> 0,         \* pending setTimeouts
    eatGhost |-> None,
    flash |-> -1,                                 \* LEVEL_NEXT_STATE, or -1
    clash |-> FALSE ]

Least(a, b) == IF a <= b THEN a ELSE b

(* setTimeout                                                               *)
Twin(n) == Least(n + 1, MaxTwins)

-----------------------------------------------------------------------------
(* Timer.  resume() forgets a timeout that is still running.                *)

Paused(t) == IF t = "null" THEN "null" ELSE "idle"
Resumed(t) == IF t = "null" THEN "null" ELSE "live"
Lost(n, t) == IF t = "live" THEN Twin(n) ELSE n

-----------------------------------------------------------------------------
(* Stopping, pausing and resuming                                           *)

StopPacman(s) == [s EXCEPT !.moving = FALSE, !.killing = FALSE]

PausePacman(s) == [s EXCEPT !.moving = FALSE]

ResetPacman(s) == [StopPacman(s) EXCEPT !.dead = FALSE, !.fresh = TRUE]

StopGhosts(s) ==
  [s EXCEPT !.affraid = [g \in Ghosts |-> IF s.state[g] = Afraid THEN "null" ELSE @[g]],
            !.eat = [g \in Ghosts |-> IF s.state[g] = Eaten THEN "null" ELSE @[g]],
            !.state = [g \in Ghosts |-> Normal],
            !.ghosting = Resting]

ResetGhosts(s) == [StopGhosts(s) EXCEPT !.affraid = NoTimers, !.eat = NoTimers]

PauseGhosts(s) ==
  [s EXCEPT !.affraid = [g \in Ghosts |-> IF s.state[g] = Afraid THEN Paused(@[g]) ELSE @[g]],
            !.eat = [g \in Ghosts |-> IF s.state[g] = Eaten THEN Paused(@[g]) ELSE @[g]],
            !.ghosting = Resting]

(* moveGhosts; a ghost that moves already only takes a step, which is left  *)
(* to its next tick.                                                        *)
MoveGhosts(s) == [s EXCEPT !.ghosting = [g \in Ghosts |-> TRUE]]

ResumeGhosts(s) ==
  MoveGhosts(
    [s EXCEPT
       !.affraidLost = [g \in Ghosts |->
          IF s.state[g] = Afraid THEN Lost(@[g], s.affraid[g]) ELSE @[g]],
       !.eatLost = [g \in Ghosts |->
          IF s.state[g] = Eaten THEN Lost(@[g], s.eat[g]) ELSE @[g]],
       !.affraid = [g \in Ghosts |-> IF s.state[g] = Afraid THEN Resumed(@[g]) ELSE @[g]],
       !.eat = [g \in Ghosts |-> IF s.state[g] = Eaten THEN Resumed(@[g]) ELSE @[g]]])

(* Variant: the time that a fruit stays is not paused.                     *)
PauseTimes_FruitRuns(s) == [s EXCEPT !.times = FALSE]

PauseTimes(s) == [s EXCEPT !.times = FALSE, !.fruit = Paused(@)]

ResumeTimes(s) ==
  [s EXCEPT !.times = TRUE,
            !.fruitLost = Lost(@, s.fruit),
            !.fruit = Resumed(@)]

StopTimes(s) == [s EXCEPT !.times = FALSE, !.fruit = "null"]

-----------------------------------------------------------------------------
(* What a step of Pacman meets: a wall; or a bubble, ghosts and the fruit.  *)
(* idle is the call for a key that names the direction he already has.      *)
(* bonus says which of these takes the score over a multiple of 10000, for  *)
(* an extra life.                                                           *)

Bites == {"none", "bubble", "super"}

Meets(bite, near, fruit, bonus) ==
  [idle |-> FALSE, blocked |-> FALSE, bite |-> bite, near |-> near,
   fruit |-> fruit, bonus |-> bonus]

Nothing == Meets("none", {}, FALSE, "none")
Wall == [Nothing EXCEPT !.blocked = TRUE]
SameWay == [Nothing EXCEPT !.idle = TRUE]

(* He looks at what he meets when his mouth is at 0 or at 3; it is at 3     *)
(* after a reset, so that the first step looks at nothing.                  *)
Encounters(s) ==
  { Meets(b, n, f, x) :
      b \in IF s.bubbles > 0 THEN Bites ELSE {"none"},
      n \in SUBSET Ghosts,
      f \in IF s.fruit = "null" THEN {FALSE} ELSE BOOLEAN,
      x \in {"none", "bubble", "ghost", "fruit"} }

Steps(s) ==
  {Wall} \union
  IF s.fresh THEN {Nothing}
  ELSE { e \in Encounters(s) : /\ e.bonus = "bubble" => e.bite # "none"
                               /\ e.bonus = "ghost" => e.near # {}
                               /\ e.bonus = "fruit" => e.fruit }

(* score, when it is an event of this kind that scores                      *)
Score(s, e, kind) ==
  IF e.bonus = kind THEN [s EXCEPT !.lifes = Least(@ + 1, MaxLifes)] ELSE s

(* Variant: the timer of the fright before is dropped and not cancelled.   *)
AffraidGhosts_NotCancelled(s) ==
  LET again == { g \in Ghosts : s.state[g] # Eaten }
  IN  [s EXCEPT
         !.combo = 0,
         !.state = [g \in Ghosts |-> IF g \in again THEN Afraid ELSE Eaten],
         !.affraidLost = [g \in Ghosts |-> Lost(@[g], s.affraid[g])],
         !.affraid = [g \in Ghosts |-> IF g \in again THEN "live" ELSE "null"],
         !.ghosting = [g \in Ghosts |-> g \in again \/ @[g]]]

(* affraidGhosts; a new fright starts for all but the eaten ghosts          *)
AffraidGhosts(s) ==
  LET again == { g \in Ghosts : s.state[g] # Eaten }
  IN  [s EXCEPT
         !.combo = 0,
         !.state = [g \in Ghosts |-> IF g \in again THEN Afraid ELSE Eaten],
         !.affraid = [g \in Ghosts |-> IF g \in again THEN "live" ELSE "null"],
         !.ghosting = [g \in Ghosts |-> g \in again \/ @[g]]]

Win(s) ==
  LET t == StopTimes(StopGhosts(StopPacman(s)))
  IN  [t EXCEPT !.lock = TRUE, !.prepare = Twin(@), !.clash = @ \/ s.lock]

TestBubblesPacman(s, e) ==
  IF e.bite = "none" THEN s
  ELSE LET scored == Score(s, e, "bubble")
           t == [(IF e.bite = "super" THEN AffraidGhosts(scored) ELSE scored)
                   EXCEPT !.bubbles = @ - 1]
       IN  IF t.bubbles = 0 THEN Win(t) ELSE t

(* Variant: a second ghost is eaten while the first one is.                *)
StartEatGhost_NoLockTest(s, g, e) ==
  LET t == Score([s EXCEPT !.lock = TRUE, !.affraid[g] = "null"], e, "ghost")
  IN  [PausePacman(PauseGhosts(t)) EXCEPT !.combo = Least(@ + 1, NumGhosts + 1),
                                          !.eatGhost[g] = Twin(@)]

StartEatGhost(s, g, e) ==
  IF s.lock THEN s
  ELSE LET t == Score([s EXCEPT !.lock = TRUE, !.affraid[g] = "null"], e, "ghost")
       IN  [PausePacman(PauseGhosts(t)) EXCEPT !.combo = Least(@ + 1, NumGhosts + 1),
                                               !.eatGhost[g] = Twin(@)]

(* Variant: stopPacman comes last, and stops the killing as well.          *)
KillPacman_StopsLast(s) ==
  LET t == [s EXCEPT !.lock = TRUE, !.dead = TRUE, !.killing = TRUE,
                     !.clash = @ \/ s.lock]
  IN  StopPacman(PauseTimes(StopGhosts(t)))

KillPacman(s) ==
  LET t == PauseTimes(StopGhosts(StopPacman(s)))
  IN  [t EXCEPT !.lock = TRUE, !.dead = TRUE, !.killing = TRUE,
                !.clash = @ \/ s.lock]

(* testGhostPacman for each ghost near Pacman, in order.  The first afraid  *)
(* one takes the lock, and the first normal one kills; killing makes the    *)
(* ghosts normal, and to kill again changes nothing.                        *)
TestGhostsPacman(s, e) ==
  LET kills == { g \in e.near : s.state[g] = Normal }
      eaten == { g \in e.near : /\ s.state[g] = Afraid
                                /\ \A k \in kills : g < k }
      t == IF eaten = {} THEN s
           ELSE StartEatGhost(s, CHOOSE g \in eaten : \A h \in eaten : g <= h, e)
  IN  IF kills = {} THEN t ELSE KillPacman(t)

TestFruitsPacman(s, e) ==
  IF e.fruit /\ s.fruit # "null"
  THEN [Score(s, e, "fruit") EXCEPT !.fruit = "null"]
  ELSE s

MovePacman(s, e) ==
  LET t == [s EXCEPT !.moving = TRUE]
  IN  CASE e.idle -> t
        [] e.blocked -> StopPacman(t)
        [] OTHER -> TestFruitsPacman(
                      TestGhostsPacman(
                        TestBubblesPacman([t EXCEPT !.fresh = FALSE], e), e), e)

-----------------------------------------------------------------------------
Ready(s) == [s EXCEPT !.lock = TRUE, !.go = Twin(@)]

(* Variant: a game that is over leaves the next one without lifes.         *)
Gameover_KeepsLifes(s) ==
  [ResetGhosts(ResetPacman(StopTimes(s))) EXCEPT !.gameover = TRUE, !.level = 1]

Gameover(s) ==
  [ResetGhosts(ResetPacman(StopTimes(s)))
     EXCEPT !.gameover = TRUE, !.lifes = 2, !.level = 1]

(* retry, which its timeout calls                                           *)
RetryGame(s) == Ready(ResetGhosts(ResetPacman(StopTimes(s))))

(* nextLevel, with initGame() for a level that is not the first             *)
NextLevel(s) ==
  Ready([ResetGhosts(ResetPacman(s)) EXCEPT !.level = Least(@ + 1, MaxLevel),
                                            !.bubbles = NumBubbles])

-----------------------------------------------------------------------------
(* The keys, and the buttons that stand for them (start.html)               *)

Playable(s) == ~s.dead /\ ~s.lock

(* Any key at home: initGame(true)                                          *)
KeyStart ==
  /\ game.home
  /\ game' = Ready([game EXCEPT !.home = FALSE, !.gameover = FALSE,
                                !.level = 1, !.bubbles = NumBubbles])

(* Any key when Pacman is dead and nothing is locked                        *)
KeyRestart ==
  /\ ~game.home /\ game.dead /\ ~game.lock
  /\ game' = MoveGhosts(ResetGhosts(ResetPacman(game)))

KeyArrow ==
  /\ ~game.home /\ ~game.pause /\ Playable(game)
  /\ \E e \in Steps(game) \union {SameWay} : game' = MovePacman(game, e)

(* pauseGame, from P or from the help button                                *)
KeyPause ==
  /\ ~game.home /\ Playable(game)
  /\ ~game.pause
  /\ game' = PauseGhosts(PausePacman(PauseTimes([game EXCEPT !.pause = TRUE])))

(* resumeGame.  It takes a step before it moves the ghosts on, and these    *)
(* move whatever the step met; a fright that has just begun gets a second   *)
(* timeout.                                                                 *)
KeyResume ==
  /\ ~game.home /\ Playable(game)
  /\ game.pause
  /\ \E e \in Steps(game) :
       LET s == MovePacman(ResumeTimes([game EXCEPT !.pause = FALSE]), e)
       IN  game' = ResumeGhosts([s EXCEPT !.clash = @ \/ s.lock \/ e.bite = "super"])

(* Any key that means nothing else, when the game is over: initHome         *)
KeyHome ==
  /\ ~game.home /\ game.gameover
  /\ ~(game.dead /\ ~game.lock)
  /\ game' = [game EXCEPT !.home = TRUE, !.gameover = FALSE,
                          !.lock = FALSE, !.dead = FALSE]

-----------------------------------------------------------------------------
(* The intervals                                                            *)

PacmanTick ==
  /\ game.moving
  /\ \E e \in Steps(game) : game' = MovePacman(game, e)

(* A step of ghost g.  It looks for Pacman only when he stands still, and   *)
(* then at a border of the tunnel starts again with its other speed.  What  *)
(* it remembers of the tunnel is not changed while it is afraid or eaten    *)
(* and not reset with it, so that it may start again anywhere, and may do   *)
(* so in the step in which it has killed Pacman.                            *)
GhostTick(g) ==
  /\ game.ghosting[g]
  /\ \E contact, border \in BOOLEAN :
       /\ contact => ~game.moving /\ game.state[g] # Eaten
       /\ \E x \in IF contact THEN {"none", "ghost"} ELSE {"none"} :
            LET s == IF contact
                     THEN TestGhostsPacman(game, Meets("none", {g}, FALSE, x))
                     ELSE game
            IN  game' = IF border /\ s.state[g] = Normal
                        THEN [s EXCEPT !.ghosting[g] = TRUE]
                        ELSE s

(* Variant: the last life is lost twice.                                   *)
KillingPacman_NoGameover ==
  /\ game.killing
  /\ game' = [game EXCEPT !.killing = FALSE, !.lifes = @ - 1, !.retry = Twin(@)]

(* killingPacman, the last of its calls                                     *)
KillingPacman ==
  /\ game.killing
  /\ LET s == [game EXCEPT !.killing = FALSE]
     IN  game' = IF s.lifes > 0
                 THEN [s EXCEPT !.lifes = @ - 1, !.retry = Twin(@)]
                 ELSE Gameover(s)

(* Variant: the flashing starts again and no level comes.                  *)
Flash_Forever ==
  /\ game.flash # -1
  /\ game' = [game EXCEPT !.flash = IF @ + 1 > Flashes THEN 0 ELSE @ + 1]

(* prepareNextLevel as the interval calls it                                *)
Flash ==
  /\ game.flash # -1
  /\ game' = IF game.flash + 1 > Flashes
             THEN NextLevel([game EXCEPT !.flash = -1, !.lock = FALSE])
             ELSE [game EXCEPT !.flash = @ + 1]

(* times                                                                    *)
FruitAppears ==
  /\ game.times /\ game.fruit = "null"
  /\ game' = [game EXCEPT !.fruit = "live"]

-----------------------------------------------------------------------------
(* The timeouts                                                             *)

Go ==
  /\ game.go > 0
  /\ \E e \in Steps(game) :
       game' = MoveGhosts(MovePacman([game EXCEPT !.go = @ - 1, !.lock = FALSE,
                                                  !.times = TRUE], e))

Retry ==
  /\ game.retry > 0
  /\ game' = RetryGame([game EXCEPT !.retry = @ - 1])

(* prepareNextLevel as the timeout of win calls it                          *)
Prepare ==
  /\ game.prepare > 0
  /\ LET s == [game EXCEPT !.prepare = @ - 1]
     IN  game' = CASE s.flash = -1 -> [s EXCEPT !.flash = 0]
                   [] s.flash + 1 > Flashes ->
                        NextLevel([s EXCEPT !.flash = -1, !.lock = FALSE])
                   [] OTHER -> [s EXCEPT !.flash = @ + 1]

EatGhost(g) ==
  /\ game.eatGhost[g] > 0
  /\ \E e \in Steps(game) :
       LET s == [game EXCEPT !.eatGhost[g] = @ - 1]
           t == IF s.state[g] = Afraid
                THEN [s EXCEPT !.state[g] = Eaten, !.eat[g] = "idle"]
                ELSE s
       IN  game' = [MovePacman(ResumeGhosts(t), e) EXCEPT !.lock = FALSE]

(* cancelAffraidGhost                                                       *)
Calmed(s, g) ==
  IF s.state[g] = Afraid /\ s.affraid[g] # "null"
  THEN [s EXCEPT !.affraid[g] = "null", !.state[g] = Normal, !.ghosting[g] = TRUE]
  ELSE s

(* cancelEatGhost; it forgets the timer and does not cancel it              *)
Revived(s, g) ==
  IF s.state[g] = Eaten
  THEN [s EXCEPT !.eatLost[g] = Lost(@, s.eat[g]), !.eat[g] = "null",
                 !.state[g] = Normal, !.ghosting[g] = TRUE]
  ELSE s

AffraidOver(g) ==
  \/ /\ game.affraid[g] = "live"
     /\ game' = Calmed([game EXCEPT !.affraid[g] = "idle"], g)
  \/ /\ game.affraidLost[g] > 0
     /\ game' = Calmed([game EXCEPT !.affraidLost[g] = @ - 1], g)

EatOver(g) ==
  \/ /\ game.eat[g] = "live"
     /\ game' = Revived([game EXCEPT !.eat[g] = "idle"], g)
  \/ /\ game.eatLost[g] > 0
     /\ game' = Revived([game EXCEPT !.eatLost[g] = @ - 1], g)

(* cancelFruit; without a timer it fails                                    *)
FruitOver ==
  \/ /\ game.fruit = "live"
     /\ game' = [game EXCEPT !.fruit = "null"]
  \/ /\ game.fruitLost > 0
     /\ game' = [game EXCEPT !.fruitLost = @ - 1, !.fruit = "null"]

-----------------------------------------------------------------------------
Callback ==
  \/ PacmanTick \/ KillingPacman \/ Flash \/ FruitAppears
  \/ Go \/ Retry \/ Prepare \/ FruitOver
  \/ \E g \in Ghosts : GhostTick(g) \/ EatGhost(g) \/ AffraidOver(g) \/ EatOver(g)

Key == KeyStart \/ KeyRestart \/ KeyArrow \/ KeyPause \/ KeyResume \/ KeyHome

Next == Key \/ Callback

(* The browser runs what is due; nothing makes the player press a key.      *)
Spec ==
  /\ Init /\ [][Next]_game
  /\ WF_game(KillingPacman) /\ WF_game(Flash)
  /\ WF_game(Go) /\ WF_game(Retry) /\ WF_game(Prepare)
  /\ \A g \in Ghosts :
       WF_game(EatGhost(g)) /\ WF_game(AffraidOver(g)) /\ WF_game(EatOver(g))

-----------------------------------------------------------------------------
Pending(s) ==
  { x \in [kind : {"go", "retry", "prepare", "killing", "flash", "eat"},
           ghost : Ghosts] :
      \/ x.kind = "eat" /\ s.eatGhost[x.ghost] > 0
      \/ /\ x.ghost = 1
         /\ \/ x.kind = "go" /\ s.go > 0
            \/ x.kind = "retry" /\ s.retry > 0
            \/ x.kind = "prepare" /\ s.prepare > 0
            \/ x.kind = "killing" /\ s.killing
            \/ x.kind = "flash" /\ s.flash # -1 }

(* The globals have their types.                                            *)
TypeOK ==
  game \in [
    home : BOOLEAN, lock : BOOLEAN, pause : BOOLEAN, gameover : BOOLEAN,
    lifes : 0 .. MaxLifes, level : 1 .. MaxLevel, bubbles : 0 .. NumBubbles,
    combo : 0 .. NumGhosts + 1, dead : BOOLEAN, moving : BOOLEAN,
    fresh : BOOLEAN, killing : BOOLEAN,
    state : [Ghosts -> {Normal, Afraid, Eaten}], ghosting : [Ghosts -> BOOLEAN],
    affraid : [Ghosts -> Timers], eat : [Ghosts -> Timers],
    affraidLost : [Ghosts -> 0 .. MaxTwins], eatLost : [Ghosts -> 0 .. MaxTwins],
    times : BOOLEAN, fruit : Timers, fruitLost : 0 .. MaxTwins,
    go : 0 .. MaxTwins, retry : 0 .. MaxTwins, prepare : 0 .. MaxTwins,
    eatGhost : [Ghosts -> 0 .. MaxTwins],
    flash : -1 .. Flashes, clash : BOOLEAN ]

(* LOCK is the game's only guard between its time-lines: while it is set,   *)
(* exactly one of them is pending, so that a death, a win and a ghost that  *)
(* is being eaten never overlap, and when it is not set none is.            *)
OneTimeline ==
  ~game.clash =>
    /\ \A x, y \in Pending(game) : x = y
    /\ (Pending(game) # {}) <=> (game.lock /\ ~game.gameover)

(* A game that PAUSE holds stands still: nothing moves, no time runs and no *)
(* timeout is on its way that would move it.                                *)
Frozen ==
  ~game.clash /\ game.pause =>
    /\ ~game.moving /\ ~game.times /\ game.fruit # "live"
    /\ Pending(game) = {}
    /\ \A g \in Ghosts :
         ~game.ghosting[g] /\ game.affraid[g] # "live" /\ game.eat[g] # "live"

(* A ghost's timers go with its state: an afraid ghost that is not being    *)
(* eaten has an affraid timer and an eaten one an eat timer, either runs    *)
(* exactly when the ghost moves, and no timeout runs that its timer has     *)
(* lost, which would end a later fright too early.                          *)
TimersAgree ==
  ~game.clash =>
    /\ game.fruitLost = 0
    /\ \A g \in Ghosts :
         LET due(t) == IF game.ghosting[g] THEN "live" ELSE t
         IN  /\ game.affraidLost[g] = 0 /\ game.eatLost[g] = 0
             /\ game.affraid[g] = (IF game.state[g] = Afraid /\ game.eatGhost[g] = 0
                                   THEN due("idle") ELSE "null")
             /\ game.eat[g] = (IF game.state[g] = Eaten THEN due("idle") ELSE "null")

(* A locked game goes on by itself: what set LOCK left a timeout or an      *)
(* interval that will clear it.                                             *)
NeverStuck == game.lock /\ ~game.home /\ ~game.gameover => Pending(game) # {}

(* Each lock is released: the player gets the game back, or loses it.       *)
LockReleased ==
  game.lock ~> (~game.lock \/ game.gameover \/ game.clash)

(* The phase of the game, as its globals tell it.                           *)
Phase ==
  IF game.clash THEN "clash"
  ELSE IF game.home THEN "home"
  ELSE IF game.gameover THEN "over"
  ELSE IF game.killing THEN "dying"
  ELSE IF game.retry > 0 THEN "retrying"
  ELSE IF game.prepare > 0 \/ game.flash # -1 THEN "won"
  ELSE IF game.go > 0 THEN "ready"
  ELSE IF \E g \in Ghosts : game.eatGhost[g] > 0 THEN "eating"
  ELSE IF game.pause THEN "paused"
  ELSE "play"

Round == INSTANCE PacmanRound WITH
  phase <- Phase, lifes <- game.lifes, level <- game.level

(* The callbacks and keys add up to the game the player is promised.        *)
PlaysByTheRules == Round!Spec
=============================================================================
