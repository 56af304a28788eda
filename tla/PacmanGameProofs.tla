-------------------------- MODULE PacmanGameProofs --------------------------
(***************************************************************************)
(* The Pacman game for any number of ghosts, bubbles, lifes and levels.    *)
(* Until something is met in the middle of another encounter the game is   *)
(* in one of nine modes, each of which says what every timer and callback  *)
(* is doing; and a locked game is never stuck, also after that.            *)
(***************************************************************************)
EXTENDS PacmanGame, FiniteSets, FiniteSetTheorems, WellFoundedInduction, TLAPS

State == [
  home : BOOLEAN, lock : BOOLEAN, pause : BOOLEAN, gameover : BOOLEAN,
  lifes : 0 .. MaxLifes, level : 1 .. MaxLevel, bubbles : 0 .. NumBubbles,
  combo : 0 .. NumGhosts + 1, dead : BOOLEAN, moving : BOOLEAN,
  fresh : BOOLEAN, killing : BOOLEAN,
  state : [Ghosts -> {Normal, Afraid, Eaten}], ghosting : [Ghosts -> BOOLEAN],
  affraid : [Ghosts -> Timers], eat : [Ghosts -> Timers],
  affraidLost : [Ghosts -> 0 .. MaxTwins], eatLost : [Ghosts -> 0 .. MaxTwins],
  times : BOOLEAN, fruit : Timers, fruitLost : 0 .. MaxTwins,
  go : 0 .. MaxTwins, retry : 0 .. MaxTwins, prepare : 0 .. MaxTwins,
  eatGhost : [Ghosts -> 0 .. MaxTwins],
  flash : -1 .. Flashes, clash : BOOLEAN ]

-----------------------------------------------------------------------------
(* The modes *)

(* The timers of the ghosts, those that go on with their ghosts in state on. *)
GhostsAre(s, moving, on) ==
  \A g \in Ghosts :
    /\ s.ghosting[g] = moving
    /\ s.affraid[g] = IF s.state[g] = Afraid /\ s.eatGhost[g] = 0 THEN on ELSE "null"
    /\ s.eat[g] = IF s.state[g] = Eaten THEN on ELSE "null"

Calm(s) == \A g \in Ghosts : s.state[g] = Normal /\ s.affraid[g] = "null" /\ s.eat[g] = "null"

Still(s) == \A g \in Ghosts : ~ s.ghosting[g]

NothingLost(s) ==
  s.fruitLost = 0 /\ \A g \in Ghosts : s.affraidLost[g] = 0 /\ s.eatLost[g] = 0

NoEating(s) == \A g \in Ghosts : s.eatGhost[g] = 0

(* The timeouts of the game that are pending: which, and how many.          *)
Due(s, go, retry, prepare) ==
  s.go = go /\ s.retry = retry /\ s.prepare = prepare

(* In the game, and not paused                                              *)
On(s) == ~ s.home /\ ~ s.gameover /\ ~ s.pause

(* Before the first step                                                    *)
AtStart(s) ==
  /\ ~ s.pause /\ ~ s.dead /\ ~ s.moving /\ ~ s.killing /\ s.fresh
  /\ Still(s) /\ Calm(s) /\ ~ s.times /\ s.fruit = "null"
  /\ s.flash = -1 /\ NoEating(s)

Home(s) == s.home /\ ~ s.lock /\ ~ s.gameover /\ AtStart(s) /\ Due(s, 0, 0, 0)

Over(s) == s.gameover /\ s.lock /\ ~ s.home /\ AtStart(s) /\ Due(s, 0, 0, 0)

GetReady(s) == On(s) /\ s.lock /\ AtStart(s) /\ Due(s, 1, 0, 0)

(* Pacman may move, and the ghosts do when moving is TRUE.                  *)
Playing(s, moving) ==
  /\ On(s) /\ ~ s.dead /\ ~ s.killing /\ Due(s, 0, 0, 0) /\ s.flash = -1 /\ NoEating(s)
  /\ GhostsAre(s, moving, IF moving THEN "live" ELSE "idle")

Held(s) ==
  /\ s.pause /\ ~ s.home /\ ~ s.gameover /\ ~ s.lock /\ ~ s.dead /\ ~ s.killing
  /\ Due(s, 0, 0, 0) /\ s.flash = -1 /\ NoEating(s)
  /\ ~ s.moving /\ ~ s.times /\ s.fruit # "live" /\ GhostsAre(s, FALSE, "idle")

EatingOne(s, g) ==
  /\ On(s) /\ s.lock /\ ~ s.dead /\ ~ s.killing /\ ~ s.moving
  /\ Due(s, 0, 0, 0) /\ s.flash = -1
  /\ \A h \in Ghosts : s.eatGhost[h] = IF h = g THEN 1 ELSE 0
  /\ s.state[g] = Afraid /\ GhostsAre(s, FALSE, "idle")

(* A ghost may have started to move again at the border of the tunnel.      *)
Dead(s) ==
  /\ On(s) /\ s.lock /\ s.dead /\ ~ s.moving /\ ~ s.times /\ s.fruit # "live"
  /\ Calm(s) /\ s.flash = -1 /\ NoEating(s)

Dying(s) == Dead(s) /\ s.killing /\ Due(s, 0, 0, 0)

Retrying(s) == Dead(s) /\ ~ s.killing /\ Due(s, 0, 1, 0)

Won(s) ==
  /\ On(s) /\ s.lock /\ ~ s.dead /\ ~ s.killing /\ ~ s.moving /\ ~ s.times
  /\ s.fruit = "null" /\ Still(s) /\ Calm(s) /\ NoEating(s)
  /\ \/ Due(s, 0, 0, 1) /\ s.flash = -1
     \/ Due(s, 0, 0, 0) /\ s.flash # -1

Modes(s) ==
  NothingLost(s) /\
    \/ Home(s) \/ Over(s) \/ GetReady(s) \/ Held(s) \/ Dying(s) \/ Retrying(s) \/ Won(s)
    \/ Playing(s, TRUE) /\ ~ s.lock
    \/ \E g \in Ghosts : EatingOne(s, g)

InMode == ~ game.clash => Modes(game)

(* What will clear the lock; the interval that kills Pacman is not cleared  *)
(* by one that moves him as long as he stands.                              *)
Awaited(s) ==
  s.go > 0 \/ s.retry > 0 \/ s.prepare > 0 \/ s.flash # -1 \/ \E g \in Ghosts : s.eatGhost[g] > 0

Unlocks(s) ==
  s.lock /\ ~ s.home /\ ~ s.gameover => Awaited(s) \/ (s.killing /\ ~ s.moving)

GameInv == TypeOK /\ InMode /\ Unlocks(game)

-----------------------------------------------------------------------------
(* Each function of the script keeps the types, and none takes a clash back *)

(* A typed record, and no clash that was before it is gone.                 *)
Follows(t, s) == t \in State /\ (s.clash => t.clash)

(* A timeout that is set is pending, and its copies stay within the bound.  *)
LEMMA TwinTyped == ASSUME NEW n \in 0 .. MaxTwins PROVE Twin(n) \in 1 .. MaxTwins
  BY PacmanAssumption DEF PacmanAssumption, Twin, Least

(* A timer that is resumed while it runs loses one timeout.                 *)
LEMMA LostTyped ==
  ASSUME NEW n \in 0 .. MaxTwins, NEW t \in Timers PROVE Lost(n, t) \in 0 .. MaxTwins
  BY TwinTyped DEF Lost

(* stopPacman, pausePacman and resetPacman keep the types.                  *)
LEMMA PacmanStops ==
  ASSUME NEW s \in State
  PROVE  Follows(StopPacman(s), s) /\ Follows(PausePacman(s), s) /\ Follows(ResetPacman(s), s)
  BY DEF State, Follows, StopPacman, PausePacman, ResetPacman

(* stopGhosts, resetGhosts, pauseGhosts and moveGhosts keep the types.      *)
LEMMA GhostsStop ==
  ASSUME NEW s \in State
  PROVE  /\ Follows(StopGhosts(s), s) /\ Follows(ResetGhosts(s), s)
         /\ Follows(PauseGhosts(s), s) /\ Follows(MoveGhosts(s), s)
<1> USE DEF Timers, Normal, Afraid, Eaten, Resting, NoTimers
<1>1. Follows(StopGhosts(s), s)
  BY DEF State, Follows, StopGhosts
<1>2. Follows(ResetGhosts(s), s)
  BY <1>1 DEF State, Follows, ResetGhosts
<1>3. Follows(PauseGhosts(s), s)
  BY DEF State, Follows, PauseGhosts, Paused
<1>4. Follows(MoveGhosts(s), s)
  BY DEF State, Follows, MoveGhosts
<1> QED
  BY <1>1, <1>2, <1>3, <1>4

(* resumeGhosts keeps the types.                                            *)
LEMMA GhostsGoOn == ASSUME NEW s \in State PROVE Follows(ResumeGhosts(s), s)
<1> DEFINE al == [g \in Ghosts |-> IF s.state[g] = Afraid
                                   THEN Lost(s.affraidLost[g], s.affraid[g])
                                   ELSE s.affraidLost[g]]
           el == [g \in Ghosts |-> IF s.state[g] = Eaten
                                   THEN Lost(s.eatLost[g], s.eat[g])
                                   ELSE s.eatLost[g]]
           a == [g \in Ghosts |-> IF s.state[g] = Afraid THEN Resumed(s.affraid[g]) ELSE s.affraid[g]]
           e == [g \in Ghosts |-> IF s.state[g] = Eaten THEN Resumed(s.eat[g]) ELSE s.eat[g]]
           t == [s EXCEPT !.affraidLost = al, !.eatLost = el, !.affraid = a, !.eat = e]
<1>1. /\ s.affraid \in [Ghosts -> Timers] /\ s.eat \in [Ghosts -> Timers]
      /\ s.affraidLost \in [Ghosts -> 0 .. MaxTwins] /\ s.eatLost \in [Ghosts -> 0 .. MaxTwins]
  BY DEF State
<1>2. al \in [Ghosts -> 0 .. MaxTwins] /\ el \in [Ghosts -> 0 .. MaxTwins]
  BY <1>1, LostTyped
<1>3. a \in [Ghosts -> Timers] /\ e \in [Ghosts -> Timers]
  BY <1>1 DEF Timers, Resumed
<1>4. ResumeGhosts(s) = MoveGhosts(t)
  BY DEF ResumeGhosts
<1> HIDE DEF al, el, a, e
<1>5. Follows(t, s)
  BY <1>2, <1>3 DEF State, Follows
<1> HIDE DEF t
<1> QED
  BY <1>4, <1>5, GhostsStop DEF Follows

(* pauseTimes, resumeTimes and stopTimes keep the types.                    *)
LEMMA TimesTyped ==
  ASSUME NEW s \in State
  PROVE  Follows(PauseTimes(s), s) /\ Follows(ResumeTimes(s), s) /\ Follows(StopTimes(s), s)
<1>1. s.fruit \in Timers /\ s.fruitLost \in 0 .. MaxTwins
  BY DEF State
<1>2. Paused(s.fruit) \in Timers /\ "null" \in Timers
  BY <1>1 DEF Timers, Paused
<1>2a. Follows(PauseTimes(s), s) /\ Follows(StopTimes(s), s)
  BY <1>2 DEF State, Follows, PauseTimes, StopTimes
<1>3. Lost(s.fruitLost, s.fruit) \in 0 .. MaxTwins /\ Resumed(s.fruit) \in Timers
  BY <1>1, LostTyped DEF Resumed, Timers
<1>4. Follows(ResumeTimes(s), s)
  BY <1>3 DEF State, Follows, ResumeTimes
<1> QED
  BY <1>2a, <1>4

(* A score keeps the types, and all but the lifes.                          *)
LEMMA ScoreTyped ==
  ASSUME NEW s \in State, NEW e, NEW kind
  PROVE  Follows(Score(s, e, kind), s)
<1>1. Least(s.lifes + 1, MaxLifes) \in 0 .. MaxLifes
  BY PacmanAssumption DEF PacmanAssumption, State, Least
<1> QED
  BY <1>1 DEF State, Follows, Score

-----------------------------------------------------------------------------
(* What a step meets *)

Meeting(e) ==
  /\ e.idle \in BOOLEAN /\ e.blocked \in BOOLEAN
  /\ e.bite \in Bites /\ e.near \in SUBSET Ghosts /\ e.fruit \in BOOLEAN

(* A step bites where there is a bubble, and meets nothing when it is the   *)
(* first one.                                                               *)
LEMMA StepMeets ==
  ASSUME NEW s, NEW e \in Steps(s) \union {SameWay}
  PROVE  /\ Meeting(e) /\ ~ (e.idle /\ e.blocked)
         /\ e.bite # "none" => s.bubbles > 0
         /\ s.fresh => e.near = {} /\ e.bite = "none" /\ e.bonus = "none" /\ ~ e.fruit
<1>1. CASE e = Wall \/ e = Nothing \/ e = SameWay
  <2>1. /\ Nothing.idle = FALSE /\ Nothing.blocked = FALSE /\ Nothing.bite = "none"
        /\ Nothing.near = {} /\ Nothing.fruit = FALSE /\ Nothing.bonus = "none"
    BY DEF Nothing, Meets
  <2>2. /\ Wall.idle = FALSE /\ Wall.blocked = TRUE /\ Wall.bite = "none"
        /\ Wall.near = {} /\ Wall.fruit = FALSE /\ Wall.bonus = "none"
    BY DEF Wall, Nothing, Meets
  <2>3. /\ SameWay.idle = TRUE /\ SameWay.blocked = FALSE /\ SameWay.bite = "none"
        /\ SameWay.near = {} /\ SameWay.fruit = FALSE /\ SameWay.bonus = "none"
    BY DEF SameWay, Nothing, Meets
  <2> QED
    BY <1>1, <2>1, <2>2, <2>3 DEF Meeting, Bites
<1>2. CASE e \in Encounters(s) /\ ~ s.fresh
  <2> DEFINE B == IF s.bubbles > 0 THEN Bites ELSE {"none"}
             F == IF s.fruit = "null" THEN {FALSE} ELSE BOOLEAN
  <2>0. Encounters(s) = { Meets(b, n, f, x) : b \in B, n \in SUBSET Ghosts, f \in F,
                                              x \in {"none", "bubble", "ghost", "fruit"} }
    BY DEF Encounters
  <2>0a. B \subseteq Bites /\ F \subseteq BOOLEAN /\ (s.bubbles > 0 \/ B = {"none"})
    BY DEF Bites
  <2> HIDE DEF B, F
  <2>1. PICK b \in B, n \in SUBSET Ghosts, f \in F,
             x \in {"none", "bubble", "ghost", "fruit"} : e = Meets(b, n, f, x)
    BY <1>2, <2>0
  <2>2. /\ e.idle = FALSE /\ e.blocked = FALSE /\ e.bite = b /\ e.near = n
        /\ e.fruit = f
    BY <2>1 DEF Meets
  <2> QED
    BY <1>2, <2>0a, <2>1, <2>2 DEF Meeting
<1> QED
  BY <1>1, <1>2 DEF Steps

(* What he can meet depends on the bubbles, the fruit and the first step.   *)
LEMMA SameSteps ==
  ASSUME NEW s, NEW t, t.fresh = s.fresh, t.bubbles = s.bubbles,
         t.fruit = "null" <=> s.fruit = "null"
  PROVE  Steps(t) = Steps(s)
<1> DEFINE B(r) == IF r.bubbles > 0 THEN Bites ELSE {"none"}
           F(r) == IF r.fruit = "null" THEN {FALSE} ELSE BOOLEAN
           All(X, Y) == { Meets(b, n, f, x) : b \in X, n \in SUBSET Ghosts, f \in Y,
                                              x \in {"none", "bubble", "ghost", "fruit"} }
<1>1. B(t) = B(s) /\ F(t) = F(s)
  OBVIOUS
<1>2. \A r : Encounters(r) = All(B(r), F(r))
  BY DEF Encounters
<1> HIDE DEF B, F, All
<1>3. Encounters(t) = Encounters(s)
  BY <1>1, <1>2
<1> QED
  BY <1>3 DEF Steps

(* affraidGhosts keeps the types.                                           *)
LEMMA AffraidTyped == ASSUME NEW s \in State PROVE Follows(AffraidGhosts(s), s)
<1> DEFINE again == { g \in Ghosts : s.state[g] # Eaten }
           st == [g \in Ghosts |-> IF g \in again THEN Afraid ELSE Eaten]
           a == [g \in Ghosts |-> IF g \in again THEN "live" ELSE "null"]
           gh == [g \in Ghosts |-> g \in again \/ s.ghosting[g]]
<1>1. /\ st \in [Ghosts -> {Normal, Afraid, Eaten}] /\ a \in [Ghosts -> Timers]
      /\ gh \in [Ghosts -> BOOLEAN] /\ 0 \in 0 .. NumGhosts + 1
  BY PacmanAssumption DEF PacmanAssumption, State, Timers
<1>2. PICK x \in [Ghosts -> {Normal, Afraid, Eaten}], y \in [Ghosts -> Timers],
           z \in [Ghosts -> BOOLEAN] :
        AffraidGhosts(s) = [s EXCEPT !.combo = 0, !.state = x, !.affraid = y, !.ghosting = z]
  <2>1. AffraidGhosts(s) = [s EXCEPT !.combo = 0, !.state = st, !.affraid = a, !.ghosting = gh]
    BY DEF AffraidGhosts
  <2> HIDE DEF st, a, gh
  <2> QED
    BY <1>1, <2>1
<1>3. 0 \in 0 .. NumGhosts + 1
  BY <1>1
<1> HIDE DEF again, st, a, gh
<1>4. AffraidGhosts(s) \in State
  <2>1. [s EXCEPT !.combo = 0, !.state = x, !.affraid = y, !.ghosting = z] \in State
    BY <1>3 DEF State
  <2> QED
    BY <1>2, <2>1
<1>5. AffraidGhosts(s).clash = s.clash
  BY <1>2 DEF State
<1> QED
  BY <1>4, <1>5 DEF Follows

(* What sets the lock and may have met it set                               *)
LEMMA LockTyped ==
  ASSUME NEW s \in State, NEW t \in State, NEW n \in 0 .. MaxTwins, s.clash => t.clash
  PROVE  /\ Follows([t EXCEPT !.lock = TRUE, !.prepare = n, !.clash = @ \/ s.lock], s)
         /\ Follows([t EXCEPT !.lock = TRUE, !.dead = TRUE, !.killing = TRUE,
                              !.clash = @ \/ s.lock], s)
<1>0. PICK c \in BOOLEAN : c = (t.clash \/ s.lock)
  OBVIOUS
<1>1. s.clash => c
  BY <1>0
<1>2. /\ [t EXCEPT !.lock = TRUE, !.prepare = n, !.clash = c] \in State
      /\ [t EXCEPT !.lock = TRUE, !.dead = TRUE, !.killing = TRUE, !.clash = c] \in State
  BY DEF State
<1>3. /\ [t EXCEPT !.lock = TRUE, !.prepare = n, !.clash = c].clash = c
      /\ [t EXCEPT !.lock = TRUE, !.dead = TRUE, !.killing = TRUE, !.clash = c].clash = c
  BY DEF State
<1> QED
  BY <1>0, <1>1, <1>2, <1>3 DEF Follows

(* win keeps the types and takes no clash back.                             *)
LEMMA WinTyped == ASSUME NEW s \in State PROVE Follows(Win(s), s)
<1> DEFINE t == StopTimes(StopGhosts(StopPacman(s)))
<1>1. t \in State /\ (s.clash => t.clash)
  BY PacmanStops, GhostsStop, TimesTyped DEF Follows
<1>2. Win(s) = [t EXCEPT !.lock = TRUE, !.prepare = Twin(@), !.clash = @ \/ s.lock]
  BY DEF Win
<1> HIDE DEF t
<1>3. Twin(t.prepare) \in 0 .. MaxTwins
  BY <1>1, TwinTyped DEF State
<1>4. Follows([t EXCEPT !.lock = TRUE, !.prepare = Twin(@), !.clash = @ \/ s.lock], s)
  BY <1>1, <1>3, LockTyped, Zenon
<1> QED
  BY <1>2, <1>4, Zenon

(* testBubblesPacman keeps the types: a bubble that is eaten was on the     *)
(* board.                                                                   *)
LEMMA BubblesTyped ==
  ASSUME NEW s \in State, NEW e, Meeting(e), e.bite # "none" => s.bubbles > 0
  PROVE  Follows(TestBubblesPacman(s, e), s)
<1>1. CASE e.bite = "none"
  BY <1>1 DEF TestBubblesPacman, Follows
<1>2. CASE e.bite # "none"
  <2> DEFINE scored == Score(s, e, "bubble")
             u == IF e.bite = "super" THEN AffraidGhosts(scored) ELSE scored
             t == [u EXCEPT !.bubbles = @ - 1]
  <2>1. Follows(scored, s) /\ scored.bubbles = s.bubbles
    BY ScoreTyped DEF Score, State
  <2>a. scored \in State => AffraidGhosts(scored).bubbles = scored.bubbles
    <3> HIDE DEF scored
    <3> QED
      BY DEF AffraidGhosts, State
  <2> HIDE DEF scored
  <2>2. Follows(u, s) /\ u.bubbles = s.bubbles
    BY <2>1, <2>a, AffraidTyped DEF Follows
  <2>3. TestBubblesPacman(s, e) = IF t.bubbles = 0 THEN Win(t) ELSE t
    BY <1>2 DEF TestBubblesPacman, scored
  <2> HIDE DEF u
  <2>4. u.bubbles - 1 \in 0 .. NumBubbles
    <3>1. s.bubbles \in 0 .. NumBubbles /\ NumBubbles \in Nat
      BY PacmanAssumption DEF PacmanAssumption, State
    <3> QED
      BY <1>2, <2>2, <3>1
  <2>5. Follows(t, s)
    BY <2>2, <2>4 DEF Follows, State
  <2> HIDE DEF t
  <2> QED
    BY <2>3, <2>5, WinTyped DEF Follows
<1> QED
  BY <1>1, <1>2

(* killPacman keeps the types and takes no clash back.                      *)
LEMMA KillTyped == ASSUME NEW s \in State PROVE Follows(KillPacman(s), s)
<1> DEFINE t == PauseTimes(StopGhosts(StopPacman(s)))
<1>1. t \in State /\ (s.clash => t.clash)
  BY PacmanStops, GhostsStop, TimesTyped DEF Follows
<1>2. KillPacman(s) = [t EXCEPT !.lock = TRUE, !.dead = TRUE, !.killing = TRUE,
                                !.clash = @ \/ s.lock]
  BY DEF KillPacman
<1> HIDE DEF t
<1>3. 0 \in 0 .. MaxTwins
  BY PacmanAssumption DEF PacmanAssumption
<1>4. Follows([t EXCEPT !.lock = TRUE, !.dead = TRUE, !.killing = TRUE, !.clash = @ \/ s.lock], s)
  BY <1>1, <1>3, LockTyped, Zenon
<1> QED
  BY <1>2, <1>4, Zenon

(* startEatGhost keeps the types.                                           *)
LEMMA StartEatTyped ==
  ASSUME NEW s \in State, NEW g, NEW e
  PROVE  Follows(StartEatGhost(s, g, e), s)
<1>1. CASE s.lock
  BY <1>1 DEF StartEatGhost, Follows
<1>2. CASE ~ s.lock
  <2> DEFINE u == [s EXCEPT !.lock = TRUE, !.affraid[g] = "null"]
             t == Score(u, e, "ghost")
             v == PausePacman(PauseGhosts(t))
  <2>1. "null" \in Timers /\ [s.affraid EXCEPT ![g] = "null"] \in [Ghosts -> Timers]
    BY DEF State, Timers
  <2>2. Follows(u, s)
    BY <2>1 DEF State, Follows
  <2> HIDE DEF u
  <2>3. Follows(v, s)
    BY <2>2, ScoreTyped, GhostsStop, PacmanStops DEF Follows
  <2>4. StartEatGhost(s, g, e)
          = [v EXCEPT !.combo = Least(@ + 1, NumGhosts + 1), !.eatGhost[g] = Twin(@)]
    BY <1>2 DEF StartEatGhost, u
  <2> HIDE DEF v
  <2>5. Least(v.combo + 1, NumGhosts + 1) \in 0 .. NumGhosts + 1
    BY <2>3, PacmanAssumption DEF PacmanAssumption, Least, Follows, State
  <2>6. [v.eatGhost EXCEPT ![g] = Twin(@)] \in [Ghosts -> 0 .. MaxTwins]
    <3>1. v.eatGhost \in [Ghosts -> 0 .. MaxTwins]
      BY <2>3 DEF Follows, State
    <3>2. \A h \in Ghosts : Twin(v.eatGhost[h]) \in 0 .. MaxTwins
      BY <3>1, TwinTyped
    <3> QED
      BY <3>1, <3>2
  <2> QED
    BY <2>3, <2>4, <2>5, <2>6 DEF State, Follows
<1> QED
  BY <1>1, <1>2

(* testGhostsPacman keeps the types.                                        *)
LEMMA GhostsTyped ==
  ASSUME NEW s \in State, NEW e
  PROVE  Follows(TestGhostsPacman(s, e), s)
<1> DEFINE kills == { g \in e.near : s.state[g] = Normal }
           eaten == { g \in e.near : s.state[g] = Afraid /\ \A k \in kills : g < k }
           t == IF eaten = {} THEN s
                ELSE StartEatGhost(s, CHOOSE g \in eaten : \A h \in eaten : g <= h, e)
<1>1. Follows(t, s)
  BY StartEatTyped DEF Follows
<1>2. TestGhostsPacman(s, e) = IF kills = {} THEN t ELSE KillPacman(t)
  BY DEF TestGhostsPacman
<1> HIDE DEF t
<1> QED
  BY <1>1, <1>2, KillTyped DEF Follows

(* testFruitsPacman keeps the types.                                        *)
LEMMA FruitsTyped ==
  ASSUME NEW s \in State, NEW e
  PROVE  Follows(TestFruitsPacman(s, e), s)
<1>1. Follows([Score(s, e, "fruit") EXCEPT !.fruit = "null"], s)
  BY ScoreTyped DEF Follows, State, Timers
<1> QED
  BY <1>1 DEF TestFruitsPacman, Follows

(* A step of Pacman keeps the types, whatever it meets.                     *)
LEMMA MoveTyped ==
  ASSUME NEW s \in State, NEW e \in Steps(s) \union {SameWay}
  PROVE  Follows(MovePacman(s, e), s)
<1> DEFINE t == [s EXCEPT !.moving = TRUE]
           u == [t EXCEPT !.fresh = FALSE]
           b == TestBubblesPacman(u, e)
           m == TestFruitsPacman(TestGhostsPacman(b, e), e)
<1>1. Follows(t, s) /\ Follows(u, s) /\ u.bubbles = s.bubbles
  BY DEF State, Follows
<1>2. Meeting(e) /\ (e.bite # "none" => s.bubbles > 0)
  BY StepMeets
<1>3. MovePacman(s, e) = IF e.idle THEN t ELSE IF e.blocked THEN StopPacman(t) ELSE m
  <2> HIDE DEF t
  <2>1. MovePacman(s, e) = CASE e.idle -> t [] e.blocked -> StopPacman(t) [] OTHER -> m
    BY DEF MovePacman, t
  <2>2. e.idle \in BOOLEAN /\ e.blocked \in BOOLEAN /\ ~ (e.idle /\ e.blocked)
    BY StepMeets DEF Meeting
  <2> HIDE DEF m
  <2> QED
    BY <2>1, <2>2
<1> HIDE DEF t, u
<1>4. Follows(b, s)
  BY <1>1, <1>2, BubblesTyped DEF Follows
<1> HIDE DEF b
<1>5. Follows(m, s)
  BY <1>4, GhostsTyped, FruitsTyped DEF Follows
<1> HIDE DEF m
<1> QED
  BY <1>1, <1>3, <1>5, PacmanStops DEF Follows

-----------------------------------------------------------------------------
(* ready keeps the types.                                                   *)
LEMMA ReadyTyped == ASSUME NEW s \in State PROVE Follows(Ready(s), s)
<1>1. Twin(s.go) \in 0 .. MaxTwins
  BY TwinTyped DEF State
<1> QED
  BY <1>1 DEF Ready, State, Follows

(* gameover keeps the types.                                                *)
LEMMA GameoverTyped == ASSUME NEW s \in State PROVE Follows(Gameover(s), s)
<1> DEFINE t == ResetGhosts(ResetPacman(StopTimes(s)))
<1>1. Follows(t, s)
  BY PacmanStops, GhostsStop, TimesTyped DEF Follows
<1>2. Gameover(s) = [t EXCEPT !.gameover = TRUE, !.lifes = 2, !.level = 1]
  BY DEF Gameover
<1> HIDE DEF t
<1>3. 2 \in 0 .. MaxLifes /\ 1 \in 1 .. MaxLevel
  BY PacmanAssumption DEF PacmanAssumption
<1> QED
  BY <1>1, <1>2, <1>3 DEF State, Follows

(* retry keeps the types.                                                   *)
LEMMA RetryTyped == ASSUME NEW s \in State PROVE Follows(RetryGame(s), s)
<1> DEFINE t == ResetGhosts(ResetPacman(StopTimes(s)))
<1>1. Follows(t, s)
  BY PacmanStops, GhostsStop, TimesTyped DEF Follows
<1>2. RetryGame(s) = Ready(t)
  BY DEF RetryGame
<1> HIDE DEF t
<1> QED
  BY <1>1, <1>2, ReadyTyped DEF Follows

(* nextLevel keeps the types.                                               *)
LEMMA NextLevelTyped == ASSUME NEW s \in State PROVE Follows(NextLevel(s), s)
<1> DEFINE t == ResetGhosts(ResetPacman(s))
           u == [t EXCEPT !.level = Least(@ + 1, MaxLevel), !.bubbles = NumBubbles]
<1>1. Follows(t, s)
  BY PacmanStops, GhostsStop DEF Follows
<1>2. NextLevel(s) = Ready(u)
  BY DEF NextLevel
<1> HIDE DEF t
<1>3. NumBubbles \in 0 .. NumBubbles /\ Least(t.level + 1, MaxLevel) \in 1 .. MaxLevel
  BY <1>1, PacmanAssumption DEF PacmanAssumption, Least, Follows, State
<1>4. Follows(u, s)
  BY <1>1, <1>3 DEF State, Follows
<1> HIDE DEF u
<1> QED
  BY <1>2, <1>4, ReadyTyped DEF Follows

(* cancelAffraidGhost keeps the types.                                      *)
LEMMA CalmedTyped ==
  ASSUME NEW s \in State, NEW g \in Ghosts
  PROVE  Follows(Calmed(s, g), s)
<1> DEFINE a == [s.affraid EXCEPT ![g] = "null"]
           st == [s.state EXCEPT ![g] = Normal]
           gh == [s.ghosting EXCEPT ![g] = TRUE]
           t == [s EXCEPT !.affraid = a, !.state = st, !.ghosting = gh]
<1>1. /\ a \in [Ghosts -> Timers] /\ st \in [Ghosts -> {Normal, Afraid, Eaten}]
      /\ gh \in [Ghosts -> BOOLEAN]
  BY DEF State, Timers
<1>2. Calmed(s, g) = t \/ Calmed(s, g) = s
  BY DEF Calmed
<1> HIDE DEF a, st, gh
<1>3. Follows(t, s)
  BY <1>1 DEF State, Follows
<1> HIDE DEF t
<1> QED
  BY <1>2, <1>3 DEF Follows

(* cancelEatGhost keeps the types.                                          *)
LEMMA RevivedTyped ==
  ASSUME NEW s \in State, NEW g \in Ghosts
  PROVE  Follows(Revived(s, g), s)
<1> DEFINE el == [s.eatLost EXCEPT ![g] = Lost(@, s.eat[g])]
           e == [s.eat EXCEPT ![g] = "null"]
           st == [s.state EXCEPT ![g] = Normal]
           gh == [s.ghosting EXCEPT ![g] = TRUE]
           t == [s EXCEPT !.eatLost = el, !.eat = e, !.state = st, !.ghosting = gh]
<1>1. /\ e \in [Ghosts -> Timers] /\ st \in [Ghosts -> {Normal, Afraid, Eaten}]
      /\ gh \in [Ghosts -> BOOLEAN]
  BY DEF State, Timers
<1>2. s.eatLost \in [Ghosts -> 0 .. MaxTwins] /\ s.eat[g] \in Timers
  BY DEF State
<1>3. el \in [Ghosts -> 0 .. MaxTwins]
  BY <1>2, LostTyped
<1>4. Revived(s, g) = t \/ Revived(s, g) = s
  BY DEF Revived
<1> HIDE DEF el, e, st, gh
<1>5. Follows(t, s)
  BY <1>1, <1>3 DEF State, Follows
<1> HIDE DEF t
<1> QED
  BY <1>4, <1>5 DEF Follows

-----------------------------------------------------------------------------
(* Each key keeps the types and takes no clash back.                        *)
LEMMA KeysTyped ==
  ASSUME game \in State, Key
  PROVE  Follows(game', game)
<1>1. CASE KeyStart
  <2> DEFINE t == [game EXCEPT !.home = FALSE, !.gameover = FALSE, !.level = 1,
                               !.bubbles = NumBubbles]
  <2>0. NumBubbles \in 0 .. NumBubbles /\ 1 \in 1 .. MaxLevel
    BY PacmanAssumption DEF PacmanAssumption
  <2>1. Follows(t, game)
    BY <2>0 DEF State, Follows
  <2>2. game' = Ready(t)
    BY <1>1 DEF KeyStart
  <2> HIDE DEF t
  <2> QED
    BY <2>1, <2>2, ReadyTyped DEF Follows
<1>2. CASE KeyRestart
  BY <1>2, PacmanStops, GhostsStop DEF KeyRestart, Follows
<1>3. CASE KeyArrow
  BY <1>3, MoveTyped DEF KeyArrow
<1>4. CASE KeyPause
  <2> DEFINE t == [game EXCEPT !.pause = TRUE]
  <2>1. Follows(t, game)
    BY DEF State, Follows
  <2>2. game' = PauseGhosts(PausePacman(PauseTimes(t)))
    BY <1>4 DEF KeyPause
  <2> HIDE DEF t
  <2> QED
    BY <2>1, <2>2, PacmanStops, GhostsStop, TimesTyped DEF Follows
<1>5. CASE KeyResume
  <2> DEFINE r == ResumeTimes([game EXCEPT !.pause = FALSE])
  <2>0. [game EXCEPT !.pause = FALSE] \in State
        /\ [game EXCEPT !.pause = FALSE].clash = game.clash
        /\ [game EXCEPT !.pause = FALSE].fresh = game.fresh
        /\ [game EXCEPT !.pause = FALSE].bubbles = game.bubbles
        /\ [game EXCEPT !.pause = FALSE].fruit = game.fruit
    BY DEF State
  <2>1. Follows(r, game)
    BY <2>0, TimesTyped DEF Follows
  <2>2. \A e : e \in Steps(game) => e \in Steps(r)
    <3>1. r.fresh = game.fresh /\ r.bubbles = game.bubbles
          /\ (r.fruit = "null" <=> game.fruit = "null")
      <4> DEFINE q == [game EXCEPT !.pause = FALSE]
      <4> HIDE DEF q
      <4> QED
        BY <2>0 DEF ResumeTimes, Resumed, State, q
    <3> HIDE DEF r
    <3> QED
      BY <3>1, SameSteps
  <2>3. PICK e \in Steps(game) :
          game' = ResumeGhosts([MovePacman(r, e) EXCEPT
                                  !.clash = @ \/ MovePacman(r, e).lock \/ e.bite = "super"])
    BY <1>5 DEF KeyResume
  <2> HIDE DEF r
  <2> DEFINE s == MovePacman(r, e)
  <2>4. Follows(s, game)
    BY <2>1, <2>2, MoveTyped DEF Follows
  <2> HIDE DEF s
  <2>5. PICK c \in BOOLEAN : c = (s.clash \/ s.lock \/ e.bite = "super")
    OBVIOUS
  <2>6. game' = ResumeGhosts([s EXCEPT !.clash = c])
    BY <2>3, <2>5, Zenon DEF s
  <2>7. game.clash => c
    BY <2>4, <2>5 DEF Follows
  <2>8. [s EXCEPT !.clash = c] \in State /\ [s EXCEPT !.clash = c].clash = c
    BY <2>4 DEF Follows, State
  <2> QED
    BY <2>6, <2>7, <2>8, GhostsGoOn DEF Follows
<1>6. CASE KeyHome
  BY <1>6 DEF KeyHome, State, Follows
<1> QED
  BY <1>1, <1>2, <1>3, <1>4, <1>5, <1>6 DEF Key

(* A tick of a ghost keeps the types.                                       *)
LEMMA GhostTickTyped ==
  ASSUME game \in State, NEW g \in Ghosts, GhostTick(g)
  PROVE  Follows(game', game)
<1>1. PICK s \in State : /\ Follows(s, game)
                         /\ game' = s \/ game' = [s EXCEPT !.ghosting[g] = TRUE]
  <2>1. Follows(game, game)
    BY DEF Follows
  <2> QED
    BY <2>1, GhostsTyped DEF GhostTick, Follows
<1> DEFINE gh == [s.ghosting EXCEPT ![g] = TRUE]
<1>2. gh \in [Ghosts -> BOOLEAN]
  BY DEF State
<1>3. game' = s \/ game' = [s EXCEPT !.ghosting = gh]
  BY <1>1
<1> HIDE DEF gh
<1> QED
  BY <1>1, <1>2, <1>3 DEF State, Follows

(* The timeout of a ghost that is eaten keeps the types.                    *)
LEMMA EatGhostTyped ==
  ASSUME game \in State, NEW g \in Ghosts, EatGhost(g)
  PROVE  Follows(game', game)
<1> DEFINE n == [game.eatGhost EXCEPT ![g] = @ - 1]
           s == [game EXCEPT !.eatGhost = n]
           st == [s.state EXCEPT ![g] = Eaten]
           et == [s.eat EXCEPT ![g] = "idle"]
           t == IF s.state[g] = Afraid THEN [s EXCEPT !.state = st, !.eat = et] ELSE s
           r == ResumeGhosts(t)
<1>1. n \in [Ghosts -> 0 .. MaxTwins]
  <2>1. game.eatGhost \in [Ghosts -> 0 .. MaxTwins] /\ game.eatGhost[g] > 0
    BY DEF State, EatGhost
  <2>2. game.eatGhost[g] - 1 \in 0 .. MaxTwins
    BY <2>1, PacmanAssumption DEF PacmanAssumption
  <2> QED
    BY <2>1, <2>2
<1>2. PICK e \in Steps(game) : game' = [MovePacman(r, e) EXCEPT !.lock = FALSE]
  BY DEF EatGhost
<1> HIDE DEF n
<1>3. Follows(s, game) /\ s.fresh = game.fresh /\ s.bubbles = game.bubbles /\ s.fruit = game.fruit
  BY <1>1 DEF State, Follows
<1> HIDE DEF s
<1>4. st \in [Ghosts -> {Normal, Afraid, Eaten}] /\ et \in [Ghosts -> Timers]
  BY <1>3 DEF Follows, State, Timers
<1> HIDE DEF st, et
<1>5. Follows(t, game) /\ t.fresh = game.fresh /\ t.bubbles = game.bubbles /\ t.fruit = game.fruit
  <2> DEFINE u == [s EXCEPT !.state = st, !.eat = et]
  <2>1. Follows(u, s) /\ u.fresh = s.fresh /\ u.bubbles = s.bubbles /\ u.fruit = s.fruit
    BY <1>3, <1>4 DEF Follows, State
  <2>2. t = u \/ t = s
    OBVIOUS
  <2> HIDE DEF u, t
  <2> QED
    BY <1>3, <2>1, <2>2 DEF Follows
<1> HIDE DEF t
<1>6. Follows(r, game)
  BY <1>5, GhostsGoOn DEF Follows
<1>7. r.fresh = game.fresh /\ r.bubbles = game.bubbles /\ r.fruit = game.fruit
  BY <1>5 DEF Follows, State, ResumeGhosts, MoveGhosts
<1> HIDE DEF r
<1>8. e \in Steps(r)
  BY <1>7, SameSteps
<1>9. Follows(MovePacman(r, e), game)
  BY <1>6, <1>8, MoveTyped DEF Follows
<1> DEFINE m == MovePacman(r, e)
<1> HIDE DEF m
<1> QED
  BY <1>2, <1>9 DEF Follows, State, m

(* Each interval and timeout keeps the types and takes no clash back.       *)
LEMMA CallbacksTyped ==
  ASSUME game \in State, Callback
  PROVE  Follows(game', game)
<1>1. CASE PacmanTick
  BY <1>1, MoveTyped DEF PacmanTick
<1>2. CASE KillingPacman
  <2> DEFINE s == [game EXCEPT !.killing = FALSE]
  <2>1. Follows(s, game)
    BY DEF State, Follows
  <2>2. game' = IF s.lifes > 0 THEN [s EXCEPT !.lifes = @ - 1, !.retry = Twin(@)]
                ELSE Gameover(s)
    BY <1>2 DEF KillingPacman
  <2> HIDE DEF s
  <2>3. s.lifes > 0 => s.lifes - 1 \in 0 .. MaxLifes
    BY <2>1, PacmanAssumption DEF PacmanAssumption, Follows, State
  <2>4. Twin(s.retry) \in 0 .. MaxTwins
    BY <2>1, TwinTyped DEF Follows, State
  <2>5. s.lifes > 0 => Follows([s EXCEPT !.lifes = @ - 1, !.retry = Twin(@)], s)
    BY <2>1, <2>3, <2>4 DEF Follows, State
  <2> QED
    BY <2>1, <2>2, <2>5, GameoverTyped DEF Follows
<1>3. CASE Flash
  <2> DEFINE t == [game EXCEPT !.flash = -1, !.lock = FALSE]
  <2>0. -1 \in -1 .. Flashes
    BY PacmanAssumption DEF PacmanAssumption
  <2>1. Follows(t, game)
    BY <2>0 DEF State, Follows
  <2>2. game' = IF game.flash + 1 > Flashes THEN NextLevel(t) ELSE [game EXCEPT !.flash = @ + 1]
    BY <1>3 DEF Flash
  <2> HIDE DEF t
  <2>3. ~ (game.flash + 1 > Flashes) => game.flash + 1 \in -1 .. Flashes
    BY PacmanAssumption DEF PacmanAssumption, State
  <2>4. ~ (game.flash + 1 > Flashes) => Follows([game EXCEPT !.flash = @ + 1], game)
    BY <2>3 DEF State, Follows
  <2> QED
    BY <2>1, <2>2, <2>4, NextLevelTyped DEF Follows
<1>4. CASE FruitAppears
  BY <1>4 DEF FruitAppears, State, Timers, Follows
<1>5. CASE Go
  <2> DEFINE t == [game EXCEPT !.go = @ - 1, !.lock = FALSE, !.times = TRUE]
  <2>1. game.go - 1 \in 0 .. MaxTwins
    BY <1>5, PacmanAssumption DEF Go, PacmanAssumption, State
  <2>2. Follows(t, game) /\ t.fresh = game.fresh /\ t.bubbles = game.bubbles /\ t.fruit = game.fruit
    BY <2>1 DEF State, Follows
  <2>3. PICK e \in Steps(game) : game' = MoveGhosts(MovePacman(t, e))
    BY <1>5 DEF Go
  <2> HIDE DEF t
  <2>4. e \in Steps(t)
    BY <2>2, SameSteps
  <2> QED
    BY <2>2, <2>3, <2>4, MoveTyped, GhostsStop DEF Follows
<1>6. CASE Retry
  <2> DEFINE t == [game EXCEPT !.retry = @ - 1]
  <2>1. game.retry - 1 \in 0 .. MaxTwins
    BY <1>6, PacmanAssumption DEF Retry, PacmanAssumption, State
  <2>2. Follows(t, game)
    BY <2>1 DEF State, Follows
  <2>3. game' = RetryGame(t)
    BY <1>6 DEF Retry
  <2> HIDE DEF t
  <2> QED
    BY <2>2, <2>3, RetryTyped DEF Follows
<1>7. CASE Prepare
  <2> DEFINE s == [game EXCEPT !.prepare = @ - 1]
             t == [s EXCEPT !.flash = -1, !.lock = FALSE]
  <2>1. game.prepare - 1 \in 0 .. MaxTwins
    BY <1>7, PacmanAssumption DEF Prepare, PacmanAssumption, State
  <2>2. Follows(s, game)
    BY <2>1 DEF State, Follows
  <2>3. game' = CASE s.flash = -1 -> [s EXCEPT !.flash = 0]
                  [] s.flash + 1 > Flashes -> NextLevel(t)
                  [] OTHER -> [s EXCEPT !.flash = @ + 1]
    BY <1>7 DEF Prepare
  <2> HIDE DEF s
  <2>4. -1 \in -1 .. Flashes /\ 0 \in -1 .. Flashes /\ s.flash \in -1 .. Flashes /\ Flashes \in Nat
    BY <2>2, PacmanAssumption DEF PacmanAssumption, State, Follows
  <2>5. Follows([s EXCEPT !.flash = 0], s) /\ Follows(t, s)
    BY <2>2, <2>4 DEF State, Follows
  <2> HIDE DEF t
  <2>6. ~ (s.flash + 1 > Flashes) => s.flash + 1 \in -1 .. Flashes
    BY <2>4
  <2>7. ~ (s.flash + 1 > Flashes) => Follows([s EXCEPT !.flash = @ + 1], s)
    BY <2>2, <2>6 DEF State, Follows
  <2>8. CASE s.flash = -1
    <3>1. ~ (s.flash + 1 > Flashes)
      BY <2>4, <2>8
    <3> QED
      BY <2>2, <2>3, <2>5, <2>7, <2>8, <3>1 DEF Follows
  <2>9. CASE s.flash # -1
    BY <2>2, <2>3, <2>5, <2>7, <2>9, NextLevelTyped DEF Follows
  <2> QED
    BY <2>8, <2>9
<1>8. CASE FruitOver
  <2>1. game.fruitLost > 0 => game.fruitLost - 1 \in 0 .. MaxTwins
    BY PacmanAssumption DEF PacmanAssumption, State
  <2>2. Follows([game EXCEPT !.fruit = "null"], game)
    BY DEF State, Timers, Follows
  <2>3. game.fruitLost > 0 => Follows([game EXCEPT !.fruitLost = @ - 1, !.fruit = "null"], game)
    BY <2>1 DEF State, Timers, Follows
  <2> QED
    BY <1>8, <2>2, <2>3 DEF FruitOver
<1>9. ASSUME NEW g \in Ghosts, AffraidOver(g)
      PROVE  Follows(game', game)
  <2> DEFINE a == [game.affraid EXCEPT ![g] = "idle"]
             n == [game.affraidLost EXCEPT ![g] = @ - 1]
  <2>1. a \in [Ghosts -> Timers]
    BY DEF State, Timers
  <2>2. game.affraidLost[g] > 0 => n \in [Ghosts -> 0 .. MaxTwins]
    <3>1. game.affraidLost \in [Ghosts -> 0 .. MaxTwins]
      BY DEF State
    <3>2. game.affraidLost[g] > 0 => game.affraidLost[g] - 1 \in 0 .. MaxTwins
      BY <3>1, PacmanAssumption DEF PacmanAssumption
    <3> QED
      BY <3>1, <3>2
  <2>3. \/ game' = Calmed([game EXCEPT !.affraid = a], g)
        \/ game.affraidLost[g] > 0 /\ game' = Calmed([game EXCEPT !.affraidLost = n], g)
    BY <1>9 DEF AffraidOver
  <2> HIDE DEF a, n
  <2>4. Follows([game EXCEPT !.affraid = a], game)
    BY <2>1 DEF State, Follows
  <2>5. game.affraidLost[g] > 0 => Follows([game EXCEPT !.affraidLost = n], game)
    BY <2>2 DEF State, Follows
  <2> QED
    BY <2>3, <2>4, <2>5, CalmedTyped DEF Follows
<1>10. ASSUME NEW g \in Ghosts, EatOver(g)
       PROVE  Follows(game', game)
  <2> DEFINE a == [game.eat EXCEPT ![g] = "idle"]
             n == [game.eatLost EXCEPT ![g] = @ - 1]
  <2>1. a \in [Ghosts -> Timers]
    BY DEF State, Timers
  <2>2. game.eatLost[g] > 0 => n \in [Ghosts -> 0 .. MaxTwins]
    <3>1. game.eatLost \in [Ghosts -> 0 .. MaxTwins]
      BY DEF State
    <3>2. game.eatLost[g] > 0 => game.eatLost[g] - 1 \in 0 .. MaxTwins
      BY <3>1, PacmanAssumption DEF PacmanAssumption
    <3> QED
      BY <3>1, <3>2
  <2>3. \/ game' = Revived([game EXCEPT !.eat = a], g)
        \/ game.eatLost[g] > 0 /\ game' = Revived([game EXCEPT !.eatLost = n], g)
    BY <1>10 DEF EatOver
  <2> HIDE DEF a, n
  <2>4. Follows([game EXCEPT !.eat = a], game)
    BY <2>1 DEF State, Follows
  <2>5. game.eatLost[g] > 0 => Follows([game EXCEPT !.eatLost = n], game)
    BY <2>2 DEF State, Follows
  <2> QED
    BY <2>3, <2>4, <2>5, RevivedTyped DEF Follows
<1> QED
  BY <1>1, <1>2, <1>3, <1>4, <1>5, <1>6, <1>7, <1>8, <1>9, <1>10, GhostTickTyped, EatGhostTyped
  DEF Callback

(* Every step keeps the types, and a game that has clashed stays so.        *)
LEMMA NextTyped ==
  ASSUME TypeOK, [Next]_game
  PROVE  TypeOK' /\ (game.clash => game'.clash)
<1>1. game \in State /\ (TypeOK' <=> game' \in State)
  BY DEF TypeOK, State
<1>2. CASE Next
  BY <1>1, <1>2, KeysTyped, CallbacksTyped DEF Next, Follows
<1>3. CASE UNCHANGED game
  BY <1>1, <1>3
<1> QED
  BY <1>2, <1>3

-----------------------------------------------------------------------------
(* From mode to mode *)

(* The initial segments of Nat, ordered by inclusion, are well founded. *)
LEMMA LeastNatural ==
  ASSUME NEW T \in SUBSET Nat, T # {}
  PROVE  \E n \in T : \A m \in T : n <= m
<1> DEFINE Segments == {0 .. n : n \in T}
<1>1. Segments \subseteq FiniteSubsetsOf(Nat)
  <2> SUFFICES ASSUME NEW n \in T PROVE 0 .. n \in FiniteSubsetsOf(Nat)
    OBVIOUS
  <2>1. 0 .. n \in SUBSET Nat
    OBVIOUS
  <2>2. IsFiniteSet(0 .. n)
    BY FS_Interval
  <2> QED
    BY <2>1, <2>2 DEF FiniteSubsetsOf
<1>2. Segments # {}
  OBVIOUS
<1>3. \E s \in Segments : \A t \in Segments :
        <<t, s>> \notin StrictSubsetOrdering(Nat)
  <2> HIDE DEF Segments
  <2> QED
    BY <1>1, <1>2, FS_StrictSubsetOrderingWellFounded, WFMin
<1>4. PICK n \in T : \A m \in T : <<0 .. m, 0 .. n>> \notin StrictSubsetOrdering(Nat)
  BY <1>3
<1>5. ASSUME NEW m \in T, m < n PROVE FALSE
  <2>1. 0 .. m \subseteq 0 .. n /\ 0 .. m # 0 .. n
    BY <1>5
  <2>2. 0 .. m \in SUBSET Nat /\ 0 .. n \in SUBSET Nat
    OBVIOUS
  <2> QED
    BY <1>4, <2>1, <2>2 DEF StrictSubsetOrdering
<1> QED
  BY <1>5

(* The first of the ghosts that are afraid is one of them.                  *)
LEMMA FirstGhost ==
  ASSUME NEW S \in SUBSET Ghosts, S # {}
  PROVE  (CHOOSE g \in S : \A h \in S : g <= h) \in S
<1>1. S \in SUBSET Nat
  BY PacmanAssumption DEF PacmanAssumption, Ghosts
<1>2. \E g \in S : \A h \in S : g <= h
  BY <1>1, LeastNatural
<1> QED
  BY <1>2

(* An extra life changes nothing else.                                      *)
LEMMA ScoreMode ==
  ASSUME NEW s \in State, NEW m, NEW e, NEW kind, Playing(s, m), NothingLost(s)
  PROVE  /\ Playing(Score(s, e, kind), m) /\ NothingLost(Score(s, e, kind))
         /\ Score(s, e, kind).lock = s.lock
  BY DEF Score, On, Due, NoEating, Playing, GhostsAre, NothingLost, State

(* While the ghosts move a fright leaves the game in play, with new         *)
(* timers.                                                                  *)
LEMMA FrightMode ==
  ASSUME NEW s \in State, Playing(s, TRUE), NothingLost(s)
  PROVE  /\ Playing(AffraidGhosts(s), TRUE) /\ NothingLost(AffraidGhosts(s))
         /\ AffraidGhosts(s).lock = s.lock
  BY DEF AffraidGhosts, On, Due, NoEating, Playing, GhostsAre, NothingLost, State,
         Normal, Afraid, Eaten, Timers

(* The last bubble of a game that is not locked wins it.                    *)
LEMMA WinMode ==
  ASSUME NEW s \in State, NEW m, Playing(s, m), NothingLost(s), ~ s.lock
  PROVE  Won(Win(s)) /\ NothingLost(Win(s))
  BY PacmanAssumption
  DEF Win, StopTimes, StopGhosts, StopPacman, Won, Still, Calm, On, Due, NoEating, Playing,
      GhostsAre, NothingLost, State, Normal, Afraid, Eaten, Timers, Resting, Twin, Least,
      PacmanAssumption

(* A ghost kills in a game that is not locked.                              *)
LEMMA KillMode ==
  ASSUME NEW s \in State, NEW m, Playing(s, m), NothingLost(s), ~ s.lock
  PROVE  Dying(KillPacman(s)) /\ NothingLost(KillPacman(s))
  BY DEF KillPacman, PauseTimes, StopGhosts, StopPacman, Dying, Dead, Calm, On, Due, NoEating,
         Playing, GhostsAre, NothingLost, State, Paused, Normal, Afraid, Eaten, Timers

(* A game that is locked already clashes when it is won or lost.            *)
LEMMA LockedClash ==
  ASSUME NEW s \in State, s.lock
  PROVE  KillPacman(s).clash /\ Win(s).clash
<1> DEFINE t == PauseTimes(StopGhosts(StopPacman(s)))
           u == StopTimes(StopGhosts(StopPacman(s)))
<1>1. t \in State /\ u \in State
  BY PacmanStops, GhostsStop, TimesTyped DEF Follows
<1>2. /\ KillPacman(s) = [t EXCEPT !.lock = TRUE, !.dead = TRUE, !.killing = TRUE,
                                   !.clash = @ \/ s.lock]
      /\ Win(s) = [u EXCEPT !.lock = TRUE, !.prepare = Twin(@), !.clash = @ \/ s.lock]
  BY DEF KillPacman, Win
<1> HIDE DEF t, u
<1> QED
  BY <1>1, <1>2 DEF State

(* An afraid ghost is eaten in a game that is not locked.                   *)
LEMMA EatMode ==
  ASSUME NEW s \in State, NEW m, NEW g \in Ghosts, NEW e,
         Playing(s, m), NothingLost(s), ~ s.lock, s.state[g] = Afraid
  PROVE  EatingOne(StartEatGhost(s, g, e), g) /\ NothingLost(StartEatGhost(s, g, e))
<1> DEFINE a == [s.affraid EXCEPT ![g] = "null"]
           u == [s EXCEPT !.lock = TRUE, !.affraid = a]
           t == Score(u, e, "ghost")
           v == PausePacman(PauseGhosts(t))
           n == [v.eatGhost EXCEPT ![g] = Twin(@)]
           c == Least(v.combo + 1, NumGhosts + 1)
           w == [v EXCEPT !.combo = c, !.eatGhost = n]
           Waits(x) == /\ On(x) /\ x.lock /\ ~ x.dead /\ ~ x.killing /\ Due(x, 0, 0, 0)
                       /\ x.flash = -1 /\ NothingLost(x) /\ x.state = s.state
<1>1. a \in [Ghosts -> Timers] /\ \A h \in Ghosts : a[h] = IF h = g THEN "null" ELSE s.affraid[h]
  BY DEF State, Timers
<1>2. StartEatGhost(s, g, e) = w
  BY DEF StartEatGhost
<1> HIDE DEF a
<1>3. u \in State /\ Waits(u) /\ NoEating(u) /\ u.affraid = a /\ u.eat = s.eat
  BY <1>1 DEF State, NothingLost, On, NoEating, Playing, Due
<1> HIDE DEF u
<1>4. t \in State /\ Waits(t) /\ NoEating(t) /\ t.affraid = a /\ t.eat = s.eat
  <2>1. t \in State
    BY <1>3, ScoreTyped DEF Follows
  <2> QED
    BY <1>3, <2>1 DEF State, NothingLost, On, NoEating, Due, Score
<1> HIDE DEF t
<1>5. v \in State /\ Waits(v) /\ NoEating(v) /\ ~ v.moving
  <2>1. v \in State
    BY <1>4, GhostsStop, PacmanStops DEF Follows
  <2> QED
    BY <1>4, <2>1 DEF State, NothingLost, On, NoEating, Due, PausePacman, PauseGhosts
<1>6. \A h \in Ghosts :
        /\ ~ v.ghosting[h]
        /\ v.affraid[h] = IF s.state[h] = Afraid /\ h # g THEN "idle" ELSE "null"
        /\ v.eat[h] = IF s.state[h] = Eaten THEN "idle" ELSE "null"
  BY <1>1, <1>4
  DEF State, PausePacman, PauseGhosts, Playing, GhostsAre, NoEating, Paused, Resting, Timers,
      Normal, Afraid, Eaten
<1> HIDE DEF v
<1>7. n \in [Ghosts -> 0 .. MaxTwins] /\ \A h \in Ghosts : n[h] = IF h = g THEN 1 ELSE 0
  BY <1>5, PacmanAssumption DEF PacmanAssumption, NoEating, State, Twin, Least
<1> HIDE DEF n, c
<1>8. \A h \in Ghosts : w.eatGhost[h] = IF h = g THEN 1 ELSE 0
  BY <1>5, <1>7 DEF State
<1>9. /\ Waits(w) /\ ~ w.moving
      /\ w.ghosting = v.ghosting /\ w.affraid = v.affraid /\ w.eat = v.eat
  BY <1>5 DEF State, On, Due, NothingLost
<1>10. GhostsAre(w, FALSE, "idle")
  <2>1. w.ghosting \in [Ghosts -> BOOLEAN]
    BY <1>5, <1>9 DEF State
  <2> HIDE DEF w
  <2> QED
    BY <1>6, <1>8, <1>9, <2>1 DEF GhostsAre
<1> QED
  BY <1>2, <1>8, <1>9, <1>10 DEF EatingOne

(* A fruit that is eaten changes no mode.                                   *)
LEMMA FruitMode ==
  ASSUME NEW s \in State, NEW e, NothingLost(s)
  PROVE  LET t == TestFruitsPacman(s, e)
         IN  /\ NothingLost(t) /\ t.lock = s.lock
             /\ \A m : Playing(s, m) => Playing(t, m)
             /\ (Won(s) => Won(t)) /\ (Dying(s) => Dying(t))
             /\ \A g : EatingOne(s, g) => EatingOne(t, g)
<1> DEFINE u == Score(s, e, "fruit")
           t == [u EXCEPT !.fruit = "null"]
<1>1. \/ TestFruitsPacman(s, e) = s
      \/ TestFruitsPacman(s, e) = t
  BY DEF TestFruitsPacman
<1>2. u \in State
  BY ScoreTyped DEF Follows
<1>3. \E n : u = [s EXCEPT !.lifes = n]
  <2>1. s = [s EXCEPT !.lifes = s.lifes]
    BY DEF State
  <2> QED
    BY <2>1 DEF Score
<1> HIDE DEF u
<1>4. NothingLost(t) /\ t.lock = s.lock
  BY <1>2, <1>3 DEF State, NothingLost
<1>5. ASSUME NEW m, Playing(s, m) PROVE Playing(t, m)
  BY <1>2, <1>3, <1>5 DEF State, Playing, On, Due, NoEating, GhostsAre
<1>6. ASSUME Won(s) PROVE Won(t)
  BY <1>2, <1>3, <1>6 DEF State, Won, On, Due, NoEating, Still, Calm
<1>7. ASSUME Dying(s) PROVE Dying(t)
  BY <1>2, <1>3, <1>7 DEF State, Dying, Dead, On, Due, NoEating, Calm
<1>8. ASSUME NEW g, EatingOne(s, g) PROVE EatingOne(t, g)
  BY <1>2, <1>3, <1>8 DEF State, EatingOne, On, Due, GhostsAre
<1> HIDE DEF t
<1> QED
  BY <1>1, <1>4, <1>5, <1>6, <1>7, <1>8

(* A bubble leaves the game in play or wins it, or clashes.                 *)
LEMMA BubblesMode ==
  ASSUME NEW s \in State, NEW e, Meeting(e), e.bite # "none" => s.bubbles > 0,
         NEW m, m = TRUE \/ e.bite # "super", Playing(s, m), NothingLost(s)
  PROVE  LET t == TestBubblesPacman(s, e)
         IN  t.clash \/ ( /\ NothingLost(t)
                          /\ \/ Playing(t, m) /\ t.lock = s.lock
                             \/ ~ s.lock /\ Won(t) )
<1>1. CASE e.bite = "none"
  BY <1>1 DEF TestBubblesPacman
<1>2. CASE e.bite # "none"
  <2> DEFINE scored == Score(s, e, "bubble")
             u == IF e.bite = "super" THEN AffraidGhosts(scored) ELSE scored
             t == [u EXCEPT !.bubbles = @ - 1]
  <2>0. scored.bubbles = s.bubbles
    BY DEF Score, State
  <2>1. scored \in State /\ Playing(scored, m) /\ NothingLost(scored) /\ scored.lock = s.lock
        /\ scored.bubbles = s.bubbles
    BY <2>0, ScoreTyped, ScoreMode DEF Follows
  <2>2. TestBubblesPacman(s, e) = IF t.bubbles = 0 THEN Win(t) ELSE t
    BY <1>2 DEF TestBubblesPacman
  <2> HIDE DEF scored
  <2>3. u \in State /\ Playing(u, m) /\ NothingLost(u) /\ u.lock = s.lock /\ u.bubbles = s.bubbles
    <3>1. AffraidGhosts(scored).bubbles = scored.bubbles /\ AffraidGhosts(scored) \in State
      BY <2>1, AffraidTyped DEF AffraidGhosts, State, Follows
    <3> QED
      BY <2>1, <3>1, FrightMode
  <2> HIDE DEF u
  <2>4. u.bubbles - 1 \in 0 .. NumBubbles
    <3>1. s.bubbles \in 0 .. NumBubbles /\ NumBubbles \in Nat
      BY PacmanAssumption DEF PacmanAssumption, State
    <3> QED
      BY <1>2, <2>3, <3>1
  <2>5. t \in State /\ t.lock = s.lock
    BY <2>3, <2>4 DEF State
  <2>6. Playing(t, m) /\ NothingLost(t)
    BY <2>3 DEF State, NothingLost, Playing, On, Due, NoEating, GhostsAre
  <2> HIDE DEF t
  <2>7. CASE s.lock
    BY <2>2, <2>5, <2>6, <2>7, LockedClash
  <2>8. CASE ~ s.lock
    BY <2>2, <2>5, <2>6, <2>8, WinMode
  <2> QED
    BY <2>7, <2>8
<1> QED
  BY <1>1, <1>2

(* The ghosts that are near leave the game in play, or one is eaten, or     *)
(* one kills, or two encounters clash.                                      *)
LEMMA GhostsMode ==
  ASSUME NEW s \in State, NEW e, e.near \in SUBSET Ghosts, NEW m, Playing(s, m), NothingLost(s)
  PROVE  LET t == TestGhostsPacman(s, e)
         IN  t.clash \/ ( /\ NothingLost(t)
                          /\ \/ Playing(t, m) /\ t.lock = s.lock
                             \/ ~ s.lock /\ (Dying(t) \/ \E g \in e.near : EatingOne(t, g)) )
<1> DEFINE kills == { g \in e.near : s.state[g] = Normal }
           eaten == { g \in e.near : s.state[g] = Afraid /\ \A k \in kills : g < k }
           g == CHOOSE x \in eaten : \A h \in eaten : x <= h
           t == IF eaten = {} THEN s ELSE StartEatGhost(s, g, e)
<1>1. TestGhostsPacman(s, e) = IF kills = {} THEN t ELSE KillPacman(t)
  BY DEF TestGhostsPacman
<1>2. eaten # {} => g \in e.near /\ g \in Ghosts /\ s.state[g] = Afraid
  <2>1. eaten \in SUBSET Ghosts
    OBVIOUS
  <2>2. eaten # {} => g \in eaten
    BY <2>1, FirstGhost
  <2> HIDE DEF g
  <2> QED
    BY <2>1, <2>2
<1> HIDE DEF kills, eaten, g
<1>3. CASE s.lock
  <2>1. t = s
    BY <1>3 DEF StartEatGhost
  <2> QED
    BY <1>1, <1>3, <2>1, LockedClash
<1>4. CASE ~ s.lock /\ eaten = {}
  BY <1>1, <1>4, KillMode
<1>5. CASE ~ s.lock /\ eaten # {}
  <2>1. EatingOne(t, g) /\ NothingLost(t)
    BY <1>2, <1>5, EatMode
  <2>2. t.lock /\ t \in State
    BY <1>5, <2>1, StartEatTyped DEF EatingOne, Follows
  <2> HIDE DEF t
  <2> QED
    BY <1>1, <1>2, <1>5, <2>1, <2>2, LockedClash
<1> QED
  BY <1>3, <1>4, <1>5

(* In a game that is locked and has calm ghosts, each of them kills.        *)
LEMMA GhostsClash ==
  ASSUME NEW s \in State, NEW e, e.near \in SUBSET Ghosts, s.lock, Calm(s)
  PROVE  TestGhostsPacman(s, e).clash \/ TestGhostsPacman(s, e) = s
<1> DEFINE kills == { g \in e.near : s.state[g] = Normal }
           eaten == { g \in e.near : s.state[g] = Afraid /\ \A k \in kills : g < k }
<1>1. eaten = {}
  BY DEF Calm, Normal, Afraid
<1>2. TestGhostsPacman(s, e) = IF kills = {} THEN s ELSE KillPacman(s)
  BY <1>1 DEF TestGhostsPacman
<1> QED
  BY <1>2, LockedClash

(* What a step of Pacman comes to.                                          *)
Stepped(t, m, lock) ==
  t.clash \/ ( /\ NothingLost(t)
               /\ \/ Playing(t, m) /\ t.lock = lock
                  \/ ~ lock /\ (Won(t) \/ Dying(t) \/ \E g \in Ghosts : EatingOne(t, g)) )

(* A step of Pacman leaves the game in play or begins one encounter.        *)
LEMMA MoveMode ==
  ASSUME NEW s \in State, NEW e \in Steps(s) \union {SameWay}, NEW m,
         m = TRUE \/ e.bite # "super", Playing(s, m), NothingLost(s)
  PROVE  Stepped(MovePacman(s, e), m, s.lock)
<1> DEFINE t == [s EXCEPT !.moving = TRUE]
           u == [t EXCEPT !.fresh = FALSE]
           b == TestBubblesPacman(u, e)
           c == TestGhostsPacman(b, e)
           f == TestFruitsPacman(c, e)
<1>1. t \in State /\ u \in State /\ u.bubbles = s.bubbles /\ t.lock = s.lock /\ u.lock = s.lock
  BY DEF State
<1>2. Playing(t, m) /\ Playing(u, m) /\ NothingLost(t) /\ NothingLost(u)
  BY DEF State, NothingLost, Playing, On, Due, NoEating, GhostsAre
<1>3. Meeting(e) /\ (e.bite # "none" => s.bubbles > 0) /\ ~ (e.idle /\ e.blocked)
  BY StepMeets
<1>4. MovePacman(s, e) = IF e.idle THEN t ELSE IF e.blocked THEN StopPacman(t) ELSE f
  <2> HIDE DEF t, f
  <2>1. MovePacman(s, e) = CASE e.idle -> t [] e.blocked -> StopPacman(t) [] OTHER -> f
    BY DEF MovePacman, t, f
  <2> QED
    BY <1>3, <2>1 DEF Meeting
<1> HIDE DEF t, u
<1>5. Stepped(t, m, s.lock)
  BY <1>1, <1>2 DEF Stepped
<1>6. Stepped(StopPacman(t), m, s.lock)
  <2>1. Playing(StopPacman(t), m) /\ NothingLost(StopPacman(t)) /\ StopPacman(t).lock = t.lock
    BY <1>1, <1>2 DEF State, NothingLost, Playing, On, Due, NoEating, GhostsAre, StopPacman
  <2> QED
    BY <1>1, <2>1 DEF Stepped
<1>7. b.clash \/ ( /\ NothingLost(b)
                   /\ \/ Playing(b, m) /\ b.lock = s.lock
                      \/ ~ s.lock /\ Won(b) )
  BY <1>1, <1>2, <1>3, BubblesTyped, BubblesMode DEF Follows
<1>8. b \in State /\ Follows(c, b) /\ Follows(f, c)
  BY <1>1, <1>3, BubblesTyped, GhostsTyped, FruitsTyped DEF Follows
<1>9. e.near \in SUBSET Ghosts
  BY <1>3 DEF Meeting
<1> HIDE DEF b
<1>10. c.clash \/ ( /\ NothingLost(c)
                    /\ \/ Playing(c, m) /\ c.lock = s.lock
                       \/ ~ s.lock /\ (Won(c) \/ Dying(c) \/ \E g \in Ghosts : EatingOne(c, g)) )
  <2>1. CASE b.clash
    BY <1>8, <2>1 DEF Follows
  <2>2. CASE NothingLost(b) /\ Playing(b, m) /\ b.lock = s.lock
    BY <1>8, <1>9, <2>2, GhostsMode
  <2>3. CASE NothingLost(b) /\ ~ s.lock /\ Won(b)
    BY <1>8, <1>9, <2>3, GhostsClash DEF Won
  <2> QED
    BY <1>7, <2>1, <2>2, <2>3
<1> HIDE DEF c
<1>11. Stepped(f, m, s.lock)
  <2>1. c \in State
    BY <1>8 DEF Follows
  <2>2. CASE c.clash
    BY <1>8, <2>2 DEF Follows, Stepped
  <2>3. CASE ~ c.clash
    <3>0. NothingLost(c)
      BY <1>10, <2>3
    <3> DEFINE r == TestFruitsPacman(c, e)
    <3>1. /\ NothingLost(r) /\ r.lock = c.lock /\ (Playing(c, m) => Playing(r, m))
          /\ (Won(c) => Won(r)) /\ (Dying(c) => Dying(r))
          /\ \A g : EatingOne(c, g) => EatingOne(r, g)
      BY <2>1, <3>0, FruitMode
    <3> HIDE DEF r
    <3>2. f = r
      BY DEF r
    <3> HIDE DEF f
    <3> QED
      BY <1>10, <2>3, <3>1, <3>2 DEF Stepped
  <2> QED
    BY <2>2, <2>3
<1> HIDE DEF f
<1> QED
  BY <1>4, <1>5, <1>6, <1>11

-----------------------------------------------------------------------------
(* Which mode each callback is for, and which one it leads to: one lemma    *)
(* for each, with what becomes of the lifes and of the level.               *)

SameScore(t, s) == t.lifes = s.lifes /\ t.level = s.level

Play(s) == Playing(s, TRUE) /\ ~ s.lock

(* After a reset Pacman and the ghosts stand at their places; the rest of   *)
(* the globals are left alone.                                              *)
SameRest(t, s) ==
  /\ t.home = s.home /\ t.lock = s.lock /\ t.pause = s.pause /\ t.gameover = s.gameover
  /\ t.times = s.times /\ t.fruit = s.fruit /\ t.flash = s.flash /\ t.eatGhost = s.eatGhost
  /\ t.go = s.go /\ t.retry = s.retry /\ t.prepare = s.prepare
  /\ t.fruitLost = s.fruitLost /\ t.affraidLost = s.affraidLost /\ t.eatLost = s.eatLost
  /\ t.clash = s.clash /\ SameScore(t, s)

(* resetPacman and resetGhosts, one after the other.                        *)
LEMMA ResetLeads ==
  ASSUME NEW s \in State
  PROVE  LET t == ResetGhosts(ResetPacman(s))
         IN  /\ t \in State /\ SameRest(t, s)
             /\ ~ t.dead /\ ~ t.moving /\ ~ t.killing /\ t.fresh /\ Still(t) /\ Calm(t)
<1> DEFINE r == ResetPacman(s)
           h == StopGhosts(r)
           t == [h EXCEPT !.affraid = NoTimers, !.eat = NoTimers]
<1>1. r \in State /\ SameRest(r, s) /\ ~ r.dead /\ ~ r.moving /\ ~ r.killing /\ r.fresh
  BY DEF State, SameRest, SameScore, ResetPacman, StopPacman
<1> HIDE DEF r
<1>2. /\ h \in State /\ SameRest(h, s) /\ ~ h.dead /\ ~ h.moving /\ ~ h.killing /\ h.fresh
      /\ h.state = [g \in Ghosts |-> Normal] /\ h.ghosting = Resting
  <2>1. h \in State
    BY <1>1, GhostsStop DEF Follows
  <2> QED
    BY <1>1, <2>1 DEF State, SameRest, SameScore, StopGhosts
<1> HIDE DEF h
<1>3. t \in State /\ SameRest(t, s) /\ ~ t.dead /\ ~ t.moving /\ ~ t.killing /\ t.fresh
  BY <1>2 DEF State, SameRest, SameScore, NoTimers, Timers
<1>4. Still(t) /\ Calm(t)
  BY <1>2 DEF State, Still, Calm, NoTimers, Resting
<1>5. ResetGhosts(ResetPacman(s)) = t
  BY DEF ResetGhosts, h, r
<1> HIDE DEF t
<1> QED
  BY <1>3, <1>4, <1>5

(* stopTimes leaves alone all but the time and the fruit.                   *)
LEMMA TimesStop ==
  ASSUME NEW s \in State
  PROVE  LET t == StopTimes(s)
         IN  /\ t \in State /\ ~ t.times /\ t.fruit = "null" /\ SameScore(t, s)
             /\ t.clash = s.clash
             /\ t.home = s.home /\ t.lock = s.lock /\ t.pause = s.pause /\ t.gameover = s.gameover
             /\ t.flash = s.flash /\ t.eatGhost = s.eatGhost
             /\ t.go = s.go /\ t.retry = s.retry /\ t.prepare = s.prepare
             /\ t.fruitLost = s.fruitLost /\ t.affraidLost = s.affraidLost
             /\ t.eatLost = s.eatLost
<1>1. StopTimes(s) \in State
  BY TimesTyped DEF Follows
<1> QED
  BY <1>1 DEF StopTimes, State, SameScore

(* Any key at home starts a game.                                           *)
LEMMA StartLeads ==
  ASSUME game \in State, Modes(game), KeyStart
  PROVE  /\ Home(game) /\ GetReady(game') /\ NothingLost(game')
         /\ game'.lifes = game.lifes /\ game'.level = 1
<1>1. Home(game) /\ NothingLost(game)
  BY DEF Modes, KeyStart, Over, GetReady, Held, Dying, Retrying, Dead, Won, Playing, EatingOne, On
<1> QED
  BY <1>1, PacmanAssumption
  DEF PacmanAssumption, KeyStart, Ready, Home, GetReady, AtStart, On, Due, Still, Calm, NoEating,
      NothingLost, Twin, Least, State

(* A key never finds Pacman dead in a game that is not locked.              *)
LEMMA NeverRestarts ==
  ASSUME Modes(game)
  PROVE  ~ KeyRestart
  BY DEF Modes, KeyRestart, Home, Over, GetReady, AtStart, Held, Dying, Retrying, Dead, Won,
         Playing, EatingOne

(* A game in play is paused.                                                *)
LEMMA PauseLeads ==
  ASSUME game \in State, Modes(game), KeyPause
  PROVE  Play(game) /\ Held(game') /\ NothingLost(game') /\ SameScore(game', game)
<1>1. Play(game) /\ NothingLost(game)
  BY DEF Modes, KeyPause, Playable, Play, Home, Over, GetReady, Held, Dying, Retrying, Dead, Won,
         EatingOne
<1> DEFINE p == [game EXCEPT !.pause = TRUE]
           t == PausePacman(PauseTimes(p))
<1>2. game' = PauseGhosts(t) /\ ~ game.home
  BY DEF KeyPause
<1>3. /\ t \in State /\ t.pause /\ ~ t.home /\ ~ t.gameover /\ ~ t.lock /\ ~ t.dead /\ ~ t.killing
      /\ Due(t, 0, 0, 0) /\ t.flash = -1 /\ NoEating(t) /\ ~ t.moving /\ ~ t.times
      /\ t.fruit # "live" /\ GhostsAre(t, TRUE, "live") /\ NothingLost(t) /\ SameScore(t, game)
  BY <1>1, <1>2
  DEF State, PausePacman, PauseTimes, Paused, Timers, Play, Playing, On, Due, NoEating, GhostsAre,
      NothingLost, SameScore
<1> HIDE DEF t
<1> QED
  BY <1>1, <1>2, <1>3
  DEF PauseGhosts, Held, State, Paused, Timers, Due, NoEating, GhostsAre, NothingLost, SameScore,
      Resting, Normal, Afraid, Eaten

(* The player leaves a game that is over.                                   *)
LEMMA HomeLeads ==
  ASSUME game \in State, Modes(game), KeyHome
  PROVE  Over(game) /\ Home(game') /\ NothingLost(game') /\ SameScore(game', game)
<1>1. Over(game) /\ NothingLost(game)
  BY DEF Modes, KeyHome, Home, GetReady, Held, Dying, Retrying, Dead, Won, Playing, EatingOne, On
<1> QED
  BY <1>1
  DEF KeyHome, Over, Home, AtStart, Due, Still, Calm, NoEating, NothingLost, State, SameScore

(* After Pacman has died a life is lost, or the game when none is left.     *)
LEMMA KillingLeads ==
  ASSUME game \in State, Modes(game), KillingPacman
  PROVE  /\ Dying(game) /\ NothingLost(game')
         /\ \/ /\ Retrying(game') /\ game.lifes > 0
               /\ game'.lifes = game.lifes - 1 /\ game'.level = game.level
            \/ Over(game') /\ game.lifes = 0 /\ game'.lifes = 2 /\ game'.level = 1
<1>1. Dying(game) /\ NothingLost(game)
  BY DEF Modes, KillingPacman, Home, Over, GetReady, AtStart, Held, Retrying, Won, Playing,
         EatingOne
<1> DEFINE s == [game EXCEPT !.killing = FALSE]
<1>2. game' = IF s.lifes > 0 THEN [s EXCEPT !.lifes = @ - 1, !.retry = Twin(@)] ELSE Gameover(s)
  BY DEF KillingPacman
<1>3. /\ s \in State /\ Dead(s) /\ ~ s.killing /\ Due(s, 0, 0, 0) /\ NothingLost(s)
      /\ SameScore(s, game)
  BY <1>1 DEF State, Dying, Dead, On, Due, Calm, NoEating, NothingLost, SameScore
<1> HIDE DEF s
<1>4. CASE s.lifes > 0
  BY <1>1, <1>2, <1>3, <1>4, PacmanAssumption
  DEF PacmanAssumption, State, Retrying, Dead, On, Due, Calm, NoEating, NothingLost, SameScore,
      Twin, Least
<1>5. CASE ~ (s.lifes > 0)
  <2>1. game' = Gameover(s) /\ game.lifes = 0
    BY <1>2, <1>3, <1>5 DEF State, SameScore
  <2> DEFINE t == StopTimes(s)
             h == ResetGhosts(ResetPacman(t))
  <2>2. t \in State /\ On(t) /\ t.lock /\ t.flash = -1 /\ NoEating(t) /\ Due(t, 0, 0, 0)
        /\ NothingLost(t) /\ ~ t.times /\ t.fruit = "null"
    BY <1>3, TimesStop DEF Dead, On, Due, NoEating, NothingLost
  <2>3. game' = [h EXCEPT !.gameover = TRUE, !.lifes = 2, !.level = 1]
    BY <2>1 DEF Gameover
  <2> HIDE DEF t
  <2>4. /\ h \in State /\ On(h) /\ h.lock /\ ~ h.dead /\ ~ h.moving /\ ~ h.killing /\ h.fresh
        /\ ~ h.times /\ h.fruit = "null" /\ h.flash = -1 /\ NoEating(h) /\ Due(h, 0, 0, 0)
        /\ NothingLost(h) /\ Still(h) /\ Calm(h)
    BY <2>2, ResetLeads DEF SameRest, On, Due, NoEating, NothingLost
  <2> HIDE DEF h
  <2> QED
    BY <1>1, <2>1, <2>3, <2>4
    DEF State, Over, AtStart, On, Due, NoEating, NothingLost, Still, Calm
<1> QED
  BY <1>4, <1>5

(* A step of Pacman may bring one life, and one only: what takes the score  *)
(* over its limit is the bubble, a ghost or the fruit.                      *)
Gains(t, s) ==
  /\ t.level = s.level
  /\ t.lifes \in {s.lifes, IF s.lifes < MaxLifes THEN s.lifes + 1 ELSE s.lifes}

GainsFor(t, s, e, kind) == Gains(t, s) /\ (e.bonus # kind => SameScore(t, s))

(* An extra life, within the bound.                                         *)
LEMMA ScoreGains ==
  ASSUME NEW s \in State, NEW e, NEW kind
  PROVE  GainsFor(Score(s, e, kind), s, e, kind)
<1>1. Least(s.lifes + 1, MaxLifes) = IF s.lifes < MaxLifes THEN s.lifes + 1 ELSE s.lifes
  BY PacmanAssumption DEF PacmanAssumption, State, Least
<1> QED
  BY <1>1 DEF Score, GainsFor, Gains, SameScore, State

(* What does not call score leaves the lifes and the level alone.           *)
LEMMA OthersScore ==
  ASSUME NEW s \in State
  PROVE  /\ SameScore(AffraidGhosts(s), s) /\ SameScore(Win(s), s) /\ SameScore(KillPacman(s), s)
         /\ SameScore(PausePacman(PauseGhosts(s)), s) /\ SameScore(StopPacman(s), s)
         /\ SameScore(ResumeGhosts(s), s) /\ SameScore(MoveGhosts(s), s)
         /\ SameScore(ResumeTimes(s), s)
<1>1. SameScore(AffraidGhosts(s), s) /\ SameScore(PausePacman(PauseGhosts(s)), s)
  BY DEF AffraidGhosts, PausePacman, PauseGhosts, State, SameScore
<1>2. /\ SameScore(StopPacman(s), s) /\ SameScore(ResumeGhosts(s), s)
      /\ SameScore(MoveGhosts(s), s) /\ SameScore(ResumeTimes(s), s)
  BY DEF StopPacman, ResumeGhosts, MoveGhosts, ResumeTimes, State, SameScore
<1> DEFINE h == StopGhosts(StopPacman(s))
<1>3. h \in State /\ SameScore(h, s)
  <2>1. StopPacman(s) \in State
    BY PacmanStops DEF Follows
  <2>2. SameScore(h, StopPacman(s))
    BY <2>1 DEF StopGhosts, State, SameScore
  <2> QED
    BY <1>2, <2>1, <2>2, GhostsStop DEF Follows, SameScore
<1>4. /\ Win(s) = [StopTimes(h) EXCEPT !.lock = TRUE, !.prepare = Twin(@), !.clash = @ \/ s.lock]
      /\ KillPacman(s) = [PauseTimes(h) EXCEPT !.lock = TRUE, !.dead = TRUE, !.killing = TRUE,
                                               !.clash = @ \/ s.lock]
  BY DEF Win, KillPacman
<1> HIDE DEF h
<1>5. SameScore(Win(s), s) /\ SameScore(KillPacman(s), s)
  BY <1>3, <1>4 DEF StopTimes, PauseTimes, State, SameScore
<1> QED
  BY <1>1, <1>2, <1>5

(* A bubble brings a life only when it takes the score over the limit.      *)
LEMMA BubblesGain ==
  ASSUME NEW s \in State, NEW e, Meeting(e), e.bite # "none" => s.bubbles > 0
  PROVE  GainsFor(TestBubblesPacman(s, e), s, e, "bubble")
<1>1. CASE e.bite = "none"
  BY <1>1 DEF TestBubblesPacman, GainsFor, Gains, SameScore
<1>2. CASE e.bite # "none"
  <2> DEFINE scored == Score(s, e, "bubble")
             u == IF e.bite = "super" THEN AffraidGhosts(scored) ELSE scored
             t == [u EXCEPT !.bubbles = @ - 1]
  <2>1. scored \in State /\ GainsFor(scored, s, e, "bubble")
    BY ScoreTyped, ScoreGains DEF Follows
  <2>a. scored.bubbles = s.bubbles
    BY DEF Score, State
  <2>2. TestBubblesPacman(s, e) = IF t.bubbles = 0 THEN Win(t) ELSE t
    BY <1>2 DEF TestBubblesPacman
  <2> HIDE DEF scored
  <2>3. u \in State /\ SameScore(u, scored) /\ u.bubbles = s.bubbles
    <3>1. AffraidGhosts(scored).bubbles = scored.bubbles
      BY <2>1 DEF AffraidGhosts, State
    <3>2. AffraidGhosts(scored) \in State /\ SameScore(AffraidGhosts(scored), scored)
      BY <2>1, AffraidTyped, OthersScore DEF Follows
    <3> QED
      BY <2>1, <2>a, <3>1, <3>2 DEF SameScore
  <2> HIDE DEF u
  <2>4. u.bubbles - 1 \in 0 .. NumBubbles
    <3>1. s.bubbles \in 0 .. NumBubbles /\ NumBubbles \in Nat
      BY PacmanAssumption DEF PacmanAssumption, State
    <3> QED
      BY <1>2, <2>3, <3>1
  <2>5. t \in State /\ SameScore(t, u)
    BY <2>3, <2>4 DEF State, SameScore
  <2> HIDE DEF t
  <2>6. SameScore(TestBubblesPacman(s, e), scored)
    BY <2>2, <2>3, <2>5, OthersScore DEF SameScore
  <2> QED
    BY <2>1, <2>6 DEF GainsFor, Gains, SameScore
<1> QED
  BY <1>1, <1>2

(* The same of the ghosts.                                                  *)
LEMMA GhostsGain ==
  ASSUME NEW s \in State, NEW e
  PROVE  GainsFor(TestGhostsPacman(s, e), s, e, "ghost")
<1>1. ASSUME NEW g
      PROVE  StartEatGhost(s, g, e) \in State /\ GainsFor(StartEatGhost(s, g, e), s, e, "ghost")
  <2>1. CASE s.lock
    BY <2>1 DEF StartEatGhost, GainsFor, Gains, SameScore
  <2>2. CASE ~ s.lock
    <3> DEFINE u == [s EXCEPT !.lock = TRUE, !.affraid[g] = "null"]
               t == Score(u, e, "ghost")
               v == PausePacman(PauseGhosts(t))
    <3>1. "null" \in Timers /\ [s.affraid EXCEPT ![g] = "null"] \in [Ghosts -> Timers]
      BY DEF State, Timers
    <3>2. u \in State /\ SameScore(u, s)
      BY <3>1 DEF State, SameScore
    <3>3. StartEatGhost(s, g, e)
            = [v EXCEPT !.combo = Least(@ + 1, NumGhosts + 1), !.eatGhost[g] = Twin(@)]
      BY <2>2 DEF StartEatGhost
    <3> HIDE DEF u
    <3>4. t \in State /\ GainsFor(t, u, e, "ghost")
      BY <3>2, ScoreTyped, ScoreGains DEF Follows
    <3> HIDE DEF t
    <3>5. v \in State /\ SameScore(v, t)
      BY <3>4, GhostsStop, PacmanStops, OthersScore DEF Follows
    <3> HIDE DEF v
    <3>6. SameScore(StartEatGhost(s, g, e), v)
      BY <3>3, <3>5 DEF State, SameScore
    <3>7. StartEatGhost(s, g, e) \in State
      BY StartEatTyped DEF Follows
    <3> QED
      BY <3>2, <3>4, <3>5, <3>6, <3>7 DEF GainsFor, Gains, SameScore
  <2> QED
    BY <2>1, <2>2
<1> DEFINE kills == { g \in e.near : s.state[g] = Normal }
           eaten == { g \in e.near : s.state[g] = Afraid /\ \A k \in kills : g < k }
           t == IF eaten = {} THEN s
                ELSE StartEatGhost(s, CHOOSE g \in eaten : \A h \in eaten : g <= h, e)
<1>2. TestGhostsPacman(s, e) = IF kills = {} THEN t ELSE KillPacman(t)
  BY DEF TestGhostsPacman
<1>3. t \in State /\ GainsFor(t, s, e, "ghost")
  BY <1>1 DEF GainsFor, Gains, SameScore
<1> HIDE DEF t, kills
<1> QED
  BY <1>2, <1>3, OthersScore DEF GainsFor, Gains, SameScore

(* The same of the fruit.                                                   *)
LEMMA FruitsGain ==
  ASSUME NEW s \in State, NEW e
  PROVE  GainsFor(TestFruitsPacman(s, e), s, e, "fruit")
<1> DEFINE u == Score(s, e, "fruit")
<1>1. TestFruitsPacman(s, e) = [u EXCEPT !.fruit = "null"] \/ TestFruitsPacman(s, e) = s
  BY DEF TestFruitsPacman
<1>2. u \in State /\ GainsFor(u, s, e, "fruit")
  BY ScoreTyped, ScoreGains DEF Follows
<1> HIDE DEF u
<1>3. SameScore([u EXCEPT !.fruit = "null"], u)
  BY <1>2 DEF State, SameScore
<1> QED
  BY <1>1, <1>2, <1>3 DEF GainsFor, Gains, SameScore

(* A step brings at most one life and changes no level.                     *)
LEMMA MoveGains ==
  ASSUME NEW s \in State, NEW e \in Steps(s) \union {SameWay}
  PROVE  Gains(MovePacman(s, e), s)
<1> DEFINE t == [s EXCEPT !.moving = TRUE]
           u == [t EXCEPT !.fresh = FALSE]
           b == TestBubblesPacman(u, e)
           c == TestGhostsPacman(b, e)
           f == TestFruitsPacman(c, e)
<1>1. /\ t \in State /\ u \in State /\ u.bubbles = s.bubbles
      /\ SameScore(t, s) /\ SameScore(u, s)
  BY DEF State, SameScore
<1>2. Meeting(e) /\ (e.bite # "none" => s.bubbles > 0) /\ ~ (e.idle /\ e.blocked)
  BY StepMeets
<1>3. MovePacman(s, e) = IF e.idle THEN t ELSE IF e.blocked THEN StopPacman(t) ELSE f
  <2> HIDE DEF t, f
  <2>1. MovePacman(s, e) = CASE e.idle -> t [] e.blocked -> StopPacman(t) [] OTHER -> f
    BY DEF MovePacman, t, f
  <2> QED
    BY <1>2, <2>1 DEF Meeting
<1> HIDE DEF t, u
<1>4. SameScore(StopPacman(t), t)
  BY <1>1, OthersScore
<1>5. b \in State /\ GainsFor(b, u, e, "bubble")
  BY <1>1, <1>2, BubblesTyped, BubblesGain DEF Follows
<1> HIDE DEF b
<1>6. c \in State /\ GainsFor(c, b, e, "ghost")
  BY <1>5, GhostsTyped, GhostsGain DEF Follows
<1> HIDE DEF c
<1>7. GainsFor(f, c, e, "fruit")
  BY <1>6, FruitsGain
<1> HIDE DEF f
<1>8. Gains(f, u)
  <2>1. CASE e.bonus = "bubble"
    BY <1>5, <1>6, <1>7, <2>1 DEF GainsFor, Gains, SameScore
  <2>2. CASE e.bonus = "ghost"
    BY <1>5, <1>6, <1>7, <2>2 DEF GainsFor, Gains, SameScore
  <2>3. CASE e.bonus # "bubble" /\ e.bonus # "ghost"
    BY <1>5, <1>6, <1>7, <2>3 DEF GainsFor, Gains, SameScore
  <2> QED
    BY <2>1, <2>2, <2>3
<1> QED
  BY <1>1, <1>3, <1>4, <1>8 DEF Gains, SameScore

(* Where Pacman's steps lead                                                *)
Encounter(s) == Play(s) \/ Won(s) \/ Dying(s) \/ \E g \in Ghosts : EatingOne(s, g)

(* Pacman moves in a game in play, which goes on or comes to one            *)
(* encounter.                                                               *)
LEMMA ArrowLeads ==
  ASSUME game \in State, Modes(game), KeyArrow \/ PacmanTick
  PROVE  /\ Play(game) /\ Gains(game', game)
         /\ game'.clash \/ (NothingLost(game') /\ Encounter(game'))
<1>1. Play(game) /\ NothingLost(game)
  BY DEF Modes, KeyArrow, PacmanTick, Playable, Play, Home, Over, GetReady, AtStart, Held, Dying,
         Retrying, Dead, Won, EatingOne
<1>2. PICK e \in Steps(game) \union {SameWay} : game' = MovePacman(game, e)
  BY DEF KeyArrow, PacmanTick
<1> DEFINE t == MovePacman(game, e)
<1>3. Playing(game, TRUE) /\ game.lock = FALSE
  BY <1>1 DEF Play, State
<1>4. Stepped(t, TRUE, FALSE) /\ Gains(t, game)
  BY <1>1, <1>3, MoveMode, MoveGains
<1> HIDE DEF t
<1>5. t.clash \/ (NothingLost(t) /\ Encounter(t))
  BY <1>4 DEF Stepped, Encounter, Play
<1> QED
  BY <1>1, <1>2, <1>4, <1>5 DEF t

(* Ghosts that stand with timers that stand go on with timers that run.     *)
LEMMA ResumeMode ==
  ASSUME NEW s \in State, Playing(s, FALSE), NothingLost(s)
  PROVE  /\ Playing(ResumeGhosts(s), TRUE) /\ NothingLost(ResumeGhosts(s))
         /\ ResumeGhosts(s).lock = s.lock
  BY DEF ResumeGhosts, MoveGhosts, Lost, Resumed, On, Due, NoEating, Playing, GhostsAre,
         NothingLost, State, Normal, Afraid, Eaten, Timers

(* A paused game goes on, or it clashes when its first step meets           *)
(* something that locks it or begins a fright.                              *)
LEMMA ResumeLeads ==
  ASSUME game \in State, Modes(game), KeyResume
  PROVE  /\ Held(game) /\ Gains(game', game)
         /\ game'.clash \/ (NothingLost(game') /\ Play(game'))
<1>1. Held(game) /\ NothingLost(game)
  BY DEF Modes, KeyResume, Playable, Home, Over, GetReady, AtStart, On, Dying, Retrying, Dead,
         Won, EatingOne, Playing
<1> DEFINE p == [game EXCEPT !.pause = FALSE]
           r == ResumeTimes(p)
<1>2. p \in State /\ p.fresh = game.fresh /\ p.bubbles = game.bubbles /\ p.fruit = game.fruit
      /\ SameScore(p, game) /\ On(p) /\ ~ p.lock /\ ~ p.dead /\ ~ p.killing
      /\ Due(p, 0, 0, 0) /\ p.flash = -1 /\ NoEating(p) /\ p.fruit # "live"
      /\ GhostsAre(p, FALSE, "idle") /\ NothingLost(p)
  BY <1>1 DEF State, Held, On, Due, NoEating, GhostsAre, NothingLost, SameScore
<1>3. PICK e \in Steps(game) :
        game' = ResumeGhosts([MovePacman(r, e) EXCEPT
                                !.clash = @ \/ MovePacman(r, e).lock \/ e.bite = "super"])
  BY DEF KeyResume
<1> HIDE DEF p
<1>4. /\ r \in State /\ Playing(r, FALSE) /\ ~ r.lock /\ NothingLost(r) /\ SameScore(r, p)
      /\ r.fresh = p.fresh /\ r.bubbles = p.bubbles /\ (r.fruit = "null" <=> p.fruit = "null")
  <2>1. r \in State
    BY <1>2, TimesTyped DEF Follows
  <2> QED
    BY <1>2, <2>1 DEF State, ResumeTimes, Resumed, Lost, Playing, On, Due, NoEating, GhostsAre,
                      NothingLost, SameScore
<1> HIDE DEF r
<1>5. e \in Steps(r)
  BY <1>2, <1>4, SameSteps
<1> DEFINE s == MovePacman(r, e)
<1>6. s \in State /\ Gains(s, r) /\ (e.bite # "super" => Stepped(s, FALSE, FALSE))
  <2>1. r.lock = FALSE
    BY <1>4 DEF State
  <2> QED
    BY <1>4, <1>5, <2>1, MoveTyped, MoveGains, MoveMode DEF Follows
<1> HIDE DEF s
<1>7. PICK c \in BOOLEAN : c = (s.clash \/ s.lock \/ e.bite = "super")
  OBVIOUS
<1> DEFINE u == [s EXCEPT !.clash = c]
<1>8. game' = ResumeGhosts(u)
  BY <1>3, <1>7, Zenon DEF s
<1>9. u \in State /\ u.clash = c /\ SameScore(u, s)
  BY <1>6 DEF State, SameScore
<1>10. game'.clash = c /\ SameScore(game', u)
  BY <1>8, <1>9, OthersScore DEF ResumeGhosts, MoveGhosts, State
<1>11. Gains(game', game)
  BY <1>2, <1>4, <1>6, <1>9, <1>10 DEF Gains, SameScore
<1> HIDE DEF u
<1>12. CASE c = TRUE
  BY <1>1, <1>10, <1>11, <1>12
<1>13. CASE c = FALSE
  <2>1. ~ s.clash /\ ~ s.lock /\ e.bite # "super"
    BY <1>7, <1>13
  <2>2. Playing(s, FALSE) /\ NothingLost(s)
    <3>1. \A g \in Ghosts : EatingOne(s, g) => s.lock
      BY DEF EatingOne
    <3>2. (Won(s) => s.lock) /\ (Dying(s) => s.lock)
      BY DEF Won, Dying, Dead
    <3> QED
      BY <1>6, <2>1, <3>1, <3>2 DEF Stepped
  <2>3. Playing(u, FALSE) /\ NothingLost(u) /\ ~ u.lock
    BY <1>6, <2>1, <2>2 DEF State, Playing, On, Due, NoEating, GhostsAre, NothingLost, u
  <2> QED
    BY <1>1, <1>8, <1>9, <1>11, <2>3, ResumeMode DEF Play
<1> QED
  BY <1>12, <1>13

(* The game begins; its first step meets nothing.                           *)
LEMMA GoLeads ==
  ASSUME game \in State, Modes(game), Go
  PROVE  /\ GetReady(game) /\ Play(game') /\ NothingLost(game') /\ SameScore(game', game)
         /\ game'.clash = game.clash
<1>1. GetReady(game) /\ NothingLost(game)
  <2>1. game.go # 0
    BY DEF Go, State
  <2>2. ~ Home(game) /\ ~ Over(game) /\ ~ Held(game) /\ ~ Dying(game) /\ ~ Retrying(game)
        /\ ~ Won(game) /\ ~ Playing(game, TRUE) /\ \A g \in Ghosts : ~ EatingOne(game, g)
    BY <2>1 DEF Due, Home, Over, Held, Dying, Retrying, Won, EatingOne, Playing
  <2> QED
    BY <2>2 DEF Modes
<1> DEFINE t == [game EXCEPT !.go = @ - 1, !.lock = FALSE, !.times = TRUE]
<1>2. PICK e \in Steps(game) : game' = MoveGhosts(MovePacman(t, e))
  BY DEF Go
<1>3. /\ t \in State /\ On(t) /\ ~ t.lock /\ ~ t.dead /\ ~ t.killing /\ t.fresh /\ Calm(t)
      /\ Due(t, 0, 0, 0) /\ t.flash = -1 /\ NoEating(t) /\ NothingLost(t) /\ SameScore(t, game)
      /\ t.bubbles = game.bubbles /\ t.fruit = game.fruit /\ t.fresh = game.fresh
      /\ t.clash = game.clash
  <2>1. game.go - 1 \in 0 .. MaxTwins
    BY <1>1, PacmanAssumption DEF PacmanAssumption, GetReady, Due
  <2>2. t \in State
    BY <2>1 DEF State
  <2>3. /\ t.go = game.go - 1 /\ t.retry = game.retry /\ t.prepare = game.prepare /\ ~ t.lock
        /\ t.home = game.home /\ t.pause = game.pause /\ t.gameover = game.gameover
        /\ t.dead = game.dead /\ t.killing = game.killing /\ t.flash = game.flash
        /\ t.state = game.state /\ t.affraid = game.affraid /\ t.eat = game.eat
        /\ t.eatGhost = game.eatGhost /\ t.fruitLost = game.fruitLost
        /\ t.affraidLost = game.affraidLost /\ t.eatLost = game.eatLost
        /\ t.bubbles = game.bubbles /\ t.fruit = game.fruit /\ t.fresh = game.fresh
        /\ t.clash = game.clash /\ SameScore(t, game)
    BY DEF State, SameScore
  <2> HIDE DEF t
  <2> QED
    BY <1>1, <2>2, <2>3 DEF GetReady, AtStart, On, Due, Calm, NoEating, NothingLost
<1> HIDE DEF t
<1>4. e \in Steps(t)
  BY <1>3, SameSteps
<1>5. /\ e.near = {} /\ e.bite = "none" /\ ~ e.fruit /\ Meeting(e) /\ ~ (e.idle /\ e.blocked)
  BY <1>3, <1>4, StepMeets
<1> DEFINE a == [t EXCEPT !.moving = TRUE]
           u == [a EXCEPT !.fresh = FALSE]
           f == TestFruitsPacman(TestGhostsPacman(TestBubblesPacman(u, e), e), e)
<1>6. f = u
  <2>1. TestBubblesPacman(u, e) = u
    BY <1>5 DEF TestBubblesPacman
  <2>2. TestGhostsPacman(u, e) = u
    <3> HIDE DEF u
    <3> QED
      BY <1>5 DEF TestGhostsPacman
  <2>3. TestFruitsPacman(u, e) = u
    BY <1>5 DEF TestFruitsPacman
  <2> QED
    BY <2>1, <2>2, <2>3
<1>7. MovePacman(t, e) = IF e.idle THEN a ELSE IF e.blocked THEN StopPacman(a) ELSE u
  <2> HIDE DEF a
  <2>1. MovePacman(t, e) = CASE e.idle -> a [] e.blocked -> StopPacman(a) [] OTHER -> f
    BY DEF MovePacman, a
  <2> HIDE DEF f, u
  <2> QED
    BY <1>5, <1>6, <2>1 DEF Meeting
<1> HIDE DEF f
<1>8. PICK v \in {a, u, StopPacman(a)} : game' = MoveGhosts(v)
  BY <1>2, <1>7
<1> DEFINE Same(x) == /\ x \in State /\ On(x) /\ ~ x.lock /\ ~ x.dead /\ ~ x.killing /\ Calm(x)
                      /\ Due(x, 0, 0, 0) /\ x.flash = -1 /\ NoEating(x) /\ NothingLost(x)
                      /\ x.clash = game.clash /\ SameScore(x, game)
<1>9. Same(v)
  <2>1. Same(a)
    BY <1>3 DEF State, On, Due, Calm, NoEating, NothingLost, SameScore
  <2>2. Same(u)
    BY <1>3 DEF State, On, Due, Calm, NoEating, NothingLost, SameScore
  <2> HIDE DEF a
  <2>3. Same(StopPacman(a))
    BY <2>1 DEF State, StopPacman, On, Due, Calm, NoEating, NothingLost, SameScore
  <2> HIDE DEF u, Same
  <2> QED
    BY <1>8, <2>1, <2>2, <2>3
<1> HIDE DEF a, u
<1> QED
  BY <1>1, <1>8, <1>9
  DEF MoveGhosts, State, Play, Playing, On, Due, Calm, NoEating, NothingLost, GhostsAre, SameScore,
      Normal, Afraid, Eaten

(* A ghost has been eaten; the game goes on unless the step that Pacman     *)
(* takes meets something while the lock is still set.                       *)
LEMMA EatGhostLeads ==
  ASSUME game \in State, Modes(game), NEW g \in Ghosts, EatGhost(g)
  PROVE  /\ EatingOne(game, g) /\ Gains(game', game)
         /\ game'.clash \/ (NothingLost(game') /\ Play(game'))
<1>1. EatingOne(game, g) /\ NothingLost(game)
  <2>1. game.eatGhost[g] > 0
    BY DEF EatGhost
  <2>2. ~ NoEating(game)
    BY <2>1 DEF NoEating
  <2>3. \A h \in Ghosts : EatingOne(game, h) => h = g
    BY <2>1 DEF EatingOne
  <2> QED
    BY <2>2, <2>3 DEF Modes, Home, Over, GetReady, AtStart, Held, Dying, Retrying, Dead, Won, Playing
<1> DEFINE n == [game.eatGhost EXCEPT ![g] = @ - 1]
           s == [game EXCEPT !.eatGhost = n]
           st == [s.state EXCEPT ![g] = Eaten]
           et == [s.eat EXCEPT ![g] = "idle"]
           t == IF s.state[g] = Afraid THEN [s EXCEPT !.state = st, !.eat = et] ELSE s
           r == ResumeGhosts(t)
<1>2. PICK e \in Steps(game) : game' = [MovePacman(r, e) EXCEPT !.lock = FALSE]
  BY DEF EatGhost
<1>3. n \in [Ghosts -> 0 .. MaxTwins] /\ \A h \in Ghosts : n[h] = 0
  BY <1>1, PacmanAssumption DEF PacmanAssumption, EatingOne, State
<1> HIDE DEF n
<1>4. /\ s \in State /\ s.state = game.state /\ s.eat = game.eat /\ s.affraid = game.affraid
      /\ s.ghosting = game.ghosting /\ s.fresh = game.fresh /\ s.bubbles = game.bubbles
      /\ s.fruit = game.fruit /\ s.eatGhost = n /\ SameScore(s, game)
      /\ On(s) /\ s.lock /\ ~ s.dead /\ ~ s.killing /\ Due(s, 0, 0, 0) /\ s.flash = -1
      /\ NothingLost(s)
  BY <1>1, <1>3 DEF State, EatingOne, On, Due, NothingLost, SameScore
<1> HIDE DEF s
<1>5. /\ st \in [Ghosts -> {Normal, Afraid, Eaten}] /\ et \in [Ghosts -> Timers]
      /\ \A h \in Ghosts : /\ st[h] = IF h = g THEN Eaten ELSE game.state[h]
                           /\ et[h] = IF h = g THEN "idle" ELSE game.eat[h]
  BY <1>4 DEF State, Timers
<1> HIDE DEF st, et
<1>6. t = [s EXCEPT !.state = st, !.eat = et]
  BY <1>1, <1>4 DEF EatingOne
<1>7. /\ t \in State /\ t.state = st /\ t.eat = et /\ t.affraid = game.affraid
      /\ t.ghosting = game.ghosting /\ t.fresh = game.fresh /\ t.bubbles = game.bubbles
      /\ t.fruit = game.fruit /\ t.eatGhost = n /\ SameScore(t, game)
      /\ On(t) /\ t.lock /\ ~ t.dead /\ ~ t.killing /\ Due(t, 0, 0, 0) /\ t.flash = -1
      /\ NothingLost(t)
  BY <1>4, <1>5, <1>6 DEF State, On, Due, NothingLost, SameScore
<1> HIDE DEF t
<1>8. GhostsAre(t, FALSE, "idle")
  <2>1. game.ghosting \in [Ghosts -> BOOLEAN]
    BY DEF State
  <2> QED
    BY <1>1, <1>3, <1>5, <1>7, <2>1 DEF EatingOne, GhostsAre, Afraid, Eaten
<1>9. Playing(t, FALSE)
  BY <1>3, <1>7, <1>8 DEF Playing, NoEating
<1>10. /\ r \in State /\ Playing(r, TRUE) /\ NothingLost(r) /\ r.lock /\ SameScore(r, t)
       /\ r.fresh = t.fresh /\ r.bubbles = t.bubbles /\ r.fruit = t.fruit
  <2>1. r.fresh = t.fresh /\ r.bubbles = t.bubbles /\ r.fruit = t.fruit
    BY <1>7 DEF State, ResumeGhosts, MoveGhosts
  <2>2. r \in State
    BY <1>7, GhostsGoOn DEF Follows
  <2> QED
    BY <1>7, <1>9, <2>1, <2>2, ResumeMode, OthersScore
<1> HIDE DEF r
<1> DEFINE m == MovePacman(r, e)
<1>11. e \in Steps(r)
  BY <1>7, <1>10, SameSteps
<1>12. m \in State /\ Gains(m, r) /\ Stepped(m, TRUE, TRUE)
  BY <1>10, <1>11, MoveTyped, MoveGains, MoveMode DEF Follows
<1> HIDE DEF m
<1>13. game' = [m EXCEPT !.lock = FALSE]
  BY <1>2 DEF m
<1>14. Gains(game', game) /\ game'.clash = m.clash /\ ~ game'.lock
  BY <1>7, <1>10, <1>12, <1>13 DEF State, Gains, SameScore
<1>15. CASE m.clash
  BY <1>1, <1>14, <1>15
<1>16. CASE ~ m.clash
  <2>1. NothingLost(m) /\ Playing(m, TRUE)
    BY <1>12, <1>16 DEF Stepped
  <2>2. NothingLost(game') /\ Playing(game', TRUE)
    BY <1>12, <1>13, <2>1 DEF State, Playing, On, Due, NoEating, GhostsAre, NothingLost
  <2> QED
    BY <1>1, <1>14, <2>2 DEF Play
<1> QED
  BY <1>15, <1>16

(* A level that is won is followed by the next one.                         *)
LEMMA NextLevelMode ==
  ASSUME NEW s \in State, On(s), ~ s.times, s.fruit = "null", s.flash = -1, NoEating(s),
         Due(s, 0, 0, 0), NothingLost(s)
  PROVE  /\ GetReady(NextLevel(s)) /\ NothingLost(NextLevel(s))
         /\ NextLevel(s).lifes = s.lifes
         /\ NextLevel(s).level = IF s.level < MaxLevel THEN s.level + 1 ELSE s.level
<1> DEFINE t == ResetGhosts(ResetPacman(s))
           n == Least(t.level + 1, MaxLevel)
           u == [t EXCEPT !.level = n, !.bubbles = NumBubbles]
<1>1. NextLevel(s) = Ready(u)
  BY DEF NextLevel
<1>2. t \in State /\ SameRest(t, s) /\ ~ t.dead /\ ~ t.moving /\ ~ t.killing /\ t.fresh
      /\ Still(t) /\ Calm(t)
  BY ResetLeads
<1> HIDE DEF t
<1>3. /\ NumBubbles \in 0 .. NumBubbles /\ n \in 1 .. MaxLevel
      /\ n = IF s.level < MaxLevel THEN s.level + 1 ELSE s.level
  BY <1>2, PacmanAssumption DEF PacmanAssumption, Least, State, SameRest, SameScore
<1> HIDE DEF n
<1>4. /\ u \in State /\ On(u) /\ ~ u.times /\ u.fruit = "null" /\ u.flash = -1 /\ NoEating(u)
      /\ Due(u, 0, 0, 0) /\ NothingLost(u) /\ ~ u.dead /\ ~ u.moving /\ ~ u.killing /\ u.fresh
      /\ Still(u) /\ Calm(u) /\ u.lifes = s.lifes /\ u.level = n
  <2>1. u \in State
    BY <1>2, <1>3 DEF State
  <2>2. /\ On(t) /\ ~ t.times /\ t.fruit = "null" /\ t.flash = -1 /\ NoEating(t)
        /\ Due(t, 0, 0, 0) /\ NothingLost(t) /\ t.lifes = s.lifes
    BY <1>2 DEF SameRest, SameScore, On, NoEating, Due, NothingLost
  <2> QED
    BY <1>2, <2>1, <2>2 DEF State, On, NoEating, Due, NothingLost, Still, Calm
<1> HIDE DEF u
<1>5. Twin(u.go) = 1
  BY <1>4, PacmanAssumption DEF PacmanAssumption, Due, Twin, Least
<1> QED
  BY <1>1, <1>3, <1>4, <1>5
  DEF Ready, GetReady, AtStart, State, On, NoEating, Due, NothingLost, Still, Calm

(* The flashing goes on, or the next level begins.                          *)
Wins ==
  /\ Won(game) /\ NothingLost(game')
  /\ game'.lifes = game.lifes
  /\ \/ Won(game') /\ game'.level = game.level
     \/ /\ GetReady(game')
        /\ game'.level = IF game.level < MaxLevel THEN game.level + 1 ELSE game.level

(* The interval of a level that is won.                                     *)
LEMMA FlashLeads == ASSUME game \in State, Modes(game), Flash PROVE Wins
<1>1. Won(game) /\ NothingLost(game)
  <2>1. game.flash # -1
    BY DEF Flash
  <2>2. ~ Home(game) /\ ~ Over(game) /\ ~ GetReady(game) /\ ~ Held(game) /\ ~ Dying(game)
        /\ ~ Retrying(game) /\ ~ Playing(game, TRUE) /\ \A g \in Ghosts : ~ EatingOne(game, g)
    BY <2>1 DEF AtStart, Dead, Home, Over, GetReady, Held, Dying, Retrying, EatingOne, Playing
  <2> QED
    BY <2>2 DEF Modes
<1> DEFINE t == [game EXCEPT !.flash = -1, !.lock = FALSE]
           f == [game EXCEPT !.flash = @ + 1]
<1>2. game.flash # -1 /\ game' = IF game.flash + 1 > Flashes THEN NextLevel(t) ELSE f
  BY DEF Flash
<1>3. /\ t \in State /\ On(t) /\ ~ t.times /\ t.fruit = "null" /\ t.flash = -1 /\ NoEating(t)
      /\ Due(t, 0, 0, 0) /\ NothingLost(t) /\ SameScore(t, game)
  <2>1. -1 \in -1 .. Flashes
    BY PacmanAssumption DEF PacmanAssumption
  <2>2. On(game) /\ ~ game.times /\ game.fruit = "null" /\ NoEating(game) /\ Due(game, 0, 0, 0)
    BY <1>1, <1>2 DEF Won
  <2>3. t \in State
    BY <2>1 DEF State
  <2> QED
    BY <1>1, <2>2, <2>3 DEF State, On, NoEating, Due, NothingLost, SameScore
<1> HIDE DEF t
<1>4. Won(f) /\ NothingLost(f) /\ SameScore(f, game)
  <2>1. game.flash + 1 # -1
    BY PacmanAssumption, <1>2 DEF PacmanAssumption, State
  <2> QED
    BY <1>1, <1>2, <2>1
    DEF Won, State, On, NoEating, Due, NothingLost, SameScore, Still, Calm
<1> HIDE DEF f
<1>5. CASE game.flash + 1 > Flashes
  BY <1>1, <1>2, <1>3, <1>5, NextLevelMode DEF Wins, SameScore
<1>6. CASE ~ (game.flash + 1 > Flashes)
  BY <1>1, <1>2, <1>4, <1>6 DEF Wins, SameScore
<1> QED
  BY <1>5, <1>6

(* The timeout of a level that is won: the flashing begins.                 *)
LEMMA PrepareLeads == ASSUME game \in State, Modes(game), Prepare PROVE Wins
<1>1. Won(game) /\ NothingLost(game) /\ game.prepare > 0
  <2>1. game.prepare > 0 /\ game.prepare # 0
    BY DEF Prepare, State
  <2>2. ~ Home(game) /\ ~ Over(game) /\ ~ GetReady(game) /\ ~ Held(game) /\ ~ Dying(game)
        /\ ~ Retrying(game) /\ ~ Playing(game, TRUE) /\ \A g \in Ghosts : ~ EatingOne(game, g)
    BY <2>1 DEF Due, Home, Over, GetReady, Held, Dying, Retrying, EatingOne, Playing
  <2> QED
    BY <2>1, <2>2 DEF Modes
<1>2. Due(game, 0, 0, 1) /\ game.flash = -1
  BY <1>1 DEF Won, Due
<1> DEFINE s == [game EXCEPT !.prepare = @ - 1]
           f == [s EXCEPT !.flash = 0]
<1>3. s.flash = -1
  BY <1>2 DEF State
<1>4. /\ s \in State /\ On(s) /\ s.lock /\ ~ s.dead /\ ~ s.killing /\ ~ s.moving /\ ~ s.times
      /\ s.fruit = "null" /\ Still(s) /\ Calm(s) /\ NoEating(s) /\ Due(s, 0, 0, 0)
      /\ NothingLost(s) /\ SameScore(s, game)
  <2>1. game.prepare - 1 \in 0 .. MaxTwins /\ game.prepare - 1 = 0
    BY <1>2, PacmanAssumption DEF PacmanAssumption, Due
  <2> QED
    BY <1>1, <1>2, <2>1 DEF Won, State, On, NoEating, Due, NothingLost, SameScore, Still, Calm
<1>5. game' = f
  <2>1. game' = CASE s.flash = -1 -> f
                  [] s.flash + 1 > Flashes -> NextLevel([s EXCEPT !.flash = -1, !.lock = FALSE])
                  [] OTHER -> [s EXCEPT !.flash = @ + 1]
    BY DEF Prepare
  <2>2. ~ (s.flash + 1 > Flashes)
    BY <1>3, PacmanAssumption DEF PacmanAssumption
  <2> HIDE DEF s, f
  <2> QED
    BY <1>3, <2>1, <2>2
<1> HIDE DEF s
<1>6. Won(f) /\ NothingLost(f) /\ SameScore(f, game)
  BY <1>4 DEF Won, State, On, NoEating, Due, NothingLost, SameScore, Still, Calm
<1> QED
  BY <1>1, <1>5, <1>6 DEF Wins, SameScore

(* The timeout after a death: the level begins again.                       *)
LEMMA RetryLeads ==
  ASSUME game \in State, Modes(game), Retry
  PROVE  Retrying(game) /\ GetReady(game') /\ NothingLost(game') /\ SameScore(game', game)
<1>1. Retrying(game) /\ NothingLost(game)
  <2>1. game.retry # 0
    BY DEF Retry, State
  <2>2. ~ Home(game) /\ ~ Over(game) /\ ~ GetReady(game) /\ ~ Held(game) /\ ~ Dying(game)
        /\ ~ Won(game) /\ ~ Playing(game, TRUE) /\ \A g \in Ghosts : ~ EatingOne(game, g)
    BY <2>1 DEF Due, Home, Over, GetReady, Held, Dying, Won, EatingOne, Playing
  <2> QED
    BY <2>2 DEF Modes
<1> DEFINE s == [game EXCEPT !.retry = @ - 1]
           t == StopTimes(s)
           h == ResetGhosts(ResetPacman(t))
<1>2. /\ s \in State /\ On(s) /\ s.lock /\ s.flash = -1 /\ NoEating(s) /\ Due(s, 0, 0, 0)
      /\ NothingLost(s) /\ SameScore(s, game)
  <2>1. game.retry - 1 \in 0 .. MaxTwins /\ game.retry - 1 = 0
    BY <1>1, PacmanAssumption DEF PacmanAssumption, Retrying, Due
  <2> QED
    BY <1>1, <2>1 DEF Retrying, Dead, State, On, NoEating, Due, NothingLost, SameScore
<1>3. game' = Ready(h)
  BY DEF Retry, RetryGame
<1> HIDE DEF s
<1>4. /\ t \in State /\ On(t) /\ t.flash = -1 /\ NoEating(t) /\ Due(t, 0, 0, 0)
      /\ NothingLost(t) /\ ~ t.times /\ t.fruit = "null" /\ SameScore(t, game)
  BY <1>2, TimesStop DEF On, NoEating, Due, NothingLost, SameScore
<1> HIDE DEF t
<1>5. /\ h \in State /\ On(h) /\ ~ h.dead /\ ~ h.moving /\ ~ h.killing /\ h.fresh
      /\ ~ h.times /\ h.fruit = "null" /\ h.flash = -1 /\ NoEating(h) /\ Due(h, 0, 0, 0)
      /\ NothingLost(h) /\ Still(h) /\ Calm(h) /\ SameScore(h, game)
  BY <1>4, ResetLeads DEF SameRest, On, Due, NoEating, NothingLost, SameScore
<1> HIDE DEF h
<1>6. Twin(h.go) = 1
  BY <1>5, PacmanAssumption DEF PacmanAssumption, Due, Twin, Least
<1> QED
  BY <1>1, <1>3, <1>5, <1>6
  DEF Ready, GetReady, AtStart, State, On, NoEating, Due, NothingLost, Still, Calm, SameScore

(* The fruit comes and goes in the modes in which it has a time.            *)
LEMMA FruitLeads ==
  ASSUME game \in State, Modes(game), FruitAppears \/ FruitOver
  PROVE  /\ NothingLost(game') /\ SameScore(game', game)
         /\ \/ Play(game) /\ Play(game')
            \/ \E g \in Ghosts : EatingOne(game, g) /\ EatingOne(game', g)
<1>1. NothingLost(game) /\ ~ game.home /\ ~ game.gameover
      /\ (Play(game) \/ \E g \in Ghosts : EatingOne(game, g))
  <2>1. NothingLost(game) /\ (game.times \/ game.fruit = "live")
    BY DEF Modes, NothingLost, FruitAppears, FruitOver, State
  <2>2. ~ Home(game) /\ ~ Over(game) /\ ~ GetReady(game) /\ ~ Held(game) /\ ~ Dying(game)
        /\ ~ Retrying(game) /\ ~ Won(game)
    BY <2>1 DEF AtStart, Dead, Home, Over, GetReady, Held, Dying, Retrying, Won
  <2> QED
    BY <2>1, <2>2 DEF Modes, Play, Playing, EatingOne, On
<1>2. PICK f \in Timers : game' = [game EXCEPT !.fruit = f]
  <2>1. game.fruitLost = 0
    BY <1>1 DEF NothingLost
  <2>2. FruitAppears => game' = [game EXCEPT !.fruit = "live"]
    BY DEF FruitAppears
  <2>3. FruitOver => game' = [game EXCEPT !.fruit = "null"]
    BY <2>1 DEF FruitOver
  <2> QED
    BY <2>2, <2>3 DEF Timers
<1>3. NothingLost(game') /\ SameScore(game', game)
  BY <1>1, <1>2 DEF NothingLost, State, SameScore
<1>4. Play(game) => Play(game')
  BY <1>2 DEF State, Play, Playing, On, Due, NoEating, GhostsAre
<1>5. \A g \in Ghosts : EatingOne(game, g) => EatingOne(game', g)
  BY <1>2 DEF State, EatingOne, On, Due, GhostsAre
<1> QED
  BY <1>1, <1>3, <1>4, <1>5

(* A fright or a rest that is over ends while the game is played.           *)
LEMMA OverLeads ==
  ASSUME game \in State, Modes(game), NEW g \in Ghosts, AffraidOver(g) \/ EatOver(g)
  PROVE  Play(game) /\ Play(game') /\ NothingLost(game') /\ SameScore(game', game)
<1>1. NothingLost(game) /\ (game.affraid[g] = "live" \/ game.eat[g] = "live")
  BY DEF Modes, NothingLost, AffraidOver, EatOver
<1>2. Play(game)
  <2>1. ~ Calm(game) /\ ~ GhostsAre(game, FALSE, "idle")
    BY <1>1 DEF Calm, GhostsAre
  <2>2. ~ Home(game) /\ ~ Over(game) /\ ~ GetReady(game) /\ ~ Held(game) /\ ~ Dying(game)
        /\ ~ Retrying(game) /\ ~ Won(game) /\ \A h \in Ghosts : ~ EatingOne(game, h)
    BY <2>1 DEF AtStart, Dead, Home, Over, GetReady, Held, Dying, Retrying, Won, EatingOne
  <2> QED
    BY <2>2 DEF Modes, Play
<1>3. CASE AffraidOver(g)
  <2>1. game.affraid[g] = "live" /\ game' = Calmed([game EXCEPT !.affraid[g] = "idle"], g)
    BY <1>1, <1>3 DEF AffraidOver, NothingLost
  <2>2. game.state[g] = Afraid
    BY <1>2, <2>1 DEF Play, Playing, GhostsAre
  <2> DEFINE a == [game.affraid EXCEPT ![g] = "null"]
             st == [game.state EXCEPT ![g] = Normal]
             gh == [game.ghosting EXCEPT ![g] = TRUE]
  <2>3. game' = [game EXCEPT !.affraid = a, !.state = st, !.ghosting = gh]
    <3>1. "idle" # "null" /\ [game EXCEPT !.affraid[g] = "idle"].state[g] = Afraid
          /\ [game EXCEPT !.affraid[g] = "idle"].affraid[g] = "idle"
      BY <2>2 DEF State
    <3>2. game' = [[game EXCEPT !.affraid[g] = "idle"] EXCEPT
                     !.affraid[g] = "null", !.state[g] = Normal, !.ghosting[g] = TRUE]
      BY <2>1, <3>1 DEF Calmed
    <3> QED
      BY <3>2 DEF State
  <2>4. \A h \in Ghosts : /\ a[h] = IF h = g THEN "null" ELSE game.affraid[h]
                          /\ st[h] = IF h = g THEN Normal ELSE game.state[h]
                          /\ gh[h] = IF h = g THEN TRUE ELSE game.ghosting[h]
    BY DEF State
  <2>5. gh \in [Ghosts -> BOOLEAN]
    BY DEF State
  <2> HIDE DEF a, st, gh
  <2>6. /\ game'.state = st /\ game'.affraid = a /\ game'.ghosting = gh
        /\ game'.eat = game.eat /\ game'.eatGhost = game.eatGhost
    BY <2>3 DEF State
  <2>7. /\ On(game') /\ ~ game'.dead /\ ~ game'.killing /\ Due(game', 0, 0, 0)
        /\ game'.flash = -1 /\ NoEating(game') /\ ~ game'.lock
        /\ NothingLost(game') /\ SameScore(game', game)
    BY <1>1, <1>2, <2>3
    DEF State, Play, Playing, On, Due, NoEating, NothingLost, SameScore
  <2>8. GhostsAre(game', TRUE, "live")
    <3>1. game.ghosting \in [Ghosts -> BOOLEAN] /\ GhostsAre(game, TRUE, "live")
      BY <1>2 DEF State, Play, Playing
    <3>2. \A h \in Ghosts : gh[h] = TRUE
      BY <3>1 DEF GhostsAre, gh
    <3> DEFINE on == "live"
    <3>3. ASSUME NEW h \in Ghosts
          PROVE  /\ game'.affraid[h] = IF game'.state[h] = Afraid /\ game'.eatGhost[h] = 0
                                       THEN on ELSE "null"
                 /\ game'.eat[h] = IF game'.state[h] = Eaten THEN on ELSE "null"
      <4>1. /\ game.affraid[h] = IF game.state[h] = Afraid /\ game.eatGhost[h] = 0
                                 THEN on ELSE "null"
            /\ game.eat[h] = IF game.state[h] = Eaten THEN on ELSE "null"
        BY <3>1 DEF GhostsAre
      <4> HIDE DEF on
      <4>2. CASE h = g
        <5>1. Normal # Afraid /\ Normal # Eaten /\ Afraid # Eaten
          BY DEF Normal, Afraid, Eaten
        <5>2. /\ st[g] = Normal /\ a[g] = "null"
          BY <2>4
        <5> QED
          BY <2>2, <2>6, <4>1, <4>2, <5>1, <5>2
      <4>3. CASE h # g
        BY <2>4, <2>6, <4>1, <4>3
      <4> QED
        BY <4>2, <4>3
    <3> QED
      BY <2>6, <3>2, <3>3 DEF GhostsAre
  <2> QED
    BY <1>2, <2>7, <2>8 DEF Play, Playing
<1>4. CASE EatOver(g)
  <2>1. game.eat[g] = "live" /\ game' = Revived([game EXCEPT !.eat[g] = "idle"], g)
    BY <1>1, <1>4 DEF EatOver, NothingLost
  <2>2. game.state[g] = Eaten
    BY <1>2, <2>1 DEF Play, Playing, GhostsAre
  <2> DEFINE q == [game EXCEPT !.eat[g] = "idle"]
             a == [game.eat EXCEPT ![g] = "null"]
             st == [game.state EXCEPT ![g] = Normal]
             gh == [game.ghosting EXCEPT ![g] = TRUE]
  <2>3. game' = [game EXCEPT !.eat = a, !.state = st, !.ghosting = gh]
    <3>1. q.state[g] = Eaten /\ q.eat[g] = "idle" /\ q.eatLost = game.eatLost
      BY <2>2 DEF State
    <3>2. game' = [q EXCEPT !.eatLost[g] = Lost(@, q.eat[g]), !.eat[g] = "null",
                            !.state[g] = Normal, !.ghosting[g] = TRUE]
      BY <2>1, <3>1 DEF Revived
    <3>3. Lost(q.eatLost[g], q.eat[g]) = q.eatLost[g]
      BY <3>1 DEF Lost
    <3>4. [q.eatLost EXCEPT ![g] = Lost(@, q.eat[g])] = game.eatLost
      BY <3>1, <3>3 DEF State
    <3>5. game' = [q EXCEPT !.eatLost = game.eatLost, !.eat = [q.eat EXCEPT ![g] = "null"],
                            !.state = [q.state EXCEPT ![g] = Normal],
                            !.ghosting = [q.ghosting EXCEPT ![g] = TRUE]]
      <4> DEFINE l == [q.eatLost EXCEPT ![g] = Lost(@, q.eat[g])]
      <4>1. game' = [q EXCEPT !.eatLost = l, !.eat[g] = "null",
                              !.state[g] = Normal, !.ghosting[g] = TRUE]
        BY <3>2
      <4>2. l = game.eatLost
        BY <3>4
      <4> HIDE DEF l, q
      <4> QED
        BY <4>1, <4>2
    <3>6. /\ [q.eat EXCEPT ![g] = "null"] = a /\ q.state = game.state
          /\ q.ghosting = game.ghosting
      BY DEF State
    <3>7. game' = [q EXCEPT !.eatLost = game.eatLost, !.eat = a, !.state = st, !.ghosting = gh]
      <4> HIDE DEF q, a
      <4> QED
        BY <3>5, <3>6
    <3> HIDE DEF a, st, gh
    <3> QED
      BY <3>7 DEF State
  <2>4. \A h \in Ghosts : /\ a[h] = IF h = g THEN "null" ELSE game.eat[h]
                          /\ st[h] = IF h = g THEN Normal ELSE game.state[h]
                          /\ gh[h] = IF h = g THEN TRUE ELSE game.ghosting[h]
    BY DEF State
  <2>5. gh \in [Ghosts -> BOOLEAN]
    BY DEF State
  <2> HIDE DEF a, st, gh
  <2>6. /\ game'.state = st /\ game'.eat = a /\ game'.ghosting = gh
        /\ game'.affraid = game.affraid /\ game'.eatGhost = game.eatGhost
    BY <2>3 DEF State
  <2>7. /\ On(game') /\ ~ game'.dead /\ ~ game'.killing /\ Due(game', 0, 0, 0)
        /\ game'.flash = -1 /\ NoEating(game') /\ ~ game'.lock
        /\ NothingLost(game') /\ SameScore(game', game)
    BY <1>1, <1>2, <2>3
    DEF State, Play, Playing, On, Due, NoEating, NothingLost, SameScore
  <2>8. GhostsAre(game', TRUE, "live")
    <3>1. game.ghosting \in [Ghosts -> BOOLEAN] /\ GhostsAre(game, TRUE, "live")
      BY <1>2 DEF State, Play, Playing
    <3>2. \A h \in Ghosts : gh[h] = TRUE
      BY <3>1 DEF GhostsAre, gh
    <3> DEFINE on == "live"
    <3>3. ASSUME NEW h \in Ghosts
          PROVE  /\ game'.affraid[h] = IF game'.state[h] = Afraid /\ game'.eatGhost[h] = 0
                                       THEN on ELSE "null"
                 /\ game'.eat[h] = IF game'.state[h] = Eaten THEN on ELSE "null"
      <4>1. /\ game.affraid[h] = IF game.state[h] = Afraid /\ game.eatGhost[h] = 0
                                 THEN on ELSE "null"
            /\ game.eat[h] = IF game.state[h] = Eaten THEN on ELSE "null"
        BY <3>1 DEF GhostsAre
      <4> HIDE DEF on
      <4>2. CASE h = g
        <5>1. Normal # Afraid /\ Normal # Eaten /\ Afraid # Eaten
          BY DEF Normal, Afraid, Eaten
        <5>2. /\ st[g] = Normal /\ a[g] = "null"
          BY <2>4
        <5> QED
          BY <2>2, <2>6, <4>1, <4>2, <5>1, <5>2
      <4>3. CASE h # g
        BY <2>4, <2>6, <4>1, <4>3
      <4> QED
        BY <4>2, <4>3
    <3> QED
      BY <2>6, <3>2, <3>3 DEF GhostsAre
  <2> QED
    BY <1>2, <2>7, <2>8 DEF Play, Playing
<1> QED
  BY <1>3, <1>4

(* A ghost that starts again at the border of the tunnel changes no mode    *)
(* in which ghosts move.                                                    *)
LEMMA BorderMode ==
  ASSUME NEW s \in State, NEW g \in Ghosts
  PROVE  LET t == [s EXCEPT !.ghosting[g] = TRUE]
         IN  /\ t.clash = s.clash /\ SameScore(t, s) /\ (NothingLost(s) => NothingLost(t))
             /\ (Play(s) => Play(t)) /\ (Dying(s) => Dying(t)) /\ (Retrying(s) => Retrying(t))
<1> DEFINE gh == [s.ghosting EXCEPT ![g] = TRUE]
           t == [s EXCEPT !.ghosting = gh]
<1>1. t.clash = s.clash /\ SameScore(t, s) /\ (NothingLost(s) => NothingLost(t))
  BY DEF State, SameScore, NothingLost
<1>2. ASSUME Play(s) PROVE Play(t)
  <2>1. gh = s.ghosting
    BY <1>2 DEF State, Play, Playing, GhostsAre
  <2>2. t = s
    BY <2>1 DEF State
  <2> QED
    BY <1>2, <2>2
<1> HIDE DEF gh
<1>3. ASSUME Dead(s) PROVE Dead(t)
  BY <1>3 DEF State, Dead, On, Calm, NoEating
<1>4. t.killing = s.killing /\ t.go = s.go /\ t.retry = s.retry /\ t.prepare = s.prepare
  BY DEF State
<1>5. (Dying(s) => Dying(t)) /\ (Retrying(s) => Retrying(t))
  <2> HIDE DEF t
  <2> QED
    BY <1>3, <1>4 DEF Dying, Retrying, Due
<1> QED
  BY <1>1, <1>2, <1>5 DEF gh

(* A ghost that moves meets Pacman while the game is played; after he has   *)
(* died it can only meet him once more.                                     *)
LEMMA GhostTickLeads ==
  ASSUME game \in State, Modes(game), NEW g \in Ghosts, GhostTick(g)
  PROVE  /\ Gains(game', game) /\ (Play(game) \/ Dying(game) \/ Retrying(game))
         /\ game'.clash \/ ( /\ NothingLost(game')
                             /\ \/ Play(game) /\ Encounter(game')
                                \/ Dying(game) /\ Dying(game') /\ SameScore(game', game)
                                \/ Retrying(game) /\ Retrying(game') /\ SameScore(game', game) )
<1>1. NothingLost(game) /\ (Play(game) \/ Dying(game) \/ Retrying(game))
  <2>1. ~ Still(game) /\ ~ GhostsAre(game, FALSE, "idle")
    <3>1. game.ghosting[g] = TRUE
      BY DEF GhostTick, State
    <3> QED
      BY <3>1 DEF Still, GhostsAre
  <2>2. ~ Home(game) /\ ~ Over(game) /\ ~ GetReady(game) /\ ~ Held(game) /\ ~ Won(game)
        /\ \A h \in Ghosts : ~ EatingOne(game, h)
    BY <2>1 DEF AtStart, Home, Over, GetReady, Held, Won, EatingOne
  <2> QED
    BY <2>2 DEF Modes, Play
<1>2. PICK e : /\ e.near \in SUBSET Ghosts /\ (\A h \in e.near : h = g)
               /\ \E s \in {game, TestGhostsPacman(game, e)}, border \in BOOLEAN :
                    game' = IF border /\ s.state[g] = Normal
                            THEN [s EXCEPT !.ghosting[g] = TRUE] ELSE s
  <2>1. \A x : Meets("none", {g}, FALSE, x).near = {g}
    BY DEF Meets
  <2>2. PICK contact \in BOOLEAN, border \in BOOLEAN, x \in {"none", "ghost"} :
          LET s == IF contact THEN TestGhostsPacman(game, Meets("none", {g}, FALSE, x)) ELSE game
          IN  game' = IF border /\ s.state[g] = Normal THEN [s EXCEPT !.ghosting[g] = TRUE] ELSE s
    BY DEF GhostTick
  <2> DEFINE e == Meets("none", {g}, FALSE, x)
             s == IF contact THEN TestGhostsPacman(game, e) ELSE game
  <2>3. s \in {game, TestGhostsPacman(game, e)} /\ border \in BOOLEAN
        /\ game' = IF border /\ s.state[g] = Normal THEN [s EXCEPT !.ghosting[g] = TRUE] ELSE s
    BY <2>2
  <2>4. e.near \in SUBSET Ghosts /\ \A h \in e.near : h = g
    BY <2>1
  <2> HIDE DEF s, e
  <2> QED
    BY <2>3, <2>4
<1>3. PICK s \in {game, TestGhostsPacman(game, e)}, border \in BOOLEAN :
        game' = IF border /\ s.state[g] = Normal THEN [s EXCEPT !.ghosting[g] = TRUE] ELSE s
  BY <1>2
<1>4. s \in State /\ Gains(s, game)
  BY <1>3, GhostsTyped, GhostsGain DEF Follows, GainsFor, Gains
<1>5. s.clash \/ ( /\ NothingLost(s)
                   /\ \/ Play(game) /\ (Play(s) \/ Dying(s) \/ EatingOne(s, g))
                      \/ Dying(game) /\ s = game
                      \/ Retrying(game) /\ s = game )
  <2>1. CASE s = game
    BY <1>1, <2>1
  <2>2. CASE s = TestGhostsPacman(game, e) /\ Play(game)
    <3>1. Playing(game, TRUE) /\ game.lock = FALSE
      BY <2>2 DEF Play, State
    <3>2. s.clash \/ ( /\ NothingLost(s)
                       /\ \/ Playing(s, TRUE) /\ s.lock = game.lock
                          \/ Dying(s) \/ \E h \in e.near : EatingOne(s, h) )
      BY <1>1, <1>2, <2>2, <3>1, GhostsMode
    <3> QED
      BY <1>2, <2>2, <3>1, <3>2 DEF Play
  <2>3. CASE s = TestGhostsPacman(game, e) /\ (Dying(game) \/ Retrying(game))
    <3>1. game.lock /\ Calm(game)
      BY <2>3 DEF Dying, Retrying, Dead
    <3> QED
      BY <1>1, <1>2, <2>3, <3>1, GhostsClash
  <2> QED
    BY <1>1, <1>3, <2>1, <2>2, <2>3
<1> DEFINE t == [s EXCEPT !.ghosting[g] = TRUE]
<1>6. /\ t.clash = s.clash /\ SameScore(t, s) /\ (NothingLost(s) => NothingLost(t))
      /\ (Play(s) => Play(t)) /\ (Dying(s) => Dying(t)) /\ (Retrying(s) => Retrying(t))
  BY <1>4, BorderMode
<1>7. game' = s \/ (game' = t /\ s.state[g] = Normal)
  BY <1>3
<1>8. EatingOne(s, g) => s.state[g] # Normal
  BY DEF EatingOne, Normal, Afraid
<1> HIDE DEF t
<1>9. Gains(game', game)
  BY <1>4, <1>6, <1>7 DEF Gains, SameScore
<1>10. game'.clash = s.clash
  BY <1>6, <1>7
<1>11. CASE game'.clash
  BY <1>1, <1>9, <1>11
<1>12. CASE ~ game'.clash
  BY <1>1, <1>5, <1>6, <1>7, <1>8, <1>9, <1>10, <1>12 DEF Encounter, SameScore
<1> QED
  BY <1>11, <1>12

-----------------------------------------------------------------------------
(* The modes are kept *)

(* Until it clashes a game is in a mode, and every step leads to a mode.    *)
LEMMA ModesKept ==
  ASSUME TypeOK, InMode, [Next]_game, ~ game'.clash
  PROVE  Modes(game')
<1>1. game \in State /\ ~ game.clash /\ Modes(game)
  BY NextTyped DEF TypeOK, State, InMode
<1>2. CASE UNCHANGED game
  BY <1>1, <1>2
<1>3. ASSUME NothingLost(game'), Encounter(game')
      PROVE  Modes(game')
  BY <1>3 DEF Modes, Encounter, Play
<1>4. ASSUME Key PROVE Modes(game')
  <2>1. CASE KeyStart
    BY <1>1, <2>1, StartLeads DEF Modes
  <2>2. CASE KeyRestart
    BY <1>1, <2>2, NeverRestarts
  <2>3. CASE KeyArrow
    BY <1>1, <1>3, <2>3, ArrowLeads
  <2>4. CASE KeyPause
    BY <1>1, <2>4, PauseLeads DEF Modes
  <2>5. CASE KeyResume
    BY <1>1, <2>5, ResumeLeads DEF Modes, Play
  <2>6. CASE KeyHome
    BY <1>1, <2>6, HomeLeads DEF Modes
  <2> QED
    BY <1>4, <2>1, <2>2, <2>3, <2>4, <2>5, <2>6 DEF Key
<1>5. ASSUME Callback PROVE Modes(game')
  <2>1. CASE PacmanTick
    BY <1>1, <1>3, <2>1, ArrowLeads
  <2>2. CASE KillingPacman
    BY <1>1, <2>2, KillingLeads DEF Modes
  <2>3. CASE Flash
    BY <1>1, <2>3, FlashLeads DEF Modes, Wins
  <2>4. CASE FruitAppears \/ FruitOver
    BY <1>1, <2>4, FruitLeads DEF Modes, Play
  <2>5. CASE Go
    BY <1>1, <2>5, GoLeads DEF Modes, Play
  <2>6. CASE Retry
    BY <1>1, <2>6, RetryLeads DEF Modes
  <2>7. CASE Prepare
    BY <1>1, <2>7, PrepareLeads DEF Modes, Wins
  <2>8. ASSUME NEW g \in Ghosts, GhostTick(g) PROVE Modes(game')
    BY <1>1, <1>3, <2>8, GhostTickLeads DEF Modes
  <2>9. ASSUME NEW g \in Ghosts, EatGhost(g) PROVE Modes(game')
    BY <1>1, <2>9, EatGhostLeads DEF Modes, Play
  <2>10. ASSUME NEW g \in Ghosts, AffraidOver(g) \/ EatOver(g) PROVE Modes(game')
    BY <1>1, <2>10, OverLeads DEF Modes, Play
  <2> QED
    BY <1>5, <2>1, <2>2, <2>3, <2>4, <2>5, <2>6, <2>7, <2>8, <2>9, <2>10 DEF Callback
<1> QED
  BY <1>2, <1>4, <1>5 DEF Next

-----------------------------------------------------------------------------
(* What set the lock left something that will clear it; this needs no mode, *)
(* and holds also when two encounters have met.                             *)

(* What the lock hangs on is the same.                                      *)
SameLock(t, s) ==
  /\ t.lock = s.lock /\ t.home = s.home /\ t.gameover = s.gameover
  /\ t.go = s.go /\ t.retry = s.retry /\ t.prepare = s.prepare /\ t.flash = s.flash
  /\ t.eatGhost = s.eatGhost /\ t.killing = s.killing /\ t.moving = s.moving

(* A step that leaves these globals alone keeps what the lock awaits.       *)
LEMMA LockKept ==
  ASSUME NEW s, NEW t, SameLock(t, s)
  PROVE  (Awaited(s) <=> Awaited(t)) /\ (Unlocks(s) <=> Unlocks(t))
  BY DEF SameLock, Unlocks, Awaited

(* ready awaits its timeout.                                                *)
LEMMA ReadyUnlocks == ASSUME NEW s \in State PROVE Unlocks(Ready(s))
<1>1. Twin(s.go) > 0
  BY TwinTyped DEF State
<1> QED
  BY <1>1 DEF Ready, State, Unlocks, Awaited

(* win awaits its timeout.                                                  *)
LEMMA WinUnlocks == ASSUME NEW s \in State PROVE Unlocks(Win(s))
<1> DEFINE t == StopTimes(StopGhosts(StopPacman(s)))
<1>1. t \in State
  BY PacmanStops, GhostsStop, TimesTyped DEF Follows
<1>2. Win(s) = [t EXCEPT !.lock = TRUE, !.prepare = Twin(@), !.clash = @ \/ s.lock]
  BY DEF Win
<1> HIDE DEF t
<1>3. Twin(t.prepare) > 0
  BY <1>1, TwinTyped DEF State
<1>4. Win(s).prepare > 0
  BY <1>1, <1>2, <1>3 DEF State
<1> QED
  BY <1>4 DEF Unlocks, Awaited

(* killPacman awaits its interval.                                          *)
LEMMA KillUnlocks == ASSUME NEW s \in State PROVE Unlocks(KillPacman(s))
<1> DEFINE a == StopPacman(s)
           b == StopGhosts(a)
           t == PauseTimes(b)
<1>1. t \in State /\ ~ t.moving
  <2>1. a \in State /\ ~ a.moving
    <3>1. a \in State
      BY PacmanStops DEF Follows
    <3> QED
      BY <3>1 DEF StopPacman, State
  <2> HIDE DEF a
  <2>2. b \in State /\ ~ b.moving
    BY <2>1, GhostsStop DEF Follows, StopGhosts, State
  <2> HIDE DEF b
  <2> QED
    BY <2>2, TimesTyped DEF Follows, PauseTimes, State
<1>2. KillPacman(s) = [t EXCEPT !.lock = TRUE, !.dead = TRUE, !.killing = TRUE,
                                !.clash = @ \/ s.lock]
  BY DEF KillPacman
<1> HIDE DEF t
<1>3. KillPacman(s).killing /\ ~ KillPacman(s).moving
  BY <1>1, <1>2 DEF State
<1> QED
  BY <1>3 DEF Unlocks

(* startEatGhost awaits its timeout.                                        *)
LEMMA EatUnlocks ==
  ASSUME NEW s \in State, NEW g \in Ghosts, NEW e, Unlocks(s)
  PROVE  Unlocks(StartEatGhost(s, g, e))
<1>1. CASE s.lock
  BY <1>1 DEF StartEatGhost
<1>2. CASE ~ s.lock
  <2> DEFINE u == [s EXCEPT !.lock = TRUE, !.affraid[g] = "null"]
             t == Score(u, e, "ghost")
             v == PausePacman(PauseGhosts(t))
             w == StartEatGhost(s, g, e)
  <2>1. "null" \in Timers /\ [s.affraid EXCEPT ![g] = "null"] \in [Ghosts -> Timers]
    BY DEF State, Timers
  <2>2. u \in State
    BY <2>1 DEF State
  <2>3. w = [v EXCEPT !.combo = Least(@ + 1, NumGhosts + 1), !.eatGhost[g] = Twin(@)]
    BY <1>2 DEF StartEatGhost
  <2> HIDE DEF u
  <2>4. v \in State
    BY <2>2, ScoreTyped, GhostsStop, PacmanStops DEF Follows
  <2> HIDE DEF v, w
  <2>5. Twin(v.eatGhost[g]) > 0
    BY <2>4, TwinTyped DEF State
  <2>6. w.eatGhost[g] = Twin(v.eatGhost[g])
    BY <2>3, <2>4 DEF State
  <2>7. Unlocks(w)
    BY <2>5, <2>6 DEF Unlocks, Awaited
  <2> QED
    BY <2>7 DEF w
<1> QED
  BY <1>1, <1>2

(* So the ghosts that are near set no lock that nothing clears.             *)
LEMMA GhostsUnlock ==
  ASSUME NEW s \in State, NEW e, e.near \in SUBSET Ghosts, Unlocks(s)
  PROVE  Unlocks(TestGhostsPacman(s, e))
<1> DEFINE kills == { g \in e.near : s.state[g] = Normal }
           eaten == { g \in e.near : s.state[g] = Afraid /\ \A k \in kills : g < k }
           g == CHOOSE x \in eaten : \A h \in eaten : x <= h
           t == IF eaten = {} THEN s ELSE StartEatGhost(s, g, e)
<1>1. TestGhostsPacman(s, e) = IF kills = {} THEN t ELSE KillPacman(t)
  BY DEF TestGhostsPacman
<1>2. eaten # {} => g \in Ghosts
  <2>1. eaten \in SUBSET Ghosts
    OBVIOUS
  <2>2. eaten # {} => g \in eaten
    BY <2>1, FirstGhost
  <2> HIDE DEF g, eaten
  <2> QED
    BY <2>1, <2>2
<1> HIDE DEF kills, eaten, g
<1>3. t \in State /\ Unlocks(t)
  BY <1>2, StartEatTyped, EatUnlocks DEF Follows
<1> HIDE DEF t
<1> QED
  BY <1>1, <1>3, KillUnlocks

(* Nor does a bubble.                                                       *)
LEMMA BubblesUnlock ==
  ASSUME NEW s \in State, NEW e, Meeting(e), e.bite # "none" => s.bubbles > 0, Unlocks(s)
  PROVE  Unlocks(TestBubblesPacman(s, e))
<1>1. CASE e.bite = "none"
  BY <1>1 DEF TestBubblesPacman
<1>2. CASE e.bite # "none"
  <2> DEFINE scored == Score(s, e, "bubble")
             u == IF e.bite = "super" THEN AffraidGhosts(scored) ELSE scored
             t == [u EXCEPT !.bubbles = @ - 1]
  <2>1. scored \in State /\ SameLock(scored, s) /\ scored.bubbles = s.bubbles
    <3>1. scored \in State
      BY ScoreTyped DEF Follows
    <3> QED
      BY <3>1 DEF Score, State, SameLock
  <2>2. TestBubblesPacman(s, e) = IF t.bubbles = 0 THEN Win(t) ELSE t
    BY <1>2 DEF TestBubblesPacman
  <2> HIDE DEF scored
  <2>3. u \in State /\ SameLock(u, scored) /\ u.bubbles = s.bubbles
    <3>1. AffraidGhosts(scored).bubbles = scored.bubbles
          /\ SameLock(AffraidGhosts(scored), scored)
      BY <2>1 DEF AffraidGhosts, State, SameLock
    <3>2. AffraidGhosts(scored) \in State
      BY <2>1, AffraidTyped DEF Follows
    <3> QED
      BY <2>1, <3>1, <3>2 DEF SameLock
  <2> HIDE DEF u
  <2>4. u.bubbles - 1 \in 0 .. NumBubbles
    <3>1. s.bubbles \in 0 .. NumBubbles /\ NumBubbles \in Nat
      BY PacmanAssumption DEF PacmanAssumption, State
    <3> QED
      BY <1>2, <2>3, <3>1
  <2>5. t \in State /\ SameLock(t, u)
    BY <2>3, <2>4 DEF State, SameLock
  <2> HIDE DEF t
  <2>6. Unlocks(t)
    BY <2>1, <2>3, <2>5, LockKept
  <2> QED
    BY <2>2, <2>5, <2>6, WinUnlocks
<1> QED
  BY <1>1, <1>2

(* Pacman may be moved while a timeout is awaited, but not while he dies.   *)
LEMMA MoveUnlocks ==
  ASSUME NEW s \in State, NEW e \in Steps(s) \union {SameWay},
         s.lock /\ ~ s.home /\ ~ s.gameover => Awaited(s)
  PROVE  Unlocks(MovePacman(s, e))
<1> DEFINE t == [s EXCEPT !.moving = TRUE]
           u == [t EXCEPT !.fresh = FALSE]
           b == TestBubblesPacman(u, e)
           c == TestGhostsPacman(b, e)
           f == TestFruitsPacman(c, e)
<1>1. /\ t \in State /\ u \in State /\ u.bubbles = s.bubbles /\ Unlocks(t) /\ Unlocks(u)
      /\ Unlocks(StopPacman(t))
  <2>1. t \in State /\ u \in State /\ u.bubbles = s.bubbles
    BY DEF State
  <2>2. ASSUME NEW x \in {t, u, StopPacman(t)}
        PROVE  Unlocks(x)
    <3>1. /\ x.lock = s.lock /\ x.home = s.home /\ x.gameover = s.gameover
          /\ x.go = s.go /\ x.retry = s.retry /\ x.prepare = s.prepare /\ x.flash = s.flash
          /\ x.eatGhost = s.eatGhost
      BY <2>2 DEF State, StopPacman
    <3> QED
      BY <3>1 DEF Unlocks, Awaited
  <2> HIDE DEF t, u
  <2> QED
    BY <2>1, <2>2
<1>2. Meeting(e) /\ (e.bite # "none" => s.bubbles > 0) /\ ~ (e.idle /\ e.blocked)
  BY StepMeets
<1>3. MovePacman(s, e) = IF e.idle THEN t ELSE IF e.blocked THEN StopPacman(t) ELSE f
  <2> HIDE DEF t, f
  <2>1. MovePacman(s, e) = CASE e.idle -> t [] e.blocked -> StopPacman(t) [] OTHER -> f
    BY DEF MovePacman, t, f
  <2> QED
    BY <1>2, <2>1 DEF Meeting
<1> HIDE DEF t, u
<1>4. b \in State /\ Unlocks(b)
  BY <1>1, <1>2, BubblesTyped, BubblesUnlock DEF Follows
<1> HIDE DEF b
<1>5. c \in State /\ Unlocks(c)
  BY <1>2, <1>4, GhostsTyped, GhostsUnlock DEF Follows, Meeting
<1> HIDE DEF c
<1>6. Unlocks(f)
  <2> DEFINE v == Score(c, e, "fruit")
  <2>1. f = [v EXCEPT !.fruit = "null"] \/ f = c
    BY DEF TestFruitsPacman
  <2>2. v \in State
    BY <1>5, ScoreTyped DEF Follows
  <2>3. SameLock(v, c)
    BY <1>5 DEF Score, State, SameLock
  <2> HIDE DEF v, f
  <2>4. SameLock(f, c)
    BY <2>1, <2>2, <2>3 DEF State, SameLock
  <2> QED
    BY <1>5, <2>4, LockKept
<1> HIDE DEF f
<1> QED
  BY <1>1, <1>3, <1>6

(* No step takes away what the lock awaits while it is set.                 *)
LEMMA UnlocksKept ==
  ASSUME TypeOK, Unlocks(game), Next
  PROVE  Unlocks(game')
<1>1. game \in State /\ game' \in State
  BY NextTyped DEF TypeOK, State
<1>2. CASE KeyStart
  <2> DEFINE t == [game EXCEPT !.home = FALSE, !.gameover = FALSE, !.level = 1,
                               !.bubbles = NumBubbles]
  <2>1. NumBubbles \in 0 .. NumBubbles /\ 1 \in 1 .. MaxLevel
    BY PacmanAssumption DEF PacmanAssumption
  <2>2. t \in State
    BY <1>1, <2>1 DEF State
  <2>3. game' = Ready(t)
    BY <1>2 DEF KeyStart
  <2> HIDE DEF t
  <2> QED
    BY <2>2, <2>3, ReadyUnlocks
<1>3. CASE KeyRestart
  <2> DEFINE t == ResetGhosts(ResetPacman(game))
  <2>1. t \in State /\ ~ t.lock
    BY <1>1, <1>3, ResetLeads DEF KeyRestart, SameRest
  <2>2. game' = MoveGhosts(t)
    BY <1>3 DEF KeyRestart
  <2> HIDE DEF t
  <2> QED
    BY <2>1, <2>2 DEF MoveGhosts, State, Unlocks
<1>4. CASE KeyArrow
  BY <1>1, <1>4, MoveUnlocks DEF KeyArrow, Playable
<1>5. CASE KeyPause
  BY <1>1, <1>5
  DEF KeyPause, Playable, PauseGhosts, PausePacman, PauseTimes, State, Unlocks
<1>6. CASE KeyResume
  <2> DEFINE p == [game EXCEPT !.pause = FALSE]
             r == ResumeTimes(p)
  <2>1. /\ p \in State /\ ~ p.lock /\ p.fresh = game.fresh /\ p.bubbles = game.bubbles
        /\ p.fruit = game.fruit
    BY <1>1, <1>6 DEF KeyResume, Playable, State
  <2>2. PICK e \in Steps(game) :
          game' = ResumeGhosts([MovePacman(r, e) EXCEPT
                                  !.clash = @ \/ MovePacman(r, e).lock \/ e.bite = "super"])
    BY <1>6 DEF KeyResume
  <2> HIDE DEF p
  <2>3. /\ r \in State /\ ~ r.lock /\ r.fresh = p.fresh /\ r.bubbles = p.bubbles
        /\ (r.fruit = "null" <=> p.fruit = "null")
    <3>1. r \in State
      BY <2>1, TimesTyped DEF Follows
    <3> QED
      BY <2>1, <3>1 DEF State, ResumeTimes, Resumed
  <2> HIDE DEF r
  <2>4. e \in Steps(r)
    BY <2>1, <2>3, SameSteps
  <2> DEFINE s == MovePacman(r, e)
  <2>5. s \in State /\ Unlocks(s)
    BY <2>3, <2>4, MoveTyped, MoveUnlocks DEF Follows
  <2> HIDE DEF s
  <2>6. PICK c \in BOOLEAN : c = (s.clash \/ s.lock \/ e.bite = "super")
    OBVIOUS
  <2> DEFINE u == [s EXCEPT !.clash = c]
  <2>7. game' = ResumeGhosts(u)
    BY <2>2, <2>6, Zenon DEF s
  <2>8. u \in State /\ SameLock(u, s)
    BY <2>5 DEF State, SameLock
  <2> HIDE DEF u
  <2>9. SameLock(game', u)
    BY <2>7, <2>8 DEF ResumeGhosts, MoveGhosts, State, SameLock
  <2> QED
    BY <2>5, <2>8, <2>9, LockKept
<1>7. CASE KeyHome
  BY <1>1, <1>7 DEF KeyHome, State, Unlocks
<1>8. CASE PacmanTick
  BY <1>1, <1>8, MoveUnlocks DEF PacmanTick, Unlocks
<1>9. CASE KillingPacman
  <2> DEFINE s == [game EXCEPT !.killing = FALSE]
  <2>1. game' = IF s.lifes > 0 THEN [s EXCEPT !.lifes = @ - 1, !.retry = Twin(@)] ELSE Gameover(s)
    BY <1>9 DEF KillingPacman
  <2>2. s \in State
    BY <1>1 DEF State
  <2> HIDE DEF s
  <2>3. CASE s.lifes > 0
    <3>1. Twin(s.retry) > 0
      BY <2>2, TwinTyped DEF State
    <3>2. game'.retry > 0
      BY <2>1, <2>2, <2>3, <3>1 DEF State
    <3> QED
      BY <3>2 DEF Unlocks, Awaited
  <2>4. CASE ~ (s.lifes > 0)
    <3> DEFINE h == ResetGhosts(ResetPacman(StopTimes(s)))
    <3>1. h \in State
      BY <2>2, TimesStop, ResetLeads
    <3>2. game' = [h EXCEPT !.gameover = TRUE, !.lifes = 2, !.level = 1]
      BY <2>1, <2>4 DEF Gameover
    <3> HIDE DEF h
    <3> QED
      BY <3>1, <3>2 DEF State, Unlocks
  <2> QED
    BY <2>3, <2>4
<1>10. ASSUME NEW s \in State
       PROVE  Unlocks(NextLevel(s))
  <2> DEFINE t == ResetGhosts(ResetPacman(s))
             u == [t EXCEPT !.level = Least(@ + 1, MaxLevel), !.bubbles = NumBubbles]
  <2>1. NextLevel(s) = Ready(u)
    BY DEF NextLevel
  <2>2. t \in State
    BY ResetLeads
  <2> HIDE DEF t
  <2>3. NumBubbles \in 0 .. NumBubbles /\ Least(t.level + 1, MaxLevel) \in 1 .. MaxLevel
    BY <2>2, PacmanAssumption DEF PacmanAssumption, Least, State
  <2>4. u \in State
    BY <2>2, <2>3 DEF State
  <2> HIDE DEF u
  <2> QED
    BY <2>1, <2>4, ReadyUnlocks
<1>11. -1 \in -1 .. Flashes
  BY PacmanAssumption DEF PacmanAssumption
<1>12. CASE Flash
  <2> DEFINE t == [game EXCEPT !.flash = -1, !.lock = FALSE]
  <2>1. t \in State
    BY <1>1, <1>11 DEF State
  <2>2. game.flash # -1 /\ game' = IF game.flash + 1 > Flashes THEN NextLevel(t)
                                   ELSE [game EXCEPT !.flash = @ + 1]
    BY <1>12 DEF Flash
  <2> HIDE DEF t
  <2>3. game.flash + 1 # -1
    BY <1>1, PacmanAssumption DEF PacmanAssumption, State
  <2>4. [game EXCEPT !.flash = @ + 1].flash # -1
    BY <1>1, <2>3 DEF State
  <2> QED
    BY <1>10, <2>1, <2>2, <2>4 DEF Unlocks, Awaited
<1>13. CASE FruitAppears \/ FruitOver
  <2>1. SameLock(game', game)
    BY <1>1, <1>13 DEF FruitAppears, FruitOver, State, SameLock
  <2> QED
    BY <2>1, LockKept
<1>14. CASE Go
  <2> DEFINE t == [game EXCEPT !.go = @ - 1, !.lock = FALSE, !.times = TRUE]
  <2>1. game.go - 1 \in 0 .. MaxTwins
    BY <1>1, <1>14, PacmanAssumption DEF Go, PacmanAssumption, State
  <2>2. t \in State /\ ~ t.lock /\ t.fresh = game.fresh /\ t.bubbles = game.bubbles
        /\ t.fruit = game.fruit
    BY <1>1, <2>1 DEF State
  <2>3. PICK e \in Steps(game) : game' = MoveGhosts(MovePacman(t, e))
    BY <1>14 DEF Go
  <2> HIDE DEF t
  <2>4. e \in Steps(t)
    BY <2>2, SameSteps
  <2> DEFINE s == MovePacman(t, e)
  <2>5. s \in State /\ Unlocks(s)
    BY <2>2, <2>4, MoveTyped, MoveUnlocks DEF Follows
  <2> HIDE DEF s
  <2>6. SameLock(MoveGhosts(s), s)
    BY <2>5 DEF MoveGhosts, State, SameLock
  <2> QED
    BY <2>3, <2>5, <2>6, LockKept DEF s
<1>15. CASE Retry
  <2> DEFINE t == [game EXCEPT !.retry = @ - 1]
             h == ResetGhosts(ResetPacman(StopTimes(t)))
  <2>1. game.retry - 1 \in 0 .. MaxTwins
    BY <1>1, <1>15, PacmanAssumption DEF Retry, PacmanAssumption, State
  <2>2. t \in State
    BY <1>1, <2>1 DEF State
  <2>3. game' = Ready(h)
    BY <1>15 DEF Retry, RetryGame
  <2> HIDE DEF t
  <2>4. h \in State
    BY <2>2, TimesStop, ResetLeads
  <2> HIDE DEF h
  <2> QED
    BY <2>3, <2>4, ReadyUnlocks
<1>16. CASE Prepare
  <2> DEFINE s == [game EXCEPT !.prepare = @ - 1]
             t == [s EXCEPT !.flash = -1, !.lock = FALSE]
  <2>1. game.prepare - 1 \in 0 .. MaxTwins
    BY <1>1, <1>16, PacmanAssumption DEF Prepare, PacmanAssumption, State
  <2>2. s \in State
    BY <1>1, <2>1 DEF State
  <2>3. game' = CASE s.flash = -1 -> [s EXCEPT !.flash = 0]
                  [] s.flash + 1 > Flashes -> NextLevel(t)
                  [] OTHER -> [s EXCEPT !.flash = @ + 1]
    BY <1>16 DEF Prepare
  <2> HIDE DEF s
  <2>4. s.flash \in -1 .. Flashes /\ Flashes \in Nat
    BY <2>2, PacmanAssumption DEF PacmanAssumption, State
  <2>5. t \in State /\ [s EXCEPT !.flash = 0].flash = 0
        /\ [s EXCEPT !.flash = @ + 1].flash = s.flash + 1
    BY <1>11, <2>2 DEF State
  <2> HIDE DEF t
  <2>6. CASE s.flash = -1
    <3>1. ~ (s.flash + 1 > Flashes)
      BY <2>4, <2>6
    <3>2. game' = [s EXCEPT !.flash = 0]
      BY <2>3, <2>6, <3>1
    <3>3. game'.flash # -1
      BY <2>5, <3>2
    <3> QED
      BY <3>3 DEF Unlocks, Awaited
  <2>7. CASE s.flash # -1
    <3>1. s.flash + 1 # -1
      BY <2>4
    <3> QED
      BY <1>10, <2>3, <2>5, <2>7, <3>1 DEF Unlocks, Awaited
  <2> QED
    BY <2>6, <2>7
<1>17. ASSUME NEW g \in Ghosts, GhostTick(g)
       PROVE  Unlocks(game')
  <2>1. PICK contact \in BOOLEAN, border \in BOOLEAN, x \in {"none", "ghost"} :
          LET s == IF contact THEN TestGhostsPacman(game, Meets("none", {g}, FALSE, x)) ELSE game
          IN  game' = IF border /\ s.state[g] = Normal THEN [s EXCEPT !.ghosting[g] = TRUE] ELSE s
    BY <1>17 DEF GhostTick
  <2> DEFINE e == Meets("none", {g}, FALSE, x)
             s == IF contact THEN TestGhostsPacman(game, e) ELSE game
  <2>2. game' = s \/ game' = [s EXCEPT !.ghosting[g] = TRUE]
    BY <2>1
  <2>3. e.near \in SUBSET Ghosts
    BY DEF Meets
  <2> HIDE DEF e
  <2>4. s \in State /\ Unlocks(s)
    BY <1>1, <2>3, GhostsTyped, GhostsUnlock DEF Follows
  <2> HIDE DEF s
  <2>5. SameLock(game', s)
    BY <2>2, <2>4 DEF State, SameLock
  <2> QED
    BY <2>4, <2>5, LockKept
<1>18. ASSUME NEW g \in Ghosts, EatGhost(g)
       PROVE  Unlocks(game')
  <2>1. \E s : game' = [s EXCEPT !.lock = FALSE]
    BY <1>18 DEF EatGhost
  <2>2. PICK s : game' = [s EXCEPT !.lock = FALSE]
    BY <2>1
  <2>3. ~ game'.lock
    <3>1. DOMAIN game' = DOMAIN s /\ "lock" \in DOMAIN game'
      BY <1>1, <2>2 DEF State
    <3> QED
      BY <2>2, <3>1
  <2> QED
    BY <2>3 DEF Unlocks
<1>19. ASSUME NEW g \in Ghosts, AffraidOver(g) \/ EatOver(g)
       PROVE  Unlocks(game')
  <2>1. ASSUME NEW q, DOMAIN q = DOMAIN game
        PROVE  SameLock(Calmed(q, g), q) /\ SameLock(Revived(q, g), q)
    <3>1. SameLock(Calmed(q, g), q)
      BY <1>1, <2>1 DEF Calmed, State, SameLock
    <3>2. SameLock(Revived(q, g), q)
      BY <1>1, <2>1 DEF Revived, State, SameLock
    <3> QED
      BY <3>1, <3>2
  <2>2. PICK q : /\ DOMAIN q = DOMAIN game /\ SameLock(q, game)
                 /\ game' = Calmed(q, g) \/ game' = Revived(q, g)
    <3> DEFINE a == [game EXCEPT !.affraid[g] = "idle"]
               b == [game EXCEPT !.affraidLost[g] = @ - 1]
               c == [game EXCEPT !.eat[g] = "idle"]
               d == [game EXCEPT !.eatLost[g] = @ - 1]
    <3>1. game' \in {Calmed(a, g), Calmed(b, g), Revived(c, g), Revived(d, g)}
      BY <1>19 DEF AffraidOver, EatOver
    <3>2. /\ DOMAIN a = DOMAIN game /\ DOMAIN b = DOMAIN game
          /\ DOMAIN c = DOMAIN game /\ DOMAIN d = DOMAIN game
          /\ SameLock(a, game) /\ SameLock(b, game) /\ SameLock(c, game) /\ SameLock(d, game)
      BY <1>1 DEF State, SameLock
    <3> HIDE DEF a, b, c, d
    <3> QED
      BY <3>1, <3>2
  <2>3. SameLock(game', game)
    BY <2>1, <2>2 DEF SameLock
  <2> QED
    BY <2>3, LockKept
<1> QED
  BY <1>2, <1>3, <1>4, <1>5, <1>6, <1>7, <1>8, <1>9, <1>12, <1>13, <1>14, <1>15, <1>16, <1>17,
     <1>18, <1>19
  DEF Next, Key, Callback

-----------------------------------------------------------------------------
(* The page is loaded at home.                                              *)
LEMMA InitInv == Init => GameInv
<1> SUFFICES ASSUME Init PROVE GameInv
  OBVIOUS
<1>1. TypeOK
  BY PacmanAssumption
  DEF PacmanAssumption, Init, TypeOK, Normal, Afraid, Eaten, Timers, NoTimers, Resting, None
<1>2. Home(game) /\ NothingLost(game)
  BY DEF Init, Home, AtStart, Still, Calm, NoEating, Due, NothingLost, Normal, NoTimers, Resting,
         None
<1>3. Unlocks(game)
  BY <1>2 DEF Home, Unlocks
<1> QED
  BY <1>1, <1>2, <1>3 DEF GameInv, InMode, Modes

(* Every step keeps the invariant.                                          *)
LEMMA NextInv == GameInv /\ [Next]_game => GameInv'
<1> SUFFICES ASSUME GameInv, [Next]_game PROVE GameInv'
  OBVIOUS
<1>1. TypeOK'
  BY NextTyped DEF GameInv
<1>2. InMode'
  BY ModesKept DEF GameInv, InMode, Modes, NothingLost, Home, Over, GetReady, AtStart, Held, Dying,
         Retrying, Dead, Won, Playing, EatingOne, On, Due, Still, Calm, NoEating, GhostsAre
<1>3. Unlocks(game)'
  BY UnlocksKept DEF GameInv, Unlocks, Awaited
<1> QED
  BY <1>1, <1>2, <1>3 DEF GameInv

(* Until two encounters meet the game is in a mode, and its lock is always  *)
(* awaited.                                                                 *)
THEOREM GameInvariant == Spec => []GameInv
  BY InitInv, NextInv, PTL DEF Spec

(* The globals have their types, for any number of ghosts, bubbles and      *)
(* lifes.                                                                   *)
THEOREM GameTypeCorrect == Spec => []TypeOK
<1>1. GameInv => TypeOK
  BY DEF GameInv
<1> QED
  BY <1>1, GameInvariant, PTL

(* Until two encounters meet a ghost's timers go with its state, run        *)
(* exactly when it moves, and no timeout is lost.                           *)
THEOREM TimersGoWithTheirGhosts == Spec => []TimersAgree
<1>1. GameInv => TimersAgree
  <2> SUFFICES ASSUME GameInv, ~ game.clash PROVE TimersAgree
    BY DEF TimersAgree
  <2>1. Modes(game)
    BY DEF GameInv, InMode
  <2>2. NothingLost(game)
    BY <2>1 DEF Modes
  <2>3. ASSUME NEW g \in Ghosts
        PROVE  LET due(t) == IF game.ghosting[g] THEN "live" ELSE t
               IN  /\ game.affraid[g] = (IF game.state[g] = Afraid /\ game.eatGhost[g] = 0
                                         THEN due("idle") ELSE "null")
                   /\ game.eat[g] = (IF game.state[g] = Eaten THEN due("idle") ELSE "null")
    <3>1. CASE Calm(game)
      BY <3>1 DEF Calm, Normal, Afraid, Eaten
    <3>2. CASE GhostsAre(game, TRUE, "live")
      BY <3>2 DEF GhostsAre
    <3>3. CASE GhostsAre(game, FALSE, "idle")
      BY <3>3 DEF GhostsAre
    <3> QED
      BY <2>1, <3>1, <3>2, <3>3
      DEF Modes, Home, Over, GetReady, AtStart, Held, Dying, Retrying, Dead, Won, Playing, EatingOne
  <2> QED
    BY <2>2, <2>3 DEF TimersAgree, NothingLost
<1> QED
  BY <1>1, GameInvariant, PTL

(* A paused game stands still: nothing moves, no time runs and no callback  *)
(* is awaited.                                                              *)
THEOREM PausedGameIsFrozen == Spec => []Frozen
<1>1. GameInv => Frozen
  <2> SUFFICES ASSUME GameInv, ~ game.clash, game.pause PROVE Frozen
    BY DEF Frozen
  <2>1. Held(game)
    BY DEF GameInv, InMode, Modes, Home, Over, GetReady, AtStart, Dying, Retrying, Dead, Won,
           Playing, EatingOne, On
  <2>2. Pending(game) = {}
    BY <2>1 DEF Held, Pending, Due, NoEating
  <2>3. \A g \in Ghosts : ~ game.ghosting[g] /\ game.affraid[g] # "live" /\ game.eat[g] # "live"
    BY <2>1 DEF Held, GhostsAre
  <2> QED
    BY <2>1, <2>2, <2>3 DEF Held, Frozen
<1> QED
  BY <1>1, GameInvariant, PTL

(* What the lock awaits is pending.                                         *)
LEMMA NeverStuckHolds == GameInv => NeverStuck
<1> SUFFICES ASSUME GameInv, game.lock, ~ game.home, ~ game.gameover
             PROVE  Pending(game) # {}
  BY DEF NeverStuck
<1> DEFINE X(k, g) == [kind |-> k, ghost |-> g]
<1>1. 1 \in Ghosts
  BY PacmanAssumption DEF PacmanAssumption, Ghosts
<1>2. Awaited(game) \/ game.killing
  BY DEF GameInv, Unlocks
<1>3. CASE game.go > 0
  BY <1>1, <1>3, X("go", 1) \in Pending(game) DEF Pending
<1>4. CASE game.retry > 0
  BY <1>1, <1>4, X("retry", 1) \in Pending(game) DEF Pending
<1>5. CASE game.prepare > 0
  BY <1>1, <1>5, X("prepare", 1) \in Pending(game) DEF Pending
<1>6. CASE game.killing
  BY <1>1, <1>6, X("killing", 1) \in Pending(game) DEF Pending
<1>7. CASE game.flash # -1
  BY <1>1, <1>7, X("flash", 1) \in Pending(game) DEF Pending
<1>8. ASSUME NEW g \in Ghosts, game.eatGhost[g] > 0
      PROVE  Pending(game) # {}
  BY <1>8, X("eat", g) \in Pending(game) DEF Pending
<1> QED
  BY <1>2, <1>3, <1>4, <1>5, <1>6, <1>7, <1>8 DEF Awaited

(* A locked game has a callback on its way that will clear the lock, also   *)
(* after two encounters have met.                                           *)
THEOREM LockIsAlwaysAwaited == Spec => []NeverStuck
  BY NeverStuckHolds, GameInvariant, PTL

(* In each mode at most one callback is awaited.                            *)
THEOREM OneTimelineAtATime == Spec => []OneTimeline
<1>1. GameInv => OneTimeline
  <2> SUFFICES ASSUME GameInv, ~ game.clash PROVE OneTimeline
    BY DEF OneTimeline
  <2>1. game \in State /\ Modes(game) /\ Unlocks(game)
    BY DEF GameInv, InMode, TypeOK, State
  <2> DEFINE X(k, g) == [kind |-> k, ghost |-> g]
             Kinds == {"go", "retry", "prepare", "killing", "flash", "eat"}
  <2>2. ASSUME NEW x \in Pending(game)
        PROVE  /\ x.kind \in Kinds /\ x.ghost \in Ghosts /\ x = X(x.kind, x.ghost)
               /\ \/ x.kind = "eat" /\ game.eatGhost[x.ghost] > 0
                  \/ /\ x.ghost = 1
                     /\ \/ x.kind = "go" /\ game.go > 0
                        \/ x.kind = "retry" /\ game.retry > 0
                        \/ x.kind = "prepare" /\ game.prepare > 0
                        \/ x.kind = "killing" /\ game.killing
                        \/ x.kind = "flash" /\ game.flash # -1
    BY DEF Pending
  <2> DEFINE Only(k, h) == \A x \in Pending(game) : x = X(k, h)
  <2>3. CASE Home(game) \/ Over(game) \/ Held(game) \/ Play(game)
    <3>0. /\ Due(game, 0, 0, 0) /\ ~ game.killing /\ game.flash = -1 /\ NoEating(game)
      BY <2>3 DEF Home, Over, Held, Play, Playing, AtStart
    <3>1. Pending(game) = {}
      BY <2>2, <3>0 DEF Due, NoEating
    <3>2. ~ game.lock \/ game.gameover
      BY <2>3 DEF Home, Over, Held, Play
    <3> QED
      BY <3>1, <3>2 DEF OneTimeline
  <2>4. ASSUME game.lock, ~ game.home, ~ game.gameover, NEW k, NEW h, Only(k, h)
        PROVE  OneTimeline
    <3>1. Pending(game) # {}
      BY <2>4, NeverStuckHolds DEF NeverStuck
    <3> QED
      BY <2>4, <3>1 DEF OneTimeline
  <2>5. CASE GetReady(game)
    <3>1. Only("go", 1)
      BY <2>2, <2>5 DEF GetReady, AtStart, Due, NoEating
    <3> QED
      BY <2>4, <2>5, <3>1 DEF GetReady, On
  <2>6. CASE Dying(game)
    <3>1. Only("killing", 1)
      BY <2>2, <2>6 DEF Dying, Dead, Due, NoEating
    <3> QED
      BY <2>4, <2>6, <3>1 DEF Dying, Dead, On
  <2>7. CASE Retrying(game)
    <3>1. Only("retry", 1)
      BY <2>2, <2>7 DEF Retrying, Dead, Due, NoEating
    <3> QED
      BY <2>4, <2>7, <3>1 DEF Retrying, Dead, On
  <2>8. CASE Won(game) /\ game.flash = -1
    <3>1. Only("prepare", 1)
      BY <2>2, <2>8 DEF Won, Due, NoEating
    <3> QED
      BY <2>4, <2>8, <3>1 DEF Won, On
  <2>9. CASE Won(game) /\ game.flash # -1
    <3>1. Only("flash", 1)
      BY <2>2, <2>9 DEF Won, Due, NoEating
    <3> QED
      BY <2>4, <2>9, <3>1 DEF Won, On
  <2>10. ASSUME NEW g \in Ghosts, EatingOne(game, g)
         PROVE  OneTimeline
    <3>1. Only("eat", g)
      BY <2>2, <2>10 DEF EatingOne, Due
    <3> QED
      BY <2>4, <2>10, <3>1 DEF EatingOne, On
  <2> QED
    BY <2>1, <2>3, <2>5, <2>6, <2>7, <2>8, <2>9, <2>10 DEF Modes, Play
<1> QED
  BY <1>1, GameInvariant, PTL

-----------------------------------------------------------------------------
(* What the player is promised *)

(* Most callbacks meet nothing.                                             *)
LEMMA NoClash ==
  ASSUME game \in State,
         \/ KeyStart \/ KeyPause \/ KeyHome \/ KillingPacman \/ Flash \/ Prepare \/ Retry
         \/ FruitAppears \/ FruitOver
         \/ \E g \in Ghosts : AffraidOver(g) \/ EatOver(g)
  PROVE  game'.clash = game.clash
<1>1. CASE KeyStart
  BY <1>1 DEF KeyStart, Ready, State
<1>2. CASE KeyPause
  BY <1>2 DEF KeyPause, PauseGhosts, PausePacman, PauseTimes, State
<1>3. CASE KeyHome
  BY <1>3 DEF KeyHome, State
<1>4. CASE KillingPacman
  <2> DEFINE s == [game EXCEPT !.killing = FALSE]
             h == ResetGhosts(ResetPacman(StopTimes(s)))
  <2>1. s \in State /\ s.clash = game.clash
    BY DEF State
  <2>2. game' = IF s.lifes > 0 THEN [s EXCEPT !.lifes = @ - 1, !.retry = Twin(@)]
                ELSE [h EXCEPT !.gameover = TRUE, !.lifes = 2, !.level = 1]
    BY <1>4 DEF KillingPacman, Gameover
  <2> HIDE DEF s
  <2>3. h \in State /\ h.clash = game.clash
    BY <2>1, TimesStop, ResetLeads DEF SameRest
  <2> HIDE DEF h
  <2> QED
    BY <2>1, <2>2, <2>3 DEF State
<1>5. ASSUME NEW s \in State
      PROVE  NextLevel(s).clash = s.clash
  <2> DEFINE t == ResetGhosts(ResetPacman(s))
  <2>1. t \in State /\ t.clash = s.clash
    BY ResetLeads DEF SameRest
  <2>2. NextLevel(s) = Ready([t EXCEPT !.level = Least(@ + 1, MaxLevel), !.bubbles = NumBubbles])
    BY DEF NextLevel
  <2> HIDE DEF t
  <2> QED
    BY <2>1, <2>2 DEF Ready, State
<1>6. -1 \in -1 .. Flashes
  BY PacmanAssumption DEF PacmanAssumption
<1>7. CASE Flash
  <2> DEFINE t == [game EXCEPT !.flash = -1, !.lock = FALSE]
  <2>1. t \in State /\ t.clash = game.clash
    BY <1>6 DEF State
  <2>2. game' = NextLevel(t) \/ game' = [game EXCEPT !.flash = @ + 1]
    BY <1>7 DEF Flash
  <2> HIDE DEF t
  <2> QED
    BY <1>5, <2>1, <2>2 DEF State
<1>8. CASE Prepare
  <2> DEFINE s == [game EXCEPT !.prepare = @ - 1]
             t == [s EXCEPT !.flash = -1, !.lock = FALSE]
  <2>1. game.prepare - 1 \in 0 .. MaxTwins
    BY <1>8, PacmanAssumption DEF Prepare, PacmanAssumption, State
  <2>2. s \in State /\ s.clash = game.clash
    BY <2>1 DEF State
  <2>3. game' = CASE s.flash = -1 -> [s EXCEPT !.flash = 0]
                  [] s.flash + 1 > Flashes -> NextLevel(t)
                  [] OTHER -> [s EXCEPT !.flash = @ + 1]
    BY <1>8 DEF Prepare
  <2>4. game' \in {[s EXCEPT !.flash = 0], NextLevel(t), [s EXCEPT !.flash = @ + 1]}
    <3> HIDE DEF s, t
    <3> QED
      BY <2>3
  <2> HIDE DEF s
  <2>5. t \in State /\ t.clash = s.clash
    BY <1>6, <2>2 DEF State
  <2> HIDE DEF t
  <2> QED
    BY <1>5, <2>2, <2>4, <2>5 DEF State
<1>9. CASE Retry
  <2> DEFINE t == [game EXCEPT !.retry = @ - 1]
             h == ResetGhosts(ResetPacman(StopTimes(t)))
  <2>1. game.retry - 1 \in 0 .. MaxTwins
    BY <1>9, PacmanAssumption DEF Retry, PacmanAssumption, State
  <2>2. t \in State /\ t.clash = game.clash
    BY <2>1 DEF State
  <2>3. game' = Ready(h)
    BY <1>9 DEF Retry, RetryGame
  <2> HIDE DEF t
  <2>4. h \in State /\ h.clash = game.clash
    BY <2>2, TimesStop, ResetLeads DEF SameRest
  <2> HIDE DEF h
  <2> QED
    BY <2>3, <2>4 DEF Ready, State
<1>10. CASE FruitAppears \/ FruitOver
  BY <1>10 DEF FruitAppears, FruitOver, State
<1>11. ASSUME NEW g \in Ghosts, AffraidOver(g) \/ EatOver(g)
       PROVE  game'.clash = game.clash
  <2>1. ASSUME NEW q, DOMAIN q = DOMAIN game
        PROVE  Calmed(q, g).clash = q.clash /\ Revived(q, g).clash = q.clash
    <3>1. Calmed(q, g).clash = q.clash
      BY <2>1 DEF Calmed, State
    <3>2. Revived(q, g).clash = q.clash
      BY <2>1 DEF Revived, State
    <3> QED
      BY <3>1, <3>2
  <2>2. PICK q : /\ DOMAIN q = DOMAIN game /\ q.clash = game.clash
                 /\ game' = Calmed(q, g) \/ game' = Revived(q, g)
    <3> DEFINE a == [game EXCEPT !.affraid[g] = "idle"]
               b == [game EXCEPT !.affraidLost[g] = @ - 1]
               c == [game EXCEPT !.eat[g] = "idle"]
               d == [game EXCEPT !.eatLost[g] = @ - 1]
    <3>1. game' \in {Calmed(a, g), Calmed(b, g), Revived(c, g), Revived(d, g)}
      BY <1>11 DEF AffraidOver, EatOver
    <3>2. /\ DOMAIN a = DOMAIN game /\ DOMAIN b = DOMAIN game
          /\ DOMAIN c = DOMAIN game /\ DOMAIN d = DOMAIN game
          /\ a.clash = game.clash /\ b.clash = game.clash
          /\ c.clash = game.clash /\ d.clash = game.clash
      BY DEF State
    <3> HIDE DEF a, b, c, d
    <3> QED
      BY <3>1, <3>2
  <2> QED
    BY <2>1, <2>2
<1> QED
  BY <1>1, <1>2, <1>3, <1>4, <1>7, <1>8, <1>9, <1>10, <1>11

(* The phase of a game, and the one that each mode is.                      *)
PhaseOf(s) ==
  IF s.clash THEN "clash"
  ELSE IF s.home THEN "home"
  ELSE IF s.gameover THEN "over"
  ELSE IF s.killing THEN "dying"
  ELSE IF s.retry > 0 THEN "retrying"
  ELSE IF s.prepare > 0 \/ s.flash # -1 THEN "won"
  ELSE IF s.go > 0 THEN "ready"
  ELSE IF \E g \in Ghosts : s.eatGhost[g] > 0 THEN "eating"
  ELSE IF s.pause THEN "paused"
  ELSE "play"

(* Each mode is a phase of its own.                                         *)
LEMMA PhaseOfMode ==
  ASSUME NEW s, ~ s.clash
  PROVE  /\ (Home(s) => PhaseOf(s) = "home") /\ (Over(s) => PhaseOf(s) = "over")
         /\ (Dying(s) => PhaseOf(s) = "dying") /\ (Retrying(s) => PhaseOf(s) = "retrying")
         /\ (Won(s) => PhaseOf(s) = "won") /\ (GetReady(s) => PhaseOf(s) = "ready")
         /\ \A g \in Ghosts : EatingOne(s, g) => PhaseOf(s) = "eating"
         /\ (Held(s) => PhaseOf(s) = "paused") /\ (Play(s) => PhaseOf(s) = "play")
<1>1. Home(s) => PhaseOf(s) = "home"
  BY DEF PhaseOf, Home
<1>2. Over(s) => PhaseOf(s) = "over"
  BY DEF PhaseOf, Over
<1>3. Dying(s) => PhaseOf(s) = "dying"
  BY DEF PhaseOf, Dying, Dead, On
<1>4. Retrying(s) => PhaseOf(s) = "retrying"
  BY DEF PhaseOf, Retrying, Dead, On, Due
<1>5. Won(s) => PhaseOf(s) = "won"
  BY DEF PhaseOf, Won, On, Due
<1>6. GetReady(s) => PhaseOf(s) = "ready"
  BY DEF PhaseOf, GetReady, AtStart, On, Due
<1>7. ASSUME NEW g \in Ghosts, EatingOne(s, g)
      PROVE  PhaseOf(s) = "eating"
  <2>1. s.eatGhost[g] > 0
    BY <1>7 DEF EatingOne
  <2> QED
    BY <1>7, <2>1 DEF PhaseOf, EatingOne, On, Due
<1>8. NoEating(s) => ~ \E g \in Ghosts : s.eatGhost[g] > 0
  BY DEF NoEating
<1>9. Held(s) => PhaseOf(s) = "paused"
  BY <1>8 DEF PhaseOf, Held, Due
<1>10. Play(s) => PhaseOf(s) = "play"
  BY <1>8 DEF PhaseOf, Play, Playing, On, Due
<1> QED
  BY <1>1, <1>2, <1>3, <1>4, <1>5, <1>6, <1>7, <1>9, <1>10

(* Every step of the game is a step of the round, or changes nothing in     *)
(* it.                                                                      *)
LEMMA StepPlays ==
  ASSUME GameInv, [Next]_game
  PROVE  [Round!Next]_(Round!round)
<1>1. /\ game \in State /\ game' \in State /\ (game.clash => game'.clash)
      /\ (~ game.clash => Modes(game))
  BY NextTyped DEF GameInv, TypeOK, State, InMode
<1>2. Phase = PhaseOf(game) /\ Phase' = PhaseOf(game')
  BY DEF Phase, PhaseOf
<1>3. CASE UNCHANGED game
  BY <1>2, <1>3 DEF Round!round
<1> DEFINE p == PhaseOf(game)
           q == PhaseOf(game')
<1>4. ASSUME p \in {"play", "paused", "eating", "dying", "retrying", "clash"}, q = "clash"
      PROVE  Round!Next
  BY <1>2, <1>4 DEF Round!Next, Round!Clash, Round!Becomes
<1>5. CASE game.clash
  BY <1>1, <1>4, <1>5 DEF PhaseOf
<1>6. CASE ~ game.clash /\ Next
  <2>1. Modes(game)
    BY <1>1, <1>6
  <2>2. game'.clash => q = "clash"
    BY DEF PhaseOf
  <2> USE DEF Round!Next, Round!Becomes, Round!MayGain
  <2> HIDE DEF p, q
  <2>3. ASSUME p = "play", q \in {"play", "eating", "dying", "won"}, Gains(game', game)
        PROVE  Round!Next
    BY <1>2, <2>3 DEF Round!Play, Gains, p, q
  <2>4. ASSUME p = q, SameScore(game', game)
        PROVE  UNCHANGED Round!round
    BY <1>2, <2>4 DEF Round!round, SameScore, p, q
  <2>5. /\ (Home(game) => p = "home") /\ (Over(game) => p = "over")
        /\ (Dying(game) => p = "dying") /\ (Retrying(game) => p = "retrying")
        /\ (Won(game) => p = "won") /\ (GetReady(game) => p = "ready")
        /\ \A g \in Ghosts : EatingOne(game, g) => p = "eating"
        /\ (Held(game) => p = "paused") /\ (Play(game) => p = "play")
    BY <1>6, PhaseOfMode DEF p
  <2>6. ~ game'.clash =>
          /\ (Home(game') => q = "home") /\ (Over(game') => q = "over")
          /\ (Dying(game') => q = "dying") /\ (Retrying(game') => q = "retrying")
          /\ (Won(game') => q = "won") /\ (GetReady(game') => q = "ready")
          /\ \A g \in Ghosts : EatingOne(game', g) => q = "eating"
          /\ (Held(game') => q = "paused") /\ (Play(game') => q = "play")
    BY PhaseOfMode DEF q
  <2>7. CASE KeyStart
    <3>1. p = "home" /\ q = "ready" /\ game'.lifes = game.lifes /\ game'.level = 1
      BY <1>1, <1>6, <2>1, <2>5, <2>6, <2>7, StartLeads, NoClash
    <3> QED
      BY <1>2, <3>1 DEF Round!Start, p, q
  <2>8. CASE KeyRestart
    BY <2>1, <2>8, NeverRestarts
  <2>9. CASE KeyArrow \/ PacmanTick
    <3>1. p = "play" /\ Gains(game', game)
          /\ (q = "clash" \/ q \in {"play", "eating", "dying", "won"})
      BY <1>1, <2>1, <2>2, <2>5, <2>6, <2>9, ArrowLeads DEF Encounter
    <3> QED
      BY <1>4, <2>3, <3>1 DEF p, q
  <2>10. CASE KeyPause
    <3>1. p = "play" /\ q = "paused" /\ SameScore(game', game)
      BY <1>1, <1>6, <2>1, <2>5, <2>6, <2>10, PauseLeads, NoClash
    <3> QED
      BY <1>2, <3>1 DEF Round!Pause, SameScore, p, q
  <2>11. CASE KeyResume
    <3>1. p = "paused" /\ Gains(game', game) /\ (q = "clash" \/ q = "play")
      BY <1>1, <2>1, <2>2, <2>5, <2>6, <2>11, ResumeLeads
    <3>2. CASE q = "clash"
      BY <1>4, <3>1, <3>2 DEF p, q
    <3>3. CASE q = "play"
      BY <1>2, <3>1, <3>3 DEF Round!Resume, Gains, p, q
    <3> QED
      BY <3>1, <3>2, <3>3
  <2>12. CASE KeyHome
    <3>1. p = "over" /\ q = "home" /\ SameScore(game', game)
      BY <1>1, <1>6, <2>1, <2>5, <2>6, <2>12, HomeLeads, NoClash
    <3> QED
      BY <1>2, <3>1 DEF Round!Leave, SameScore, p, q
  <2>13. CASE KillingPacman
    <3>1. /\ p = "dying"
          /\ \/ /\ q = "retrying" /\ game.lifes > 0
                /\ game'.lifes = game.lifes - 1 /\ game'.level = game.level
             \/ q = "over" /\ game.lifes = 0 /\ game'.lifes = 2 /\ game'.level = 1
      BY <1>1, <1>6, <2>1, <2>5, <2>6, <2>13, KillingLeads, NoClash
    <3> QED
      BY <1>2, <3>1 DEF Round!Die, p, q
  <2>14. CASE Flash \/ Prepare
    <3>1. Wins
      BY <1>1, <2>1, <2>14, FlashLeads, PrepareLeads
    <3>2. ~ game'.clash
      BY <1>1, <1>6, <2>14, NoClash
    <3>3. p = "won"
      BY <2>5, <3>1 DEF Wins
    <3>4. CASE Won(game') /\ game'.level = game.level
      <4>1. q = "won" /\ SameScore(game', game)
        BY <2>6, <3>1, <3>2, <3>4 DEF Wins, SameScore
      <4> QED
        BY <2>4, <3>3, <4>1
    <3>5. CASE /\ GetReady(game')
               /\ game'.level = IF game.level < MaxLevel THEN game.level + 1 ELSE game.level
      <4>1. q = "ready" /\ game'.lifes = game.lifes
        BY <2>6, <3>1, <3>2, <3>5 DEF Wins
      <4> QED
        BY <1>2, <3>3, <3>5, <4>1 DEF Round!NextLevel, p, q
    <3> QED
      BY <3>1, <3>4, <3>5 DEF Wins
  <2>15. CASE FruitAppears \/ FruitOver
    <3>1. p = q /\ SameScore(game', game)
      BY <1>1, <1>6, <2>1, <2>5, <2>6, <2>15, FruitLeads, NoClash
    <3> QED
      BY <2>4, <3>1
  <2>16. CASE Go
    <3>1. p = "ready" /\ q = "play" /\ SameScore(game', game)
      BY <1>1, <1>6, <2>1, <2>5, <2>6, <2>16, GoLeads
    <3> QED
      BY <1>2, <3>1 DEF Round!Begin, SameScore, p, q
  <2>17. CASE Retry
    <3>1. p = "retrying" /\ q = "ready" /\ SameScore(game', game)
      BY <1>1, <1>6, <2>1, <2>5, <2>6, <2>17, RetryLeads, NoClash
    <3> QED
      BY <1>2, <3>1 DEF Round!Again, SameScore, p, q
  <2>18. ASSUME NEW g \in Ghosts, GhostTick(g)
         PROVE  [Round!Next]_(Round!round)
    <3>1. Gains(game', game) /\ p \in {"play", "dying", "retrying"}
      BY <1>1, <2>1, <2>5, <2>18, GhostTickLeads
    <3>2. \/ q = "clash"
          \/ p = "play" /\ q \in {"play", "eating", "dying", "won"}
          \/ p = q /\ SameScore(game', game)
      BY <1>1, <2>1, <2>2, <2>5, <2>6, <2>18, GhostTickLeads DEF Encounter
    <3> QED
      BY <1>4, <2>3, <2>4, <3>1, <3>2 DEF p, q
  <2>19. ASSUME NEW g \in Ghosts, EatGhost(g)
         PROVE  Round!Next
    <3>1. p = "eating" /\ Gains(game', game) /\ (q = "clash" \/ q = "play")
      BY <1>1, <2>1, <2>2, <2>5, <2>6, <2>19, EatGhostLeads
    <3>2. CASE q = "clash"
      BY <1>4, <3>1, <3>2 DEF p, q
    <3>3. CASE q = "play"
      BY <1>2, <3>1, <3>3 DEF Round!Eat, Gains, p, q
    <3> QED
      BY <3>1, <3>2, <3>3
  <2>20. ASSUME NEW g \in Ghosts, AffraidOver(g) \/ EatOver(g)
         PROVE  UNCHANGED Round!round
    <3>1. p = q /\ SameScore(game', game)
      BY <1>1, <1>6, <2>1, <2>5, <2>6, <2>20, OverLeads, NoClash
    <3> QED
      BY <2>4, <3>1
  <2> HIDE DEF Round!Next, Round!Becomes, Round!MayGain
  <2> QED
    BY <1>6, <2>7, <2>8, <2>9, <2>10, <2>11, <2>12, <2>13, <2>14, <2>15, <2>16, <2>17, <2>18,
       <2>19, <2>20
    DEF Next, Key, Callback
<1> QED
  BY <1>3, <1>5, <1>6

(* The game is the round that the player is promised: one life for each     *)
(* death, one level for each win, the end when no life is left, and a       *)
(* pause that changes nothing.                                              *)
THEOREM GameImplementsRound == Spec => PlaysByTheRules
<1>1. Init => Round!Init
  BY DEF Init, Round!Init, Phase
<1>2. GameInv /\ [Next]_game => [Round!Next]_(Round!round)
  BY StepPlays
<1> QED
  BY <1>1, <1>2, GameInvariant, PTL DEF Spec, PlaysByTheRules, Round!Spec
=============================================================================
