----------------------------- MODULE PacmanMaze -----------------------------
(***************************************************************************)
(* The maze of streaming-pacman and how Pacman and a ghost move in it: the *)
(* paths, the door of the ghosts' house, the tunnel, the turn that Pacman  *)
(* tries and keeps trying, and the bubbles he eats on his way.             *)
(*                                                                         *)
(* who is the one that moves.  Pacman is steered by keys at any time; a    *)
(* ghost's random number lets it try any direction, whatever its           *)
(* character, unless it has been eaten and goes home.  PacmanGame says     *)
(* when they move; here a step may come at any time.                       *)
(***************************************************************************)
EXTENDS Integers

(* paths.js: the corridors, from one end to the other                       *)
PATHS == {
  <<128,416, 422,416>>, <<30,98, 518,98>>, <<2,258, 186,258>>, <<362,258, 548,258>>,
  <<186,204, 362,204>>, <<186,310, 362,310>>, <<30,522, 518,522>>, <<238,258, 314,258>>,
  <<276,204, 276,258>>, <<128,26, 128,470>>, <<30,26, 244,26>>, <<30,26, 30,150>>,
  <<30,150, 128,150>>, <<244,26, 244,98>>, <<186,204, 186,364>>, <<30,364, 244,364>>,
  <<244,364, 244,416>>, <<30,364, 30,416>>, <<30,416, 70,416>>, <<70,416, 70,470>>,
  <<30,470, 128,470>>, <<30,470, 30,522>>, <<244,150, 244,204>>, <<186,150, 244,150>>,
  <<186,98, 186,150>>, <<244,470, 244,522>>, <<186,470, 244,470>>, <<186,416, 186,470>>,
  <<422,26, 422,470>>, <<304,26, 518,26>>, <<518,26, 518,150>>, <<304,26, 304,98>>,
  <<422,150, 518,150>>, <<362,204, 362,364>>, <<304,364, 518,364>>, <<304,364, 304,416>>,
  <<518,364, 518,416>>, <<480,416, 518,416>>, <<480,416, 480,470>>, <<422,470, 518,470>>,
  <<518,470, 518,522>>, <<304,150, 304,204>>, <<304,150, 362,150>>, <<362,98, 362,150>>,
  <<304,470, 304,522>>, <<304,470, 362,470>>, <<362,416, 362,470>> }

(* The places on them; steps and starts are even.                           *)
Even(a, b) == { i \in a .. b : i % 2 = 0 }

Track ==
  UNION { { << x, y >> : x \in Even(p[1], p[3]), y \in Even(p[2], p[4]) } : p \in PATHS }

Door == << 276, 204 >>

(* The way down from the door, and the room below                           *)
House == { p \in Track : p[1] \in 238 .. 314 /\ p[2] \in 205 .. 258 }

VARIABLES who,     \* "pacman" or "ghost"
          pos,     \* where it is
          dir,     \* where it heads
          try,     \* PACMAN_DIRECTION_TRY
          mouth,   \* PACMAN_MOUNTH_STATE
          state,   \* the ghost: 0 normal, 1 afraid, -1 eaten
          eaten,   \* bubbles close to Pacman that he has eaten
          under    \* bubbles he has been on and not eaten

vars == << who, pos, dir, try, mouth, state, eaten, under >>

Right == 1
Down == 2
Left == 3
Up == 4
Directions == {Right, Down, Left, Up}

Moved(p, d, by) ==
  CASE d = Right -> << p[1] + by, p[2] >>
    [] d = Down -> << p[1], p[2] + by >>
    [] d = Left -> << p[1] - by, p[2] >>
    [] d = Up -> << p[1], p[2] - by >>

(* Both ends of the tunnel are one place.                                   *)
Tunnelled(p) ==
  CASE p = << 2, 258 >> -> << 548, 258 >>
    [] p = << 548, 258 >> -> << 2, 258 >>
    [] OTHER -> p

-----------------------------------------------------------------------------
(* bubbles.js.  A bubble is its line and its column.                        *)

(* canAddBubble: where the walls are, as lines and columns                  *)
Walls == {
  << (1 .. 4) \union (9 .. 10) \union (20 .. 22) \union (26 .. 28), 13 .. 14 >>,
  << (2 .. 4) \union (21 .. 22),
     (2 .. 5) \union (7 .. 11) \union (16 .. 20) \union (22 .. 25) >>,
  << 6 .. 7, (2 .. 5) \union (7 .. 8) \union (10 .. 17) \union (19 .. 20)
             \union (22 .. 25) >>,
  << {8}, (7 .. 8) \union (13 .. 14) \union (19 .. 20) >>,
  << 9 .. 19, (1 .. 5) \union (22 .. 26) >>,
  << {11, 17}, 7 .. 20 >>,
  << {9, 10}, {12, 15} >>,
  << (12 .. 13) \union (15 .. 16), {9, 18} >>,
  << {14}, (7 .. 9) \union (18 .. 20) >>,
  << {18, 19}, {9, 18} >>,
  << 9 .. 10, (7 .. 11) \union (16 .. 20) >>,
  << (11 .. 13) \union (15 .. 19), (7 .. 8) \union (19 .. 20) >>,
  << (12 .. 16) \union (18 .. 19), 10 .. 17 >>,
  << {23}, (4 .. 5) \union (22 .. 23) >>,
  << 24 .. 25, (1 .. 2) \union (4 .. 5) \union (7 .. 8) \union (10 .. 17)
               \union (19 .. 20) \union (22 .. 23) \union (25 .. 26) >>,
  << {26}, (7 .. 8) \union (19 .. 20) >>,
  << 27 .. 28, (2 .. 11) \union (16 .. 25) >> }

CanAddBubble(line, bubble) == \A w \in Walls : line \notin w[1] \/ bubble \notin w[2]

(* x, in hundredths, as the loop adds 19.52 to it.  The sum of floats that  *)
(* the last column gets is just below 518; exact, it would not be drawn.    *)
ColumnX(bubble) == 3000 + (bubble - 1) * 1952 - (IF bubble = 26 THEN 1 ELSE 0)

CorrectionX(bubble) ==
  CASE bubble \in {3, 6, 15, 18, 26} -> 1
    [] bubble \in {21, 24} -> 2
    [] OTHER -> 0

YFromLine(line) ==
  CASE line < 8 -> 26 + (line - 1) * 18
    [] line \in 8 .. 14 -> 150 + (line - 8) * 18
    [] line \in 15 .. 20 -> 256 + (line - 14) * 18
    [] line \in 21 .. 25 -> 362 + (line - 20) * 18
    [] line \in 26 .. 28 -> 452 + (line - 25) * 18
    [] OTHER -> 522

(* BUBBLES_ARRAY, in the order in which drawBubbles fills it                *)
Bubbles ==
  UNION { { [line |-> l, bubble |-> b] :
              b \in { c \in 1 .. 26 : ColumnX(c) < 51800 /\ CanAddBubble(l, c) } }
          : l \in 1 .. 29 }

Place ==
  [b \in Bubbles |->
     << (ColumnX(b.bubble) + 100 * CorrectionX(b.bubble)) \div 100,
        YFromLine(b.line) >>]

Before(a, b) == a.line < b.line \/ (a.line = b.line /\ a.bubble <= b.bubble)

(* The bubbles from back to ahead of a place, on both axes                  *)
Around(p, back, ahead) ==
  { b \in Bubbles : /\ Place[b][1] \in p[1] - back .. p[1] + ahead
                    /\ Place[b][2] \in p[2] - back .. p[2] + ahead }

(* Variant: the rectangle reaches as far back as ahead.                    *)
InReach_Wide(p) == Around(p, 24, 24)

(* testBubblesPacman: the rectangle in which he finds a bubble.  He tests   *)
(* the first one in it only, be it eaten or not.                            *)
InReach(p) == Around(p, 8, 24)

First(p) == { b \in InReach(p) : \A a \in InReach(p) : Before(b, a) }

(* What of the board matters at a place: the bubble that a test there       *)
(* finds, those in reach, those close to him and those he is on             *)
Sight(p) == [tested |-> First(p), reach |-> InReach(p),
             close |-> Around(p, 8, 8), on |-> Around(p, 2, 2)]

At == [p \in Track |-> Sight(p)]

Edible == UNION { First(p) : p \in Track \ House }

-----------------------------------------------------------------------------
(* Pacman                                                                   *)

CanMovePacman(p, d) ==
  /\ ~(p = Door /\ d = Down)
  /\ Moved(p, d, 2) \in Track

None == -1

Quarter(d, e) == d - e \in {1, -1, 3, -3}

InitPacman ==
  /\ who = "pacman" /\ pos = << 276, 416 >> /\ dir = Left
  /\ try = None /\ mouth = 3

(* Variant: he tests for bubbles with his mouth at 0 only.                 *)
Advance_TestsHalf(d, turned) ==
  IF CanMovePacman(pos, d)
  THEN LET p == Tunnelled(Moved(pos, d, IF turned THEN 8 ELSE 2))
           m == IF mouth < 6 THEN mouth + 1 ELSE 0
           tested == IF m = 0 THEN At[p].tested ELSE {}
       IN  /\ pos' = p /\ mouth' = m
           /\ eaten' = (eaten \union tested) \intersect At[p].close
           /\ under' = (under \union (At[p].on \ eaten)) \ tested
  ELSE UNCHANGED << pos, mouth, eaten, under >>

(* The second half of movePacman: a step ahead, which is longer after a     *)
(* quarter turn, and with his mouth at 0 or 3 the test for bubbles.         *)
Advance(d, turned) ==
  IF CanMovePacman(pos, d)
  THEN LET p == Tunnelled(Moved(pos, d, IF turned THEN 8 ELSE 2))
           m == IF mouth < 6 THEN mouth + 1 ELSE 0
           tested == IF m \in {0, 3} THEN At[p].tested ELSE {}
       IN  /\ pos' = p /\ mouth' = m
           /\ eaten' = (eaten \union tested) \intersect At[p].close
           /\ under' = (under \union (At[p].on \ eaten)) \ tested
  ELSE UNCHANGED << pos, mouth, eaten, under >>

PacmanTick ==
  /\ who = "pacman"
  /\ LET turns == try # None /\ try # dir /\ CanMovePacman(pos, try)
     IN  /\ dir' = IF turns THEN try ELSE dir
         /\ try' = IF turns THEN None ELSE try
         /\ IF try = dir
            THEN UNCHANGED << pos, mouth, eaten, under >>
            ELSE Advance(dir', turns /\ Quarter(dir, try))
  /\ UNCHANGED << who, state >>

(* movePacman for a key                                                     *)
Key(d) ==
  /\ who = "pacman"
  /\ CASE d = dir ->
            /\ try' = None
            /\ UNCHANGED << dir, pos, mouth, eaten, under >>
       [] d # dir /\ CanMovePacman(pos, d) ->
            /\ dir' = d /\ try' = None
            /\ Advance(d, Quarter(dir, d))
       [] OTHER ->
            /\ try' = d /\ UNCHANGED dir
            /\ Advance(dir, FALSE)
  /\ UNCHANGED << who, state >>

(* tryMovePacmanCancel, from its timer or one that a reset has forgotten    *)
TryOver ==
  /\ who = "pacman" /\ try # None
  /\ try' = None
  /\ UNCHANGED << who, pos, dir, mouth, state, eaten, under >>

ResetPacman ==
  /\ who = "pacman"
  /\ pos' = << 276, 416 >> /\ dir' = Left /\ try' = None /\ mouth' = 3
  /\ eaten' = {} /\ under' = {}
  /\ UNCHANGED << who, state >>

-----------------------------------------------------------------------------
(* A ghost                                                                  *)

Normal == 0
Afraid == 1
Eaten == -1

(* Where the ghosts start, and which way each of them heads                 *)
Starts == { << Door, Right >>, << << 276, 258 >>, Down >>,
            << << 238, 258 >>, Left >>, << << 314, 258 >>, Up >> }

InitGhost ==
  /\ who = "ghost"
  /\ \E s \in Starts : pos = s[1] /\ dir = s[2]
  /\ try = None /\ mouth = 3

(* Variant: the door is open to all.                                       *)
CanMoveGhost_NoDoor(p, d, s) == Moved(p, d, 2) \in Track

(* Variant: asks whether it is on a path, not whether it will be.          *)
CanMoveGhost_Here(p, d, s) == ~(p = Door /\ d = Down /\ s = Normal) /\ p \in Track

CanMoveGhost(p, d, s) ==
  /\ ~(p = Door /\ d = Down /\ s = Normal)
  /\ Moved(p, d, 2) \in Track

Opposite(d) == IF d > 2 THEN d - 2 ELSE d + 2

Takes(d) == CanMoveGhost(pos, d, state) /\ d # Opposite(dir)

(* getRightDirectionForHome along one axis                                  *)
ForHome(axe) ==
  CASE pos = Door -> {Down}
    [] pos = << 276, 258 >> -> {Left, Right}
    [] OTHER -> IF axe = 1 THEN {IF pos[1] > Door[1] THEN Left ELSE Right}
                           ELSE {IF pos[2] > Door[2] THEN Up ELSE Down}

(* The directions that changeDirection may try: any, or for an eaten ghost  *)
(* those for home, the second axis when the first is no way.                *)
Tries ==
  IF state # Eaten THEN Directions
  ELSE UNION { ForHome(a) \union
                 (IF \A d \in ForHome(a) : Takes(d) THEN {} ELSE ForHome(3 - a))
               : a \in 1 .. 2 }

(* moveGhost                                                                *)
GhostTick ==
  /\ who = "ghost"
  /\ \E t \in Tries :
       LET d == IF Takes(t) THEN t ELSE dir
       IN  \/ /\ CanMoveGhost(pos, d, state)
              /\ dir' = d
              /\ pos' = Tunnelled(Moved(pos, d, 2))
           \/ /\ ~CanMoveGhost(pos, d, state)
              /\ dir' \in Directions
              /\ UNCHANGED pos
  /\ UNCHANGED << who, try, mouth, state, eaten, under >>

(* affraidGhost, eatGhost, and cancelAffraidGhost or cancelEatGhost         *)
Change ==
  /\ who = "ghost"
  /\ \/ state = Normal /\ state' = Afraid
     \/ state = Afraid /\ state' \in {Eaten, Normal}
     \/ state = Eaten /\ state' = Normal
  /\ UNCHANGED << who, pos, dir, try, mouth, eaten, under >>

ResetGhost ==
  /\ who = "ghost"
  /\ \E s \in Starts : pos' = s[1] /\ dir' = s[2]
  /\ state' = Normal
  /\ UNCHANGED << who, try, mouth, eaten, under >>

-----------------------------------------------------------------------------
Init ==
  /\ InitPacman \/ InitGhost
  /\ state = Normal /\ eaten = {} /\ under = {}

Next ==
  \/ PacmanTick \/ (\E d \in Directions : Key(d)) \/ TryOver \/ ResetPacman
  \/ GhostTick \/ Change \/ ResetGhost

Spec == Init /\ [][Next]_vars

-----------------------------------------------------------------------------
(* Nobody leaves the paths, not even by the longer step of a quarter turn.  *)
TypeOK ==
  /\ who \in {"pacman", "ghost"}
  /\ pos \in Track
  /\ dir \in Directions /\ try \in Directions \union {None}
  /\ mouth \in 0 .. 6
  /\ state \in {Normal, Afraid, Eaten}
  /\ eaten \subseteq Bubbles /\ under \subseteq Bubbles

(* Pacman runs over no bubble without eating it, whatever his mouth's state *)
(* when he comes and wherever he turns: as long as he has not tested the    *)
(* bubble he was on, it is in his reach.                                    *)
NothingRunOver == under \subseteq At[pos].reach

(* The level can be won: no bubble is always hidden behind one that comes   *)
(* before it in BUBBLES_ARRAY and is tested in its stead, on the paths that *)
(* are open to Pacman.                                                      *)
AllEdible == who = "pacman" => Bubbles = Edible

(* The door lets a ghost out.  A ghost goes in only when it is afraid or    *)
(* eaten, or is put there to start again, and Pacman never does.            *)
DoorShut ==
  [][ /\ who = "ghost" => state = Normal /\ state' = Normal
      /\ pos \notin House /\ pos' \in House
      => who = "ghost" /\ pos' \in { s[1] : s \in Starts } ]_vars
=============================================================================
