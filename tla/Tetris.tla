------------------------------- MODULE Tetris -------------------------------
(***************************************************************************)
(* 4.littlevgl/f_apps/f_game_tetris: tetris_logic.c, and the timer, button *)
(* and score callbacks of f_game_tetris.c that drive it.                   *)
(*                                                                         *)
(* The map is the set of its occupied boxes <<x, y>>, y = 0 at the top.    *)
(* The falling brick is drawn into the map; a move erases it, tests the    *)
(* destination and draws it again.                                         *)
(***************************************************************************)
EXTENDS Integers, FiniteSets, FiniteSetsExt

CONSTANTS
  MAP_WIDTH, MAP_HEIGHT,  \* 10 and 20 in tetris_logic.h
  Types,                  \* the brick types get_random_num may produce
  MaxBricks               \* bound: the game is followed until so many have landed

ASSUME TetrisAssumption ==
  /\ MAP_WIDTH \in 4..16 /\ MAP_HEIGHT \in Nat \ {0}
  /\ Types \subseteq 0..6

VARIABLES
  map, curr_brick, next_brick, is_game_over,
  lines, score,          \* user_data of the labels in f_game_tetris.c
  timer,                 \* the timer that moves the brick down is alive
  landed, lost,          \* history: bricks landed, boxes cut off at the top,
  covered                \* and landed boxes that a brick was drawn over

tvars == <<map, curr_brick, next_brick, is_game_over, lines, score, timer,
           landed, lost, covered>>

-----------------------------------------------------------------------------
(* The tables; one row per type S Z L J I O T, one column per rotation *)

brick_table ==
  << <<\h6C00, \h4620, \h06C0, \h8C40>>, <<\hC600, \h2640, \h0C60, \h4C80>>,
     <<\h88C0, \hE800, \h6220, \h02E0>>, <<\h2260, \h08E0, \hC880, \hE200>>,
     <<\h4444, \h0F00, \h2222, \h00F0>>, <<\hCC00, \hCC00, \hCC00, \hCC00>>,
     <<\hE400, \h2620, \h04E0, \h8C80>> >>

rotate_mask ==
  << <<\hEE20, \h66E0, \h8EE0, \hECC0>>, <<\hE660, \h2EE0, \hEE80, \hCCE0>>,
     <<\hECC0, \hEE20, \h66E0, \h8EE0>>, <<\h2EE0, \hCCE0, \hEE80, \hE660>>,
     <<\h7FCC, \hEF33, \h33FE, \hCCF0>>, <<\hCC00, \hCC00, \hCC00, \hCC00>>,
     <<\hE620, \h26E0, \h8CE0, \hEC80>> >>

brick_start_y == <<-2, -2, -3, -3, -4, -2, -2>>

\* The boxes of a 4x4 pattern, whose bit 15 is its top left box.
BitValue ==
  <<32768, 16384, 8192, 4096, 2048, 1024, 512, 256, 128, 64, 32, 16, 8, 4, 2, 1>>
Boxes(bits) ==
  {b \in (0..3) \X (0..3) : (bits \div BitValue[b[2] * 4 + b[1] + 1]) % 2 = 1}

Patterns4(row) == <<Boxes(row[1]), Boxes(row[2]), Boxes(row[3]), Boxes(row[4])>>
Patterns7(table) ==
  <<Patterns4(table[1]), Patterns4(table[2]), Patterns4(table[3]),
    Patterns4(table[4]), Patterns4(table[5]), Patterns4(table[6]),
    Patterns4(table[7])>>

Shape == Patterns7(brick_table)
Mask == Patterns7(rotate_mask)

At(x, y, boxes) == {<<x + b[1], y + b[2]>> : b \in boxes}

\* The boxes a brick occupies, and those of them inside the map, which are
\* what draw_brick sets and clear_brick clears.
Body(b) == At(b.x, b.y, Shape[b.t + 1][b.r + 1])
Visible(b) == {c \in Body(b) : c[2] >= 0}

draw_brick(m, b) == m \cup Visible(b)
clear_brick(m, b) == m \ Visible(b)

\* Boxes above the map only have to stay between its left and right edge:
\* m has no box there.
is_conflict(m, boxes) ==
  \/ \E c \in boxes : c[1] < 0 \/ c[1] > MAP_WIDTH - 1 \/ c[2] > MAP_HEIGHT - 1
  \/ boxes \cap m # {}

NewBrick(t) == [x |-> (MAP_WIDTH \div 2) - 2, y |-> brick_start_y[t + 1],
                t |-> t, r |-> 0]

-----------------------------------------------------------------------------
Full(m) == {y \in 0..MAP_HEIGHT - 1 :
              \A x \in 0..MAP_WIDTH - 1 : <<x, y>> \in m}

\* map[i] = map[i - 1]
TakeAbove(m, i) ==
  {c \in m : c[2] # i} \cup {<<c[1], i>> : c \in {d \in m : d[2] = i - 1}}

\* From row upwards each row takes the one above it; the top row is emptied.
CopyDown(m, row) ==
  LET after[n \in 0..row] ==
        IF n = 0 THEN m ELSE TakeAbove(after[n - 1], row - n + 1)
  IN  {c \in after[row] : c[2] # 0}

\* What the loop of line_clear_check does at a row: l counts the rows cleared.
Field == (0..MAP_WIDTH - 1) \X (0..MAP_HEIGHT - 1)
Scans == [map : SUBSET Field, l : Nat]
ScanRow(row) ==
  [s \in Scans |-> IF row \in Full(s.map)
                     THEN [map |-> CopyDown(s.map, row), l |-> s.l + 1] ELSE s]

\* Mutant: the rows are scanned from the bottom up.
LineClearUp(m) ==
  LET after[n \in 0..MAP_HEIGHT] ==
        IF n = 0 THEN [map |-> m, l |-> 0]
                 ELSE ScanRow(MAP_HEIGHT - n)[after[n - 1]]
  IN  after[MAP_HEIGHT]

\* line_clear_check: from the top row down, in place; a row is tested as it is
\* when the scan gets there.
LineClear(m) ==
  LET after[n \in 0..MAP_HEIGHT] ==
        IF n = 0 THEN [map |-> m, l |-> 0] ELSE ScanRow(n - 1)[after[n - 1]]
  IN  after[MAP_HEIGHT]

TInit ==
  /\ map = {}
  /\ \E s, t \in Types : curr_brick = NewBrick(s) /\ next_brick = NewBrick(t)
  /\ is_game_over = FALSE
  /\ lines = 0 /\ score = 0
  /\ timer = TRUE
  /\ landed = 0 /\ lost = 0 /\ covered = 0

\* The boxes of the map that do not belong to the falling brick.
Fixed == map \ Visible(curr_brick)

\* The mask of Z's third position leaves out one box of it, so that this turn
\* is made without a test of that box.
ZTurn(b) == curr_brick.t = 1 /\ curr_brick.r = 1 /\ b = [curr_brick EXCEPT !.r = 2]
Untested == <<curr_brick.x + 2, curr_brick.y + 2>>

\* The brick is erased and drawn again, where it was or somewhere else.
Place(b) ==
  /\ curr_brick' = b
  /\ map' = draw_brick(clear_brick(map, curr_brick), b)
  /\ covered' = covered + (IF ZTurn(b) /\ Untested \in Fixed THEN 1 ELSE 0)
  /\ UNCHANGED <<next_brick, is_game_over, lines, score, landed, lost>>

Outside(b) == b.y + 1 <= 0

\* A brick that cannot go further down is drawn where it is; full rows are
\* removed and scored (f_game_tetris_remove_line_num), the next brick enters.
Land(b) ==
  \E cleared \in {LineClear(draw_brick(clear_brick(map, curr_brick), b))} :
      /\ is_game_over' = (is_game_over \/ Outside(b))
      /\ curr_brick' = next_brick
      /\ map' = draw_brick(cleared.map, next_brick)
      /\ \E t \in Types : next_brick' = NewBrick(t)
      /\ lines' = lines + cleared.l
      /\ score' = score + 3^cleared.l
      /\ landed' = landed + 1
      /\ lost' = lost + Cardinality(Body(b) \ Visible(b))
      /\ UNCHANGED covered

Conflict(b) == is_conflict(clear_brick(map, curr_brick), Body(b))
Lower(n) == [curr_brick EXCEPT !.y = @ + n]

Shift(dx) ==
  LET b == [curr_brick EXCEPT !.x = @ + dx]
  IN  Place(IF Conflict(b) THEN curr_brick ELSE b)

\* Mutant: the rotation is not tested.
RotateBlind == Place([curr_brick EXCEPT !.r = (@ + 1) % 4])

\* A rotation is tested with the boxes it sweeps, from rotate_mask.
Rotate ==
  LET b == [curr_brick EXCEPT !.r = (@ + 1) % 4]
      swept == At(b.x, b.y, Mask[b.t + 1][b.r + 1])
  IN  Place(IF is_conflict(clear_brick(map, curr_brick), swept)
              THEN curr_brick ELSE b)

\* Mutant: only TETRIS_DIRE_PROM_DOWN lands a brick.
DownStuck == Place(IF Conflict(Lower(1)) THEN curr_brick ELSE Lower(1))

Down == IF Conflict(Lower(1)) THEN Land(curr_brick) ELSE Place(Lower(1))

\* TETRIS_DIRE_PROM_DOWN loops until the brick has landed.
PromDown ==
  \E n \in 0..MAP_HEIGHT + 4 :
    /\ Conflict(Lower(n + 1))
    /\ \A k \in 1..n : ~Conflict(Lower(k))
    /\ Land(Lower(n))

-----------------------------------------------------------------------------
\* f_game_tetris_ctrl_event_cb: the buttons work after the game is over, too.
Button ==
  /\ landed < MaxBricks
  /\ Shift(-1) \/ Shift(1) \/ Rotate \/ PromDown
  /\ UNCHANGED timer

\* lv_task_f_game_tetris deletes the timer once the game is over.
Tick ==
  /\ timer /\ landed < MaxBricks
  /\ Down
  /\ timer' = ~is_game_over'

TNext == Button \/ Tick

\* LVGL runs the timer as long as it is alive.
TSpec == TInit /\ [][TNext]_tvars /\ WF_tvars(Tick)

-----------------------------------------------------------------------------
\* Every brick is drawn inside map[], and, as long as none lands, on no landed
\* box, although draw_brick and clear_brick test nothing but the upper edge and
\* their comment trusts the caller (l.171-173): each move must have been tested,
\* a rotation with a mask of its own.  One rotation is not: Z may turn from its
\* second to its third position over one landed box, which the next move then
\* erases with the brick (l.43 and l.54); no other box, and no other move, is
\* drawn over.
DrawnFree ==
  [][/\ \A c \in Body(curr_brick') :
          c[1] \in 0..MAP_WIDTH - 1 /\ c[2] <= MAP_HEIGHT - 1
     /\ landed' = landed =>
          Fixed' = IF ZTurn(curr_brick') THEN Fixed \ {Untested} ELSE Fixed]_tvars

\* Boxes are neither lost nor made: four per brick that landed, less the rows
\* removed, what was cut off at the top and what Z was turned over; and of
\* several full rows none is left, although line_clear_check overwrites rows
\* while it scans them (l.308-321).
BoxesConserved ==
  /\ Cardinality(Fixed) + MAP_WIDTH * lines + lost + covered = 4 * landed
  /\ Full(Fixed) = {}

\* Every brick lands in the end, whatever buttons are pressed meanwhile, for
\* no button takes it up again.
BrickLands ==
  \A n \in 0..MaxBricks - 1 : (landed = n /\ timer) ~> (landed > n \/ ~timer)
=============================================================================
