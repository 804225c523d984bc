------------------------------ MODULE Game2048 ------------------------------
(***************************************************************************)
(* 4.littlevgl/f_apps/f_game_2048: the board and the gesture handler       *)
(* event_handler_play_2048.  board[x][y] is the exponent of the tile in    *)
(* column x and row y, 0 if there is none.  Every move is the one slide    *)
(* towards row 0 (move_up) between quarter turns of the board.             *)
(***************************************************************************)
EXTENDS Slide2048

CONSTANT MaxWeight  \* bound: the sum of the tiles on the board

ASSUME WeightAssumption == MaxWeight \in Nat

VARIABLES
  board,
  current_score_value,
  play_game

vars == <<board, current_score_value, play_game>>

Dirs == {"left", "right", "top", "bottom"}
Boards == [Positions -> [Positions -> Nat]]
Empty == [i \in Positions |-> [j \in Positions |-> 0]]

\* The sum over the board of what a function of lines gives.
Total(f(_), b) == LineSum([i \in Positions |-> f(b[i])])

-----------------------------------------------------------------------------
\* lv_f_game_2048_rotate_board: the loop moves four cells round at a time.
rotate_board(b) ==
  [i \in Positions |-> [j \in Positions |-> b[j][SIZE - 1 - i]]]

Turned(n, b) ==
  CASE n % 4 = 0 -> b
    [] n % 4 = 1 -> rotate_board(b)
    [] n % 4 = 2 -> rotate_board(rotate_board(b))
    [] n % 4 = 3 -> rotate_board(rotate_board(rotate_board(b)))

\* Mutant: left and right are exchanged.
TurnsSwapped(dir) == CASE dir = "top" -> 0 [] dir = "right" -> 1
                       [] dir = "bottom" -> 2 [] dir = "left" -> 3

\* How often a move turns the board before it slides up.
Turns(dir) == CASE dir = "top" -> 0 [] dir = "left" -> 1
                [] dir = "bottom" -> 2 [] dir = "right" -> 3

\* move_up slides every line of the turned board, and the board is turned
\* back to where it was.
move(dir, b) ==
  LET slid == [i \in Positions |-> slide_array(Turned(Turns(dir), b)[i])]
      lines == [i \in Positions |-> slid[i].array]
  IN  [board |-> Turned(4 - Turns(dir), lines),
       score |-> LineSum([i \in Positions |-> slid[i].score]),
       success |-> \E i \in Positions : slid[i].success]

find_pair_down(b) ==
  \E i, j \in Positions : j < SIZE - 1 /\ b[i][j] = b[i][j + 1]

\* Mutant: pairs are only looked for in the columns.
game_endedColumns(b) ==
  /\ \A i, j \in Positions : b[i][j] # 0
  /\ ~find_pair_down(b)

game_ended(b) ==
  /\ \A i, j \in Positions : b[i][j] # 0
  /\ ~find_pair_down(b)
  /\ ~find_pair_down(rotate_board(b))

-----------------------------------------------------------------------------
\* The boards that lv_f_game_2048_add_random may produce.
add_random(b) ==
  {[b EXCEPT ![c[1]][c[2]] = n] :
     c \in {d \in Positions \X Positions : b[d[1]][d[2]] = 0}, n \in {1, 2}}

\* lv_f_game_2048_init_board_number
Init ==
  /\ \E b \in add_random(Empty) : board \in add_random(b)
  /\ current_score_value = 0
  /\ play_game = TRUE

\* A gesture that moves nothing returns early.
Gesture(dir) ==
  /\ play_game
  /\ Total(Weight, board) < MaxWeight
  /\ LET m == move(dir, board)
     IN  /\ m.success
         /\ board' \in add_random(m.board)
         /\ play_game' = ~game_ended(board')
         /\ current_score_value' = current_score_value + m.score

Next == \E dir \in Dirs : Gesture(dir)

Spec == Init /\ [][Next]_vars

-----------------------------------------------------------------------------
\* Line k of a board as seen from the edge that a move goes to.
Seen(dir, k, b) ==
  [i \in Positions |->
     CASE dir = "top" -> b[k][i] [] dir = "bottom" -> b[k][SIZE - 1 - i]
       [] dir = "left" -> b[i][k] [] dir = "right" -> b[SIZE - 1 - i][k]]

\* A gesture slides every line towards the edge it points to, by the rules of
\* the game, and puts one new tile on a cell that was left empty; the score
\* grows by what the merges were worth.
MovesByRules ==
  [][\A dir \in Dirs : Gesture(dir) =>
       \E c \in Positions \X Positions :
         LET slid == [board' EXCEPT ![c[1]][c[2]] = 0]
         IN  /\ board'[c[1]][c[2]] \in {1, 2}
             /\ \A k \in Positions : Seen(dir, k, slid) = Slid(Seen(dir, k, board))
             /\ current_score_value' - current_score_value
                  = Total(Worth, slid) - Total(Worth, board)]_vars

\* The game is over exactly when no gesture would change the board.
OverIffStuck ==
  ~play_game <=>
    \A dir \in Dirs, k \in Positions :
      Slid(Seen(dir, k, board)) = Seen(dir, k, board)
=============================================================================
