----------------------------- MODULE AppsProof -----------------------------
(***************************************************************************)
(* Proofs about three of the LVGL programs, each of which runs in one      *)
(* thread alone: f_game_2048 (Game2048), f_game_tetris (Tetris) and        *)
(* f_tool_file_browser (FileBrowser).                                      *)
(*                                                                         *)
(* Game2048, for boards of two to four cells a side and tiles of any       *)
(* value.  What a slide does to a line is known from Slide2048Proof.  A    *)
(* move turns the board, slides and turns it back: the turns are followed  *)
(* cell by cell, so that the lines it slides are those seen from the edge  *)
(* of the gesture, and sums over the board stay what they were.  The end   *)
(* of the game is a fact about any board that is not empty.                *)
(*                                                                         *)
(* Tetris, for a field of any size and bricks of every type.  The tables   *)
(* come first: each pattern has four boxes, and the mask by which a turn   *)
(* is tested covers them, but for the third of Z (type 1), of which it     *)
(* leaves out one that the brick is on already and one other (ZIs).  Then  *)
(* the rows: the copies that overwrite one row after another move what is  *)
(* above a full row down by one, so that this row alone goes and no row    *)
(* the scan has passed is full.  Last the invariant: the brick is inside   *)
(* and on no box that has landed, and these, with those cleared, cut off   *)
(* and covered by Z, are four for each brick.                              *)
(*                                                                         *)
(* FileBrowser, for every tree of directories and links, and whichever     *)
(* calls fail.  That path, current directory, rows and list agree follows  *)
(* from the order of the assignments alone.  That a click opens what its   *)
(* button names rests on that and on where paths lead: the recursion of    *)
(* Reach has a solution for every path, and it is followed one name        *)
(* further down, and back up to any beginning of a path.                   *)
(***************************************************************************)
EXTENDS MCGame2048, Slide2048Proof, Tetris, FileBrowser

-----------------------------------------------------------------------------

-----------------------------------------------------------------------------
(* Lines and turns of the board *)

\* Positions seen from the other end.
LEMMA PositionsOk ==
  /\ SIZE \in Nat /\ SIZE >= 2 /\ SIZE - 1 \in Positions
  /\ \A i \in Positions : i \in Nat /\ i < SIZE /\ SIZE - 1 - i \in Positions
                          /\ SIZE - 1 - (SIZE - 1 - i) = i
                          /\ (i # 0 => i - 1 \in Positions)
                          /\ (i < SIZE - 1 => i + 1 \in Positions)
BY SizeAssumption DEF Positions

\* The line of b seen from an edge.
LEMMA SeenIs ==
  ASSUME NEW b, NEW k, NEW i \in Positions
  PROVE  /\ Seen("top", k, b)[i] = b[k][i]
         /\ Seen("bottom", k, b)[i] = b[k][SIZE - 1 - i]
         /\ Seen("left", k, b)[i] = b[i][k]
         /\ Seen("right", k, b)[i] = b[SIZE - 1 - i][k]
BY DEF Seen

\* Lines of a board are slides.
LEMMA SeenType ==
  ASSUME NEW b \in Boards, NEW k \in Positions, NEW dir \in Dirs
  PROVE  Seen(dir, k, b) \in [Positions -> Nat]
<1>1. \A i \in Positions : b[k][i] \in Nat /\ b[i][k] \in Nat
                           /\ b[k][SIZE - 1 - i] \in Nat /\ b[SIZE - 1 - i][k] \in Nat
  BY PositionsOk DEF Boards
<1>2. dir = "top" \/ dir = "bottom" \/ dir = "left" \/ dir = "right"
  BY DEF Dirs
<1>3. CASE dir = "top"
  BY <1>1, <1>3 DEF Seen
<1>4. CASE dir = "bottom"
  BY <1>1, <1>4 DEF Seen
<1>5. CASE dir = "left"
  BY <1>1, <1>5 DEF Seen
<1>6. CASE dir = "right"
  BY <1>1, <1>6 DEF Seen
<1>7. QED
  BY <1>2, <1>3, <1>4, <1>5, <1>6

\* One cell of the turned board.
LEMMA RotatedIs ==
  ASSUME NEW b, NEW i \in Positions, NEW j \in Positions
  PROVE  rotate_board(b)[i][j] = b[j][SIZE - 1 - i]
BY DEF rotate_board

\* A turned board is a board.
LEMMA RotateType ==
  ASSUME NEW b \in Boards PROVE rotate_board(b) \in Boards
<1>1. \A i \in Positions, j \in Positions : b[j][SIZE - 1 - i] \in Nat
  BY PositionsOk DEF Boards
<1>2. QED
  BY <1>1 DEF rotate_board, Boards

\* The turns, written out.
LEMMA TurnedIs ==
  ASSUME NEW b
  PROVE  /\ Turned(0, b) = b /\ Turned(4, b) = b
         /\ Turned(1, b) = rotate_board(b)
         /\ Turned(2, b) = rotate_board(rotate_board(b))
         /\ Turned(3, b) = rotate_board(rotate_board(rotate_board(b)))
<1>1. 0 % 4 = 0 /\ 4 % 4 = 0 /\ 1 % 4 = 1 /\ 2 % 4 = 2 /\ 3 % 4 = 3
  OBVIOUS
<1>2. QED
  BY <1>1 DEF Turned

\* How often each move turns the board.
LEMMA TurnsAre ==
  /\ Turns("top") = 0 /\ Turns("left") = 1 /\ Turns("bottom") = 2 /\ Turns("right") = 3
  /\ Dirs = {"top", "left", "bottom", "right"}
BY DEF Turns, Dirs

\* Four quarter turns are none.
LEMMA FourTurns ==
  ASSUME NEW b \in Boards
  PROVE  rotate_board(rotate_board(rotate_board(rotate_board(b)))) = b
<1> DEFINE one == rotate_board(b)
           two == rotate_board(one)
           three == rotate_board(two)
           four == rotate_board(three)
<1>1. one \in Boards /\ two \in Boards /\ three \in Boards /\ four \in Boards
  BY RotateType
<1>2. ASSUME NEW i \in Positions, NEW j \in Positions PROVE four[i][j] = b[i][j]
  <2>1. PICK x \in Positions, y \in Positions :
          /\ x = SIZE - 1 - i /\ SIZE - 1 - x = i /\ y = SIZE - 1 - j /\ SIZE - 1 - y = j
    BY PositionsOk
  <2>2. four[i][j] = three[j][x]
    BY <2>1, RotatedIs
  <2>3. three[j][x] = two[x][y]
    BY <2>1, RotatedIs
  <2>4. two[x][y] = one[y][i]
    BY <2>1, RotatedIs
  <2>5. one[y][i] = b[i][j]
    BY <2>1, RotatedIs
  <2>6. QED
    BY <2>2, <2>3, <2>4, <2>5
<1> HIDE DEF four
<1>3. \A i \in Positions : four[i] = b[i]
  <2>1. ASSUME NEW i \in Positions PROVE four[i] = b[i]
    <3>1. four[i] \in [Positions -> Nat] /\ b[i] \in [Positions -> Nat]
      BY <1>1 DEF Boards
    <3>2. \A j \in Positions : four[i][j] = b[i][j]
      BY <1>2
    <3>3. QED
      BY <3>1, <3>2
  <2>2. QED
    BY <2>1
<1>4. four = b
  BY <1>1, <1>3 DEF Boards
<1>5. QED
  BY <1>4 DEF four

\* Which line of the board the i-th line of the turned board is.
Aside(dir, i) == IF dir \in {"left", "bottom"} THEN SIZE - 1 - i ELSE i

\* The slides of the turned board are those that the gesture should slide.
LEMMA TurnedLines ==
  ASSUME NEW b \in Boards, NEW dir \in Dirs
  PROVE  /\ Turned(Turns(dir), b) \in Boards
         /\ \A i \in Positions : Turned(Turns(dir), b)[i] = Seen(dir, Aside(dir, i), b)
<1> DEFINE one == rotate_board(b)
           two == rotate_board(one)
           three == rotate_board(two)
<1>1. one \in Boards /\ two \in Boards /\ three \in Boards
  BY RotateType
<1>2. ASSUME NEW i \in Positions, NEW c, c \in Boards,
             \A j \in Positions : c[i][j] = Seen(dir, Aside(dir, i), b)[j]
      PROVE  c[i] = Seen(dir, Aside(dir, i), b)
  <2>1. c[i] \in [Positions -> Nat]
    BY <1>2 DEF Boards
  <2>2. Aside(dir, i) \in Positions
    BY PositionsOk DEF Aside
  <2>3. PICK a : a = Seen(dir, Aside(dir, i), b)
    OBVIOUS
  <2>4. a \in [Positions -> Nat]
    BY <2>2, <2>3, SeenType
  <2>5. QED
    BY <1>2, <2>1, <2>3, <2>4
<1>3. CASE dir = "top"
  <2>1. Turned(Turns(dir), b) = b
    BY <1>3, TurnsAre, TurnedIs
  <2>2. ASSUME NEW i \in Positions, NEW j \in Positions
        PROVE  b[i][j] = Seen(dir, Aside(dir, i), b)[j]
    BY <1>3, SeenIs DEF Aside
  <2>3. QED
    BY <1>2, <2>1, <2>2
<1>4. CASE dir = "left"
  <2>1. Turned(Turns(dir), b) = one
    BY <1>4, TurnsAre, TurnedIs
  <2>2. ASSUME NEW i \in Positions, NEW j \in Positions
        PROVE  one[i][j] = Seen(dir, Aside(dir, i), b)[j]
    <3>1. one[i][j] = b[j][SIZE - 1 - i]
      BY RotatedIs
    <3>2. Aside(dir, i) = SIZE - 1 - i
      BY <1>4 DEF Aside
    <3> HIDE DEF one
    <3>3. QED
      BY <1>4, <3>1, <3>2, SeenIs
  <2>3. QED
    BY <1>1, <1>2, <2>1, <2>2
<1>5. CASE dir = "bottom"
  <2>1. Turned(Turns(dir), b) = two
    BY <1>5, TurnsAre, TurnedIs
  <2>2. ASSUME NEW i \in Positions, NEW j \in Positions
        PROVE  two[i][j] = Seen(dir, Aside(dir, i), b)[j]
    <3>1. PICK x \in Positions, y \in Positions : x = SIZE - 1 - i /\ y = SIZE - 1 - j
      BY PositionsOk
    <3>2. two[i][j] = one[j][x]
      BY <3>1, RotatedIs
    <3>3. one[j][x] = b[x][y]
      BY <3>1, RotatedIs
    <3>4. Aside(dir, i) = x
      BY <1>5, <3>1 DEF Aside
    <3> HIDE DEF one, two
    <3>5. QED
      BY <1>5, <3>1, <3>2, <3>3, <3>4, SeenIs
  <2>3. QED
    BY <1>1, <1>2, <2>1, <2>2
<1>6. CASE dir = "right"
  <2>1. Turned(Turns(dir), b) = three
    BY <1>6, TurnsAre, TurnedIs
  <2>2. ASSUME NEW i \in Positions, NEW j \in Positions
        PROVE  three[i][j] = Seen(dir, Aside(dir, i), b)[j]
    <3>1. PICK x \in Positions, y \in Positions :
            x = SIZE - 1 - i /\ y = SIZE - 1 - j /\ SIZE - 1 - x = i
      BY PositionsOk
    <3>2. three[i][j] = two[j][x]
      BY <3>1, RotatedIs
    <3>3. two[j][x] = one[x][y]
      BY <3>1, RotatedIs
    <3>4. one[x][y] = b[y][i]
      BY <3>1, RotatedIs
    <3>5. Aside(dir, i) = i
      BY <1>6 DEF Aside
    <3> HIDE DEF one, two, three
    <3>6. QED
      BY <1>6, <3>1, <3>2, <3>3, <3>4, <3>5, SeenIs
  <2>3. QED
    BY <1>1, <1>2, <2>1, <2>2
<1>7. QED
  BY <1>3, <1>4, <1>5, <1>6, TurnsAre

\* What a move turns, it turns back.
LEMMA TurnedBack ==
  ASSUME NEW c \in Boards, NEW dir \in Dirs
  PROVE  /\ Turned(4 - Turns(dir), c) \in Boards
         /\ Turned(Turns(dir), Turned(4 - Turns(dir), c)) = c
<1> DEFINE one == rotate_board(c)
           two == rotate_board(one)
           three == rotate_board(two)
<1>1. one \in Boards /\ two \in Boards /\ three \in Boards
  BY RotateType
<1>2. rotate_board(three) = c
  BY FourTurns
<1>3. 4 - 0 = 4 /\ 4 - 1 = 3 /\ 4 - 2 = 2 /\ 4 - 3 = 1
  OBVIOUS
<1>4. /\ Turned(4, c) = c /\ Turned(3, c) = three /\ Turned(2, c) = two /\ Turned(1, c) = one
      /\ Turned(0, c) = c /\ Turned(1, three) = c /\ Turned(2, two) = c /\ Turned(3, one) = c
  BY <1>2, TurnedIs
<1> HIDE DEF one, two, three
<1>5. CASE dir = "top"
  BY <1>3, <1>4, <1>5, TurnsAre
<1>6. CASE dir = "left"
  BY <1>1, <1>3, <1>4, <1>6, TurnsAre
<1>7. CASE dir = "bottom"
  BY <1>1, <1>3, <1>4, <1>7, TurnsAre
<1>8. CASE dir = "right"
  BY <1>1, <1>3, <1>4, <1>8, TurnsAre
<1>9. QED
  BY <1>5, <1>6, <1>7, <1>8, TurnsAre

-----------------------------------------------------------------------------
(* The end of the game *)

\* A line of tiles without a gap before or behind any of them is full.
LEMMA FullLine ==
  ASSUME NEW f, NEW p \in Positions, f[p] # 0,
         \A i \in Positions : i # 0 /\ f[i] # 0 => f[i - 1] # 0,
         \A i \in Positions : i < SIZE - 1 /\ f[i] # 0 => f[i + 1] # 0
  PROVE  \A i \in Positions : f[i] # 0
<1>1. CASE SIZE = 2 /\ Positions = {0, 1}
  BY <1>1
<1>2. CASE SIZE = 3 /\ Positions = {0, 1, 2}
  BY <1>2
<1>3. CASE SIZE = 4 /\ Positions = {0, 1, 2, 3}
  BY <1>3
<1>4. QED
  BY <1>1, <1>2, <1>3, PositionsAre

\* A board with a tile has neither gaps nor equal neighbours exactly when no line of
\* it, from no edge, would slide.
LEMMA StuckIsEnded ==
  ASSUME NEW b \in Boards, NEW p \in Positions, NEW q \in Positions, b[p][q] # 0
  PROVE  game_ended(b)
           <=> \A dir \in Dirs, k \in Positions : Slid(Seen(dir, k, b)) = Seen(dir, k, b)
<1> DEFINE Still == \A dir \in Dirs, k \in Positions, x \in Positions :
                      ~Loose(Seen(dir, k, b), x)
<1>1. Still <=> \A dir \in Dirs, k \in Positions : Slid(Seen(dir, k, b)) = Seen(dir, k, b)
  <2>1. ASSUME NEW dir \in Dirs, NEW k \in Positions
        PROVE  Slid(Seen(dir, k, b)) = Seen(dir, k, b)
                 <=> \A x \in Positions : ~Loose(Seen(dir, k, b), x)
    <3>1. PICK a : a = Seen(dir, k, b)
      OBVIOUS
    <3>2. a \in [Positions -> Nat]
      BY <3>1, SeenType
    <3>3. Slid(a) = a <=> \A x \in Positions : ~Loose(a, x)
      BY <3>2, SlidesLoose
    <3>4. QED
      BY <3>1, <3>3
  <2>2. QED
    BY <2>1
<1>2. ASSUME game_ended(b) PROVE Still
  <2>1. /\ \A i, j \in Positions : b[i][j] # 0
        /\ \A i, j \in Positions : j < SIZE - 1 => b[i][j] # b[i][j + 1]
        /\ \A i, j \in Positions : j < SIZE - 1 =>
             rotate_board(b)[i][j] # rotate_board(b)[i][j + 1]
    BY <1>2 DEF game_ended, find_pair_down
  <2>2. \A c, j \in Positions : j < SIZE - 1 => b[j][c] # b[j + 1][c]
    <3> SUFFICES ASSUME NEW c \in Positions, NEW j \in Positions, j < SIZE - 1
                 PROVE  b[j][c] # b[j + 1][c]
      OBVIOUS
    <3>1. PICK i \in Positions : i = SIZE - 1 - c /\ SIZE - 1 - i = c
      BY PositionsOk
    <3>2. j + 1 \in Positions
      BY PositionsOk
    <3>3. rotate_board(b)[i][j] = b[j][c] /\ rotate_board(b)[i][j + 1] = b[j + 1][c]
      BY <3>1, <3>2, RotatedIs
    <3>4. QED
      BY <2>1, <3>3
  <2>3. ASSUME NEW dir \in Dirs, NEW k \in Positions, NEW x \in Positions,
               Loose(Seen(dir, k, b), x)
        PROVE  FALSE
    <3>1. /\ x # 0 /\ x - 1 \in Positions /\ x - 1 < SIZE - 1 /\ (x - 1) + 1 = x
      BY <2>3, PositionsOk DEF Loose
    <3>2. PICK y \in Positions : /\ y = SIZE - 1 - x /\ y < SIZE - 1
                                 /\ SIZE - 1 - (x - 1) = y + 1 /\ y + 1 \in Positions
      BY <3>1, PositionsOk
    <3>3. Seen(dir, k, b)[x - 1] = 0 \/ Seen(dir, k, b)[x - 1] = Seen(dir, k, b)[x]
      BY <2>3 DEF Loose
    <3>4. CASE dir = "top"
      <4>1. Seen(dir, k, b)[x - 1] = b[k][x - 1] /\ Seen(dir, k, b)[x] = b[k][x]
        BY <3>1, <3>4, SeenIs
      <4>2. b[k][x - 1] # 0 /\ b[k][x - 1] # b[k][(x - 1) + 1]
        BY <2>1, <3>1
      <4>3. QED
        BY <3>1, <3>3, <4>1, <4>2
    <3>5. CASE dir = "bottom"
      <4>1. Seen(dir, k, b)[x - 1] = b[k][y + 1] /\ Seen(dir, k, b)[x] = b[k][y]
        BY <3>1, <3>2, <3>5, SeenIs
      <4>2. b[k][y + 1] # 0 /\ b[k][y] # b[k][y + 1]
        BY <2>1, <3>2
      <4>3. QED
        BY <3>3, <4>1, <4>2
    <3>6. CASE dir = "left"
      <4>1. Seen(dir, k, b)[x - 1] = b[x - 1][k] /\ Seen(dir, k, b)[x] = b[x][k]
        BY <3>1, <3>6, SeenIs
      <4>2. b[x - 1][k] # 0 /\ b[x - 1][k] # b[(x - 1) + 1][k]
        BY <2>1, <2>2, <3>1
      <4>3. QED
        BY <3>1, <3>3, <4>1, <4>2
    <3>7. CASE dir = "right"
      <4>1. Seen(dir, k, b)[x - 1] = b[y + 1][k] /\ Seen(dir, k, b)[x] = b[y][k]
        BY <3>1, <3>2, <3>7, SeenIs
      <4>2. b[y + 1][k] # 0 /\ b[y][k] # b[y + 1][k]
        BY <2>1, <2>2, <3>2
      <4>3. QED
        BY <3>3, <4>1, <4>2
    <3>8. QED
      BY <3>4, <3>5, <3>6, <3>7 DEF Dirs
  <2>4. QED
    BY <2>3
<1>3. ASSUME Still PROVE game_ended(b)
  \* What no gesture moves has no gap and no equal neighbours.
  <2>1. ASSUME NEW k \in Positions, NEW x \in Positions, x # 0
        PROVE  /\ b[k][x] # 0 => b[k][x - 1] # 0 /\ b[k][x - 1] # b[k][x]
               /\ b[x][k] # 0 => b[x - 1][k] # 0 /\ b[x - 1][k] # b[x][k]
    <3>1. x - 1 \in Positions
      BY <2>1, PositionsOk
    <3>2. ~Loose(Seen("top", k, b), x) /\ ~Loose(Seen("left", k, b), x)
      BY <1>3 DEF Dirs
    <3>3. /\ Seen("top", k, b)[x] = b[k][x] /\ Seen("top", k, b)[x - 1] = b[k][x - 1]
          /\ Seen("left", k, b)[x] = b[x][k] /\ Seen("left", k, b)[x - 1] = b[x - 1][k]
      BY <3>1, SeenIs
    <3>4. QED
      BY <2>1, <3>2, <3>3 DEF Loose
  <2>2. ASSUME NEW k \in Positions, NEW y \in Positions, y < SIZE - 1
        PROVE  (b[k][y] # 0 => b[k][y + 1] # 0) /\ (b[y][k] # 0 => b[y + 1][k] # 0)
    <3>1. PICK x \in Positions : /\ x = SIZE - 1 - y /\ x # 0 /\ SIZE - 1 - x = y
                                 /\ SIZE - 1 - (x - 1) = y + 1 /\ x - 1 \in Positions
      BY <2>2, PositionsOk
    <3>2. ~Loose(Seen("bottom", k, b), x) /\ ~Loose(Seen("right", k, b), x)
      BY <1>3 DEF Dirs
    <3>3. /\ Seen("bottom", k, b)[x] = b[k][y] /\ Seen("bottom", k, b)[x - 1] = b[k][y + 1]
          /\ Seen("right", k, b)[x] = b[y][k] /\ Seen("right", k, b)[x - 1] = b[y + 1][k]
      BY <3>1, SeenIs
    <3>4. QED
      BY <3>1, <3>2, <3>3 DEF Loose
  <2>3. \A j \in Positions : b[p][j] # 0
    <3>1. PICK f : f = b[p]
      OBVIOUS
    <3>2. /\ \A i \in Positions : i # 0 /\ f[i] # 0 => f[i - 1] # 0
          /\ \A i \in Positions : i < SIZE - 1 /\ f[i] # 0 => f[i + 1] # 0
          /\ f[q] # 0
      BY <2>1, <2>2, <3>1
    <3>3. QED
      BY <3>1, <3>2, FullLine
  <2>4. \A j \in Positions, i \in Positions : b[i][j] # 0
    <3> SUFFICES ASSUME NEW j \in Positions PROVE \A i \in Positions : b[i][j] # 0
      OBVIOUS
    <3>1. PICK f : f = [i \in Positions |-> b[i][j]]
      OBVIOUS
    <3>2. \A i \in Positions : f[i] = b[i][j]
      BY <3>1
    <3>3. \A i \in Positions : (i # 0 => i - 1 \in Positions)
                               /\ (i < SIZE - 1 => i + 1 \in Positions)
      BY PositionsOk
    <3>4. /\ \A i \in Positions : i # 0 /\ f[i] # 0 => f[i - 1] # 0
          /\ \A i \in Positions : i < SIZE - 1 /\ f[i] # 0 => f[i + 1] # 0
          /\ f[p] # 0
      BY <2>1, <2>2, <2>3, <3>2, <3>3
    <3>5. \A i \in Positions : f[i] # 0
      BY <3>4, FullLine
    <3>6. QED
      BY <3>2, <3>5
  <2>5. \A i, j \in Positions : j < SIZE - 1 =>
          b[i][j] # b[i][j + 1] /\ b[j][i] # b[j + 1][i]
    <3> SUFFICES ASSUME NEW i \in Positions, NEW j \in Positions, j < SIZE - 1
                 PROVE  b[i][j] # b[i][j + 1] /\ b[j][i] # b[j + 1][i]
      OBVIOUS
    <3>1. PICK x \in Positions : x = j + 1 /\ x # 0 /\ x - 1 = j
      BY PositionsOk
    <3>2. QED
      BY <2>1, <2>4, <3>1
  <2>6. ~find_pair_down(b)
    BY <2>5 DEF find_pair_down
  <2>7. ~find_pair_down(rotate_board(b))
    <3>1. ASSUME NEW i \in Positions, NEW j \in Positions, j < SIZE - 1
          PROVE  rotate_board(b)[i][j] # rotate_board(b)[i][j + 1]
      <4>1. j + 1 \in Positions /\ SIZE - 1 - i \in Positions
        BY <3>1, PositionsOk
      <4>2. rotate_board(b)[i][j] = b[j][SIZE - 1 - i]
            /\ rotate_board(b)[i][j + 1] = b[j + 1][SIZE - 1 - i]
        BY <4>1, RotatedIs
      <4>3. QED
        BY <2>5, <3>1, <4>1, <4>2
    <3>2. QED
      BY <3>1 DEF find_pair_down
  <2>8. QED
    BY <2>4, <2>6, <2>7 DEF game_ended
<1>4. QED
  BY <1>1, <1>2, <1>3

-----------------------------------------------------------------------------
(* What the tiles of a board have brought *)

Cell(b, i, j) == WorthOf(b[i][j])

\* The worth of a board is that of its cells.
LEMMA TotalIs ==
  ASSUME NEW b \in Boards
  PROVE  /\ \A i, j \in Positions : Cell(b, i, j) \in Int
         /\ SIZE = 2 =>
              Total(Worth, b) = Cell(b, 0, 0) + Cell(b, 0, 1)
                                + Cell(b, 1, 0) + Cell(b, 1, 1)
         /\ SIZE = 3 =>
              Total(Worth, b) = Cell(b, 0, 0) + Cell(b, 0, 1) + Cell(b, 0, 2)
                                + Cell(b, 1, 0) + Cell(b, 1, 1) + Cell(b, 1, 2)
                                + Cell(b, 2, 0) + Cell(b, 2, 1) + Cell(b, 2, 2)
         /\ SIZE = 4 =>
              Total(Worth, b) = Cell(b, 0, 0) + Cell(b, 0, 1) + Cell(b, 0, 2) + Cell(b, 0, 3)
                                + Cell(b, 1, 0) + Cell(b, 1, 1) + Cell(b, 1, 2) + Cell(b, 1, 3)
                                + Cell(b, 2, 0) + Cell(b, 2, 1) + Cell(b, 2, 2) + Cell(b, 2, 3)
                                + Cell(b, 3, 0) + Cell(b, 3, 1) + Cell(b, 3, 2) + Cell(b, 3, 3)
<1> DEFINE line(i) == [j \in Positions |-> Cell(b, i, j)]
           slides == [i \in Positions |-> Worth(b[i])]
<1>1. \A i, j \in Positions : Cell(b, i, j) \in Int
  <2>1. \A i, j \in Positions : b[i][j] \in Nat
    BY DEF Boards
  <2>2. QED
    BY <2>1, WorthOfType DEF Cell
<1>2. Total(Worth, b) = LineSum(slides)
  BY DEF Total
<1>3. ASSUME NEW i \in Positions PROVE slides[i] = LineSum(line(i))
  BY DEF Worth, WorthOf, Cell
<1>4. /\ SIZE = 2 => LineSum(slides) = 0 + slides[0] + slides[1]
      /\ SIZE = 3 => LineSum(slides) = 0 + slides[0] + slides[1] + slides[2]
      /\ SIZE = 4 => LineSum(slides) = 0 + slides[0] + slides[1] + slides[2] + slides[3]
  BY SumIs
<1>5. ASSUME NEW i \in Positions
      PROVE  /\ SIZE = 2 => LineSum(line(i)) = 0 + line(i)[0] + line(i)[1]
             /\ SIZE = 3 => LineSum(line(i)) = 0 + line(i)[0] + line(i)[1] + line(i)[2]
             /\ SIZE = 4 => LineSum(line(i)) = 0 + line(i)[0] + line(i)[1] + line(i)[2] + line(i)[3]
  <2>1. PICK f : f = line(i)
    OBVIOUS
  <2>2. /\ SIZE = 2 => LineSum(f) = 0 + f[0] + f[1]
        /\ SIZE = 3 => LineSum(f) = 0 + f[0] + f[1] + f[2]
        /\ SIZE = 4 => LineSum(f) = 0 + f[0] + f[1] + f[2] + f[3]
    BY SumIs
  <2>3. QED
    BY <2>1, <2>2
<1>6. \A i, j \in Positions : line(i)[j] = Cell(b, i, j)
  OBVIOUS
<1> HIDE DEF slides, line
<1>7. CASE SIZE = 2 /\ Positions = {0, 1}
  <2>1. ASSUME NEW i \in Positions
        PROVE  slides[i] = Cell(b, i, 0) + Cell(b, i, 1)
    <3>1. LineSum(line(i)) = 0 + line(i)[0] + line(i)[1]
      BY <1>5, <1>7
    <3>2. /\ line(i)[0] = Cell(b, i, 0) /\ Cell(b, i, 0) \in Int
          /\ line(i)[1] = Cell(b, i, 1) /\ Cell(b, i, 1) \in Int
      BY <1>1, <1>6, <1>7
    <3>3. QED
      BY <1>3, <3>1, <3>2
  <2>2. LineSum(slides) = 0 + slides[0] + slides[1]
    BY <1>4, <1>7
  <2>3. /\ slides[0] = Cell(b, 0, 0) + Cell(b, 0, 1)
        /\ slides[1] = Cell(b, 1, 0) + Cell(b, 1, 1)
    BY <1>7, <2>1
  <2>4. /\ Cell(b, 0, 0) \in Int /\ Cell(b, 0, 1) \in Int
        /\ Cell(b, 1, 0) \in Int /\ Cell(b, 1, 1) \in Int
    BY <1>1, <1>7
  <2>5. Total(Worth, b) = Cell(b, 0, 0) + Cell(b, 0, 1)
                        + Cell(b, 1, 0) + Cell(b, 1, 1)
    BY <1>2, <2>2, <2>3, <2>4
  <2>6. QED
    BY <1>1, <1>7, <2>5
<1>8. CASE SIZE = 3 /\ Positions = {0, 1, 2}
  <2>1. ASSUME NEW i \in Positions
        PROVE  slides[i] = Cell(b, i, 0) + Cell(b, i, 1) + Cell(b, i, 2)
    <3>1. LineSum(line(i)) = 0 + line(i)[0] + line(i)[1] + line(i)[2]
      BY <1>5, <1>8
    <3>2. /\ line(i)[0] = Cell(b, i, 0) /\ Cell(b, i, 0) \in Int
          /\ line(i)[1] = Cell(b, i, 1) /\ Cell(b, i, 1) \in Int
          /\ line(i)[2] = Cell(b, i, 2) /\ Cell(b, i, 2) \in Int
      BY <1>1, <1>6, <1>8
    <3>3. QED
      BY <1>3, <3>1, <3>2
  <2>2. LineSum(slides) = 0 + slides[0] + slides[1] + slides[2]
    BY <1>4, <1>8
  <2>3. /\ slides[0] = Cell(b, 0, 0) + Cell(b, 0, 1) + Cell(b, 0, 2)
        /\ slides[1] = Cell(b, 1, 0) + Cell(b, 1, 1) + Cell(b, 1, 2)
        /\ slides[2] = Cell(b, 2, 0) + Cell(b, 2, 1) + Cell(b, 2, 2)
    BY <1>8, <2>1
  <2>4. /\ Cell(b, 0, 0) \in Int /\ Cell(b, 0, 1) \in Int /\ Cell(b, 0, 2) \in Int
        /\ Cell(b, 1, 0) \in Int /\ Cell(b, 1, 1) \in Int /\ Cell(b, 1, 2) \in Int
        /\ Cell(b, 2, 0) \in Int /\ Cell(b, 2, 1) \in Int /\ Cell(b, 2, 2) \in Int
    BY <1>1, <1>8
  <2>5. Total(Worth, b) = Cell(b, 0, 0) + Cell(b, 0, 1) + Cell(b, 0, 2)
                        + Cell(b, 1, 0) + Cell(b, 1, 1) + Cell(b, 1, 2)
                        + Cell(b, 2, 0) + Cell(b, 2, 1) + Cell(b, 2, 2)
    BY <1>2, <2>2, <2>3, <2>4
  <2>6. QED
    BY <1>1, <1>8, <2>5
<1>9. CASE SIZE = 4 /\ Positions = {0, 1, 2, 3}
  <2>1. ASSUME NEW i \in Positions
        PROVE  slides[i] = Cell(b, i, 0) + Cell(b, i, 1) + Cell(b, i, 2) + Cell(b, i, 3)
    <3>1. LineSum(line(i)) = 0 + line(i)[0] + line(i)[1] + line(i)[2] + line(i)[3]
      BY <1>5, <1>9
    <3>2. /\ line(i)[0] = Cell(b, i, 0) /\ Cell(b, i, 0) \in Int
          /\ line(i)[1] = Cell(b, i, 1) /\ Cell(b, i, 1) \in Int
          /\ line(i)[2] = Cell(b, i, 2) /\ Cell(b, i, 2) \in Int
          /\ line(i)[3] = Cell(b, i, 3) /\ Cell(b, i, 3) \in Int
      BY <1>1, <1>6, <1>9
    <3>3. QED
      BY <1>3, <3>1, <3>2
  <2>2. LineSum(slides) = 0 + slides[0] + slides[1] + slides[2] + slides[3]
    BY <1>4, <1>9
  <2>3. /\ slides[0] = Cell(b, 0, 0) + Cell(b, 0, 1) + Cell(b, 0, 2) + Cell(b, 0, 3)
        /\ slides[1] = Cell(b, 1, 0) + Cell(b, 1, 1) + Cell(b, 1, 2) + Cell(b, 1, 3)
        /\ slides[2] = Cell(b, 2, 0) + Cell(b, 2, 1) + Cell(b, 2, 2) + Cell(b, 2, 3)
        /\ slides[3] = Cell(b, 3, 0) + Cell(b, 3, 1) + Cell(b, 3, 2) + Cell(b, 3, 3)
    BY <1>9, <2>1
  <2>4. /\ Cell(b, 0, 0) \in Int /\ Cell(b, 0, 1) \in Int /\ Cell(b, 0, 2) \in Int /\ Cell(b, 0, 3) \in Int
        /\ Cell(b, 1, 0) \in Int /\ Cell(b, 1, 1) \in Int /\ Cell(b, 1, 2) \in Int /\ Cell(b, 1, 3) \in Int
        /\ Cell(b, 2, 0) \in Int /\ Cell(b, 2, 1) \in Int /\ Cell(b, 2, 2) \in Int /\ Cell(b, 2, 3) \in Int
        /\ Cell(b, 3, 0) \in Int /\ Cell(b, 3, 1) \in Int /\ Cell(b, 3, 2) \in Int /\ Cell(b, 3, 3) \in Int
    BY <1>1, <1>9
  <2>5. Total(Worth, b) = Cell(b, 0, 0) + Cell(b, 0, 1) + Cell(b, 0, 2) + Cell(b, 0, 3)
                        + Cell(b, 1, 0) + Cell(b, 1, 1) + Cell(b, 1, 2) + Cell(b, 1, 3)
                        + Cell(b, 2, 0) + Cell(b, 2, 1) + Cell(b, 2, 2) + Cell(b, 2, 3)
                        + Cell(b, 3, 0) + Cell(b, 3, 1) + Cell(b, 3, 2) + Cell(b, 3, 3)
    BY <1>2, <2>2, <2>3, <2>4
  <2>6. QED
    BY <1>1, <1>9, <2>5
<1>10. QED
  BY <1>1, <1>7, <1>8, <1>9, PositionsAre

\* A turn changes no sum.
LEMMA TotalRotated ==
  ASSUME NEW b \in Boards
  PROVE  Total(Worth, b) \in Int /\ Total(Worth, rotate_board(b)) = Total(Worth, b)
<1> DEFINE c == rotate_board(b)
           w(i, j) == Cell(b, i, j)
           v(i, j) == Cell(c, i, j)
<1>1. c \in Boards
  BY RotateType
<1>2. \A i, j \in Positions : v(i, j) = w(j, SIZE - 1 - i)
  BY RotatedIs DEF Cell
<1> HIDE DEF c
<1>3. CASE SIZE = 2 /\ Positions = {0, 1}
  <2>1. /\ \A i, j \in Positions : w(i, j) \in Int
        /\ Total(Worth, b) = w(0, 0) + w(0, 1) + w(1, 0) + w(1, 1)
        /\ Total(Worth, c) = v(0, 0) + v(0, 1) + v(1, 0) + v(1, 1)
    BY <1>1, <1>3, TotalIs
  <2> HIDE DEF w, v
  <2>2. /\ v(0, 0) = w(0, 1) /\ v(0, 1) = w(1, 1)
        /\ v(1, 0) = w(0, 0) /\ v(1, 1) = w(1, 0)
    BY <1>2, <1>3
  <2>3. w(0, 0) \in Int /\ w(0, 1) \in Int /\ w(1, 0) \in Int /\ w(1, 1) \in Int
    BY <1>3, <2>1
  <2>4. QED
    BY <2>1, <2>2, <2>3 DEF c
<1>4. CASE SIZE = 3 /\ Positions = {0, 1, 2}
  <2>1. /\ \A i, j \in Positions : w(i, j) \in Int
        /\ Total(Worth, b) = w(0, 0) + w(0, 1) + w(0, 2) + w(1, 0) + w(1, 1)
                               + w(1, 2) + w(2, 0) + w(2, 1) + w(2, 2)
        /\ Total(Worth, c) = v(0, 0) + v(0, 1) + v(0, 2) + v(1, 0) + v(1, 1)
                               + v(1, 2) + v(2, 0) + v(2, 1) + v(2, 2)
    BY <1>1, <1>4, TotalIs
  <2> HIDE DEF w, v
  <2>2. /\ v(0, 0) = w(0, 2) /\ v(0, 1) = w(1, 2) /\ v(0, 2) = w(2, 2)
        /\ v(1, 0) = w(0, 1) /\ v(1, 1) = w(1, 1) /\ v(1, 2) = w(2, 1)
        /\ v(2, 0) = w(0, 0) /\ v(2, 1) = w(1, 0) /\ v(2, 2) = w(2, 0)
    BY <1>2, <1>4
  <2>3. /\ w(0, 0) \in Int /\ w(0, 1) \in Int /\ w(0, 2) \in Int
        /\ w(1, 0) \in Int /\ w(1, 1) \in Int /\ w(1, 2) \in Int
        /\ w(2, 0) \in Int /\ w(2, 1) \in Int /\ w(2, 2) \in Int
    BY <1>4, <2>1
  <2>4. QED
    BY <2>1, <2>2, <2>3 DEF c
<1>5. CASE SIZE = 4 /\ Positions = {0, 1, 2, 3}
  <2>1. /\ \A i, j \in Positions : w(i, j) \in Int
        /\ Total(Worth, b) = w(0, 0) + w(0, 1) + w(0, 2) + w(0, 3)
                               + w(1, 0) + w(1, 1) + w(1, 2) + w(1, 3)
                               + w(2, 0) + w(2, 1) + w(2, 2) + w(2, 3)
                               + w(3, 0) + w(3, 1) + w(3, 2) + w(3, 3)
        /\ Total(Worth, c) = v(0, 0) + v(0, 1) + v(0, 2) + v(0, 3)
                               + v(1, 0) + v(1, 1) + v(1, 2) + v(1, 3)
                               + v(2, 0) + v(2, 1) + v(2, 2) + v(2, 3)
                               + v(3, 0) + v(3, 1) + v(3, 2) + v(3, 3)
    BY <1>1, <1>5, TotalIs
  <2> HIDE DEF w, v
  <2>2. /\ v(0, 0) = w(0, 3) /\ v(0, 1) = w(1, 3) /\ v(0, 2) = w(2, 3) /\ v(0, 3) = w(3, 3)
        /\ v(1, 0) = w(0, 2) /\ v(1, 1) = w(1, 2) /\ v(1, 2) = w(2, 2) /\ v(1, 3) = w(3, 2)
        /\ v(2, 0) = w(0, 1) /\ v(2, 1) = w(1, 1) /\ v(2, 2) = w(2, 1) /\ v(2, 3) = w(3, 1)
        /\ v(3, 0) = w(0, 0) /\ v(3, 1) = w(1, 0) /\ v(3, 2) = w(2, 0) /\ v(3, 3) = w(3, 0)
    BY <1>2, <1>5
  <2>3. /\ w(0, 0) \in Int /\ w(0, 1) \in Int /\ w(0, 2) \in Int /\ w(0, 3) \in Int
        /\ w(1, 0) \in Int /\ w(1, 1) \in Int /\ w(1, 2) \in Int /\ w(1, 3) \in Int
        /\ w(2, 0) \in Int /\ w(2, 1) \in Int /\ w(2, 2) \in Int /\ w(2, 3) \in Int
        /\ w(3, 0) \in Int /\ w(3, 1) \in Int /\ w(3, 2) \in Int /\ w(3, 3) \in Int
    BY <1>5, <2>1
  <2>4. QED
    BY <2>1, <2>2, <2>3 DEF c
<1>6. QED
  BY <1>3, <1>4, <1>5, PositionsAre

\* Nor do the turns of a move.
LEMMA TotalTurned ==
  ASSUME NEW b \in Boards, NEW n \in {0, 1, 2, 3, 4}
  PROVE  Total(Worth, b) \in Int /\ Total(Worth, Turned(n, b)) = Total(Worth, b)
<1> DEFINE one == rotate_board(b)
           two == rotate_board(one)
           three == rotate_board(two)
<1>1. one \in Boards /\ two \in Boards
  BY RotateType
<1>2. Total(Worth, b) \in Int /\ Total(Worth, one) = Total(Worth, b)
  BY TotalRotated
<1>3. Total(Worth, two) = Total(Worth, one)
  BY <1>1, TotalRotated
<1>4. Total(Worth, three) = Total(Worth, two)
  BY <1>1, TotalRotated
<1>5. /\ Turned(0, b) = b /\ Turned(4, b) = b /\ Turned(1, b) = one /\ Turned(2, b) = two
      /\ Turned(3, b) = three
  BY TurnedIs
<1> HIDE DEF one, two, three
<1>6. Turned(n, b) \in {b, one, two, three}
  BY <1>5
<1>7. QED
  BY <1>2, <1>3, <1>4, <1>6

\* The sum of differences.
LEMMA SumLess ==
  ASSUME NEW f \in [Positions -> Int], NEW g \in [Positions -> Int], NEW h,
         \A i \in Positions : h[i] = f[i] - g[i]
  PROVE  LineSum(h) = LineSum(f) - LineSum(g)
<1>1. CASE SIZE = 2 /\ Positions = {0, 1}
  <2>1. /\ LineSum(f) = 0 + f[0] + f[1] /\ LineSum(g) = 0 + g[0] + g[1]
        /\ LineSum(h) = 0 + h[0] + h[1]
    BY <1>1, SumIs
  <2>2. /\ f[0] \in Int /\ f[1] \in Int /\ g[0] \in Int /\ g[1] \in Int
        /\ h[0] = f[0] - g[0] /\ h[1] = f[1] - g[1]
    BY <1>1
  <2>3. QED
    BY <2>1, <2>2
<1>2. CASE SIZE = 3 /\ Positions = {0, 1, 2}
  <2>1. /\ LineSum(f) = 0 + f[0] + f[1] + f[2] /\ LineSum(g) = 0 + g[0] + g[1] + g[2]
        /\ LineSum(h) = 0 + h[0] + h[1] + h[2]
    BY <1>2, SumIs
  <2>2. /\ f[0] \in Int /\ f[1] \in Int /\ f[2] \in Int
        /\ g[0] \in Int /\ g[1] \in Int /\ g[2] \in Int
        /\ h[0] = f[0] - g[0] /\ h[1] = f[1] - g[1] /\ h[2] = f[2] - g[2]
    BY <1>2
  <2>3. QED
    BY <2>1, <2>2
<1>3. CASE SIZE = 4 /\ Positions = {0, 1, 2, 3}
  <2>1. /\ LineSum(f) = 0 + f[0] + f[1] + f[2] + f[3]
        /\ LineSum(g) = 0 + g[0] + g[1] + g[2] + g[3]
        /\ LineSum(h) = 0 + h[0] + h[1] + h[2] + h[3]
    BY <1>3, SumIs
  <2>2. /\ f[0] \in Int /\ f[1] \in Int /\ f[2] \in Int /\ f[3] \in Int
        /\ g[0] \in Int /\ g[1] \in Int /\ g[2] \in Int /\ g[3] \in Int
        /\ h[0] = f[0] - g[0] /\ h[1] = f[1] - g[1]
        /\ h[2] = f[2] - g[2] /\ h[3] = f[3] - g[3]
    BY <1>3
  <2>3. QED
    BY <2>1, <2>2
<1>4. QED
  BY <1>1, <1>2, <1>3, PositionsAre

\* Gesture dir slides every line of the board as seen from that edge.
LEMMA MoveIs ==
  ASSUME NEW b \in Boards, NEW dir \in Dirs
  PROVE  /\ move(dir, b).board \in Boards
         /\ \A k \in Positions : Seen(dir, k, move(dir, b).board) = Slid(Seen(dir, k, b))
         /\ move(dir, b).score \in Int
         /\ move(dir, b).score = Total(Worth, move(dir, b).board) - Total(Worth, b)
<1> DEFINE t == Turned(Turns(dir), b)
           slid == [i \in Positions |-> slide_array(t[i])]
           slides == [i \in Positions |-> slid[i].array]
           m == move(dir, b)
           c == Turned(4 - Turns(dir), slides)
           gains == [i \in Positions |-> slid[i].score]
<1>1. m.board = c /\ m.score = LineSum(gains)
  BY DEF move
<1>2. t \in Boards /\ \A i \in Positions : t[i] = Seen(dir, Aside(dir, i), b)
  BY TurnedLines
<1> HIDE DEF t
<1>3. ASSUME NEW i \in Positions
      PROVE  /\ slides[i] \in [Positions -> Nat] /\ slides[i] = Slid(t[i])
             /\ gains[i] \in Int /\ gains[i] = Worth(slides[i]) - Worth(t[i])
             /\ Worth(slides[i]) \in Int /\ Worth(t[i]) \in Int
  <2>1. PICK a : a = t[i]
    OBVIOUS
  <2>2. a \in [Positions -> Nat]
    BY <1>2, <2>1 DEF Boards
  <2>3. PICK s : s = slide_array(a)
    OBVIOUS
  <2>4. /\ s.array \in [Positions -> Nat] /\ s.score \in Int /\ s.array = Slid(a)
        /\ s.score = Worth(s.array) - Worth(a)
    BY <2>2, <2>3, SlidesRight
  <2>5. slides[i] = s.array /\ gains[i] = s.score
    BY <2>1, <2>3
  <2> HIDE DEF slides, gains
  <2>6. Worth(slides[i]) \in Int /\ Worth(a) \in Int
    BY <2>2, <2>4, <2>5, WorthType
  <2>7. QED
    BY <2>1, <2>4, <2>5, <2>6
<1>4. slides \in Boards
  BY <1>3 DEF Boards
<1> HIDE DEF slid, slides, gains, m
<1>5. c \in Boards /\ Turned(Turns(dir), c) = slides
  BY <1>4, TurnedBack
<1> HIDE DEF c
<1>6. \A i \in Positions : slides[i] = Seen(dir, Aside(dir, i), c)
  BY <1>5, TurnedLines
<1>7. ASSUME NEW k \in Positions PROVE Seen(dir, k, c) = Slid(Seen(dir, k, b))
  <2>1. PICK i \in Positions : Aside(dir, i) = k
    <3>1. Aside(dir, k) \in Positions /\ Aside(dir, Aside(dir, k)) = k
      BY PositionsOk DEF Aside
    <3>2. QED
      BY <3>1
  <2>2. slides[i] = Seen(dir, k, c) /\ t[i] = Seen(dir, k, b)
    BY <1>2, <1>6, <2>1
  <2>3. slides[i] = Slid(t[i])
    BY <1>3
  <2>4. QED
    BY <2>2, <2>3
<1>8. LineSum(gains) = Total(Worth, slides) - Total(Worth, t)
  <2> DEFINE f == [i \in Positions |-> Worth(slides[i])]
             g == [i \in Positions |-> Worth(t[i])]
  <2>1. f \in [Positions -> Int] /\ g \in [Positions -> Int]
    BY <1>3
  <2>2. \A i \in Positions : gains[i] = f[i] - g[i]
    BY <1>3
  <2>3. Total(Worth, slides) = LineSum(f) /\ Total(Worth, t) = LineSum(g)
    BY DEF Total
  <2> HIDE DEF f, g
  <2>4. QED
    BY <2>1, <2>2, <2>3, SumLess
<1>9. /\ Total(Worth, slides) \in Int /\ Total(Worth, slides) = Total(Worth, c)
      /\ Total(Worth, b) \in Int /\ Total(Worth, t) = Total(Worth, b)
  <2>1. Turns(dir) \in {0, 1, 2, 3, 4}
    BY TurnsAre
  <2>2. Total(Worth, Turned(Turns(dir), c)) = Total(Worth, c) /\ Total(Worth, c) \in Int
    BY <1>5, <2>1, TotalTurned
  <2>3. Total(Worth, Turned(Turns(dir), b)) = Total(Worth, b) /\ Total(Worth, b) \in Int
    BY <2>1, TotalTurned
  <2>4. QED
    BY <1>5, <2>2, <2>3 DEF t
<1>10. QED
  BY <1>1, <1>5, <1>7, <1>8, <1>9 DEF m

-----------------------------------------------------------------------------
(* The game *)

\* The board without the tile at (x, y).
Without(b, x, y) == [b EXCEPT ![x][y] = 0]

\* add_random puts a tile of 2 or 4 on one free cell.
LEMMA RandomIs ==
  ASSUME NEW b \in Boards, NEW d \in add_random(b)
  PROVE  \E x, y \in Positions :
           /\ d \in Boards
           /\ b[x][y] = 0 /\ d[x][y] \in {1, 2}
           /\ \A i, j \in Positions : i # x \/ j # y => d[i][j] = b[i][j]
           /\ Without(d, x, y) = b
<1>1. PICK c \in Positions \X Positions, n \in {1, 2} :
        b[c[1]][c[2]] = 0 /\ d = [b EXCEPT ![c[1]][c[2]] = n]
  <2> DEFINE Put(c, n) == [b EXCEPT ![c[1]][c[2]] = n]
             Free == {e \in Positions \X Positions : b[e[1]][e[2]] = 0}
  <2>1. add_random(b) = {Put(c, n) : c \in Free, n \in {1, 2}}
    BY SMT DEF add_random
  <2> HIDE DEF Put, Free
  <2>2. PICK c \in Free, n \in {1, 2} : d = Put(c, n)
    BY <2>1
  <2>3. QED
    BY <2>2 DEF Put, Free
<1>2. PICK x \in Positions, y \in Positions : x = c[1] /\ y = c[2]
  OBVIOUS
<1>3. b[x][y] = 0 /\ d = [b EXCEPT ![x][y] = n]
  BY <1>1, <1>2
<1>4. b \in [Positions -> [Positions -> Nat]] /\ n \in Nat
  BY DEF Boards
<1>5. d \in [Positions -> [Positions -> Nat]]
  BY <1>3, <1>4
<1>6. d[x][y] = n /\ \A i, j \in Positions : i # x \/ j # y => d[i][j] = b[i][j]
  BY <1>3, <1>4
<1>7. Without(d, x, y) = b
  <2> DEFINE e == [d EXCEPT ![x][y] = 0]
  <2>1. e \in [Positions -> [Positions -> Nat]]
    BY <1>5
  <2>2. ASSUME NEW i \in Positions, NEW j \in Positions PROVE e[i][j] = b[i][j]
    <3>1. CASE i = x /\ j = y
      BY <1>3, <1>5, <3>1
    <3>2. CASE i # x \/ j # y
      <4>1. e[i][j] = d[i][j]
        BY <1>5, <3>2
      <4>2. QED
        BY <1>6, <3>2, <4>1
    <3>3. QED
      BY <3>1, <3>2
  <2> HIDE DEF e
  <2>3. \A i \in Positions : e[i] = b[i]
    <3>1. ASSUME NEW i \in Positions PROVE e[i] = b[i]
      <4>1. e[i] \in [Positions -> Nat] /\ b[i] \in [Positions -> Nat]
        BY <1>4, <2>1
      <4>2. QED
        BY <2>2, <4>1
    <3>2. QED
      BY <3>1
  <2>4. e = b
    BY <1>4, <2>1, <2>3
  <2>5. QED
    BY <2>4 DEF e, Without
<1>8. d \in Boards
  BY <1>5 DEF Boards
<1>9. QED
  BY <1>3, <1>6, <1>7, <1>8

\* The board is never empty, and play_game tells of this very board whether the
\* game has ended.
BoardInv ==
  /\ board \in Boards
  /\ current_score_value \in Int
  /\ \E i, j \in Positions : board[i][j] # 0
  /\ play_game = ~game_ended(board)

\* Two tiles do not fill the board.
LEMMA BoardInit == Init => BoardInv
<1> SUFFICES ASSUME Init PROVE BoardInv
  OBVIOUS
<1>1. PICK b \in add_random(Empty) : board \in add_random(b)
  BY DEF Init
<1>2. Empty \in Boards /\ \A i, j \in Positions : Empty[i][j] = 0
  BY DEF Empty, Boards
<1>3. PICK x \in Positions, y \in Positions :
        /\ b \in Boards
        /\ \A i, j \in Positions : i # x \/ j # y => b[i][j] = Empty[i][j]
  BY <1>2, RandomIs
<1>4. PICK u \in Positions, v \in Positions :
        /\ board \in Boards /\ board[u][v] \in {1, 2}
        /\ \A i, j \in Positions : i # u \/ j # v => board[i][j] = b[i][j]
  BY <1>1, <1>3, RandomIs
<1>5. \A i, j \in Positions : (i # u \/ j # v) /\ (i # x \/ j # y) => board[i][j] = 0
  BY <1>2, <1>3, <1>4
<1>6. 0 \in Positions /\ 1 \in Positions
  BY PositionsOk, PositionsAre
<1>7. board[0][0] = 0 \/ board[0][1] = 0 \/ board[1][0] = 0
  BY <1>5, <1>6
<1>8. ~game_ended(board)
  BY <1>6, <1>7 DEF game_ended
<1>9. current_score_value = 0 /\ play_game = TRUE
  BY DEF Init
<1>10. play_game = ~game_ended(board)
  BY <1>8, <1>9, Zenon
<1>11. \E i, j \in Positions : board[i][j] # 0
  BY <1>4
<1>12. QED
  BY <1>4, <1>9, <1>10, <1>11 DEF BoardInv

\* What one gesture does: the tiles slide, one cell that they left free gets a
\* tile of 2 or 4.
LEMMA GestureIs ==
  ASSUME BoardInv, NEW dir \in Dirs, Gesture(dir)
  PROVE  /\ BoardInv'
         /\ \E x, y \in Positions :
              /\ board'[x][y] \in {1, 2}
              /\ \A k \in Positions :
                   Seen(dir, k, Without(board', x, y)) = Slid(Seen(dir, k, board))
              /\ current_score_value' - current_score_value
                   = Total(Worth, Without(board', x, y)) - Total(Worth, board)
<1>1. PICK m : m = move(dir, board)
  OBVIOUS
<1>2. /\ board' \in add_random(m.board)
      /\ play_game' = ~game_ended(board')
      /\ current_score_value' = current_score_value + m.score
  BY <1>1 DEF Gesture
<1>3. board \in Boards /\ current_score_value \in Int
  BY DEF BoardInv
<1>4. /\ m.board \in Boards
      /\ \A k \in Positions : Seen(dir, k, m.board) = Slid(Seen(dir, k, board))
      /\ m.score \in Int
      /\ m.score = Total(Worth, m.board) - Total(Worth, board)
  BY <1>1, <1>3, MoveIs
<1>5. PICK x \in Positions, y \in Positions :
        /\ board' \in Boards /\ board'[x][y] \in {1, 2}
        /\ Without(board', x, y) = m.board
  BY <1>2, <1>4, RandomIs
<1>6. BoardInv'
  <2>1. current_score_value' \in Int
    BY <1>2, <1>3, <1>4
  <2>2. \E i, j \in Positions : board'[i][j] # 0
    BY <1>5
  <2>3. QED
    BY <1>2, <1>5, <2>1, <2>2 DEF BoardInv
<1>7. current_score_value' - current_score_value = m.score
  BY <1>2, <1>3, <1>4
<1>8. /\ \A k \in Positions :
           Seen(dir, k, Without(board', x, y)) = Slid(Seen(dir, k, board))
      /\ current_score_value' - current_score_value
           = Total(Worth, Without(board', x, y)) - Total(Worth, board)
  BY <1>4, <1>5, <1>7
<1>9. QED
  BY <1>5, <1>6, <1>8

\* Every step keeps the invariant.
LEMMA BoardNext == BoardInv /\ [Next]_vars => BoardInv'
<1> SUFFICES ASSUME BoardInv, [Next]_vars PROVE BoardInv'
  OBVIOUS
<1>1. CASE Next
  BY <1>1, GestureIs DEF Next
<1>2. CASE UNCHANGED vars
  BY <1>2 DEF vars, BoardInv
<1>3. QED
  BY <1>1, <1>2

LEMMA BoardAlways == Spec => []BoardInv
BY BoardInit, BoardNext, PTL DEF Spec

\* The game is over when no gesture would change the board, and no earlier, on
\* boards of two to four cells a side and with tiles of any value (game_ended,
\* f_game_2048.c:653).
THEOREM OverIffStuckCorrect == Spec => []OverIffStuck
<1>1. BoardInv => OverIffStuck
  <2> SUFFICES ASSUME BoardInv PROVE OverIffStuck
    OBVIOUS
  <2>1. PICK p \in Positions, q \in Positions : board \in Boards /\ board[p][q] # 0
    BY DEF BoardInv
  <2>2. game_ended(board)
          <=> \A dir \in Dirs, k \in Positions :
                Slid(Seen(dir, k, board)) = Seen(dir, k, board)
    BY <2>1, StuckIsEnded
  <2>3. QED
    BY <2>2 DEF BoardInv, OverIffStuck
<1>2. QED
  BY <1>1, BoardAlways, PTL

\* Every gesture slides each line of the board to the edge it points to, merges by
\* the rules and adds one tile on a cell that was left empty; the score grows by
\* what the merges were worth (event_handler_play_2048, l.89-147, and the moves,
\* l.537-604).
THEOREM MovesByRulesCorrect == Spec => MovesByRules
<1> DEFINE Rules ==
      \A dir \in Dirs : Gesture(dir) =>
        \E c \in Positions \X Positions :
          LET slid == [board' EXCEPT ![c[1]][c[2]] = 0]
          IN  /\ board'[c[1]][c[2]] \in {1, 2}
              /\ \A k \in Positions : Seen(dir, k, slid) = Slid(Seen(dir, k, board))
              /\ current_score_value' - current_score_value
                   = Total(Worth, slid) - Total(Worth, board)
<1>1. BoardInv /\ [Next]_vars => [Rules]_vars
  <2> SUFFICES ASSUME BoardInv PROVE Rules
    OBVIOUS
  <2> SUFFICES ASSUME NEW dir \in Dirs, Gesture(dir)
               PROVE  \E c \in Positions \X Positions :
                        LET slid == [board' EXCEPT ![c[1]][c[2]] = 0]
                        IN  /\ board'[c[1]][c[2]] \in {1, 2}
                            /\ \A k \in Positions :
                                 Seen(dir, k, slid) = Slid(Seen(dir, k, board))
                            /\ current_score_value' - current_score_value
                                 = Total(Worth, slid) - Total(Worth, board)
    OBVIOUS
  <2>1. PICK x \in Positions, y \in Positions :
          /\ board'[x][y] \in {1, 2}
          /\ \A k \in Positions :
               Seen(dir, k, Without(board', x, y)) = Slid(Seen(dir, k, board))
          /\ current_score_value' - current_score_value
               = Total(Worth, Without(board', x, y)) - Total(Worth, board)
    BY GestureIs
  <2>2. PICK c \in Positions \X Positions : c = <<x, y>>
    OBVIOUS
  <2>3. c[1] = x /\ c[2] = y
    BY <2>2
  <2> WITNESS c \in Positions \X Positions
  <2>4. QED
    BY <2>1, <2>3 DEF Without
<1>2. QED
  BY <1>1, BoardAlways, PTL DEF Spec, MovesByRules
-----------------------------------------------------------------------------
(* The line of the real board *)

R == INSTANCE Slide2048Proof WITH SIZE <- 4

\* What is proved of Slide2048 is about the instance that MCGame2048 checks.
LEMMA RealIs ==
  /\ R!SizeAssumption /\ R!Positions = Real!Positions
  /\ \A a : /\ R!slide_array(a) = Real!slide_array(a)
            /\ R!Slid(a) = Real!Slid(a) /\ R!Worth(a) = Real!Worth(a)
<1>1. R!SizeAssumption
  BY DEF R!SizeAssumption
<1>2. R!Positions = Real!Positions
  BY DEF R!Positions, Real!Positions
<1>3. \A a : R!Sliding(a) = Real!Sliding(a)
  BY DEF R!Sliding, Real!Sliding, R!SlideStep, Real!SlideStep, R!find_target,
         Real!find_target, R!Max, Real!Max, R!Start, Real!Start
<1>4. \A a : R!slide_array(a) = Real!slide_array(a)
  BY <1>3 DEF R!slide_array, Real!slide_array
<1>5. \A a : R!Slid(a) = Real!Slid(a)
  BY DEF R!Slid, Real!Slid, R!TilesTo, Real!TilesTo, R!MergedFrom, Real!MergedFrom,
         R!Positions, Real!Positions
<1>6. \A a : R!Worth(a) = Real!Worth(a)
  BY DEF R!Worth, Real!Worth, R!LineSum, Real!LineSum, R!SumsTo, Real!SumsTo, R!Positions,
         Real!Positions
<1>7. QED
  BY <1>1, <1>2, <1>4, <1>5, <1>6

\* On a line of four cells, whatever its tiles, the loop of
\* lv_f_game_2048_slide_array ends with the line that the rules ask for, success
\* tells whether it has changed, and the score is what the merges were worth
\* (f_game_2048.c:473).
THEOREM SlideByRulesCorrect == Spec => []SlideByRules
<1>1. ASSUME NEW a \in Lines
      PROVE  LET s == Real!slide_array(a) IN
             /\ s.array = Real!Slid(a)
             /\ s.success <=> s.array # a
             /\ s.score = Real!Worth(s.array) - Real!Worth(a)
  <2>1. a \in [R!Positions -> Nat]
    BY RealIs DEF Lines
  <2>2. PICK s : s = R!slide_array(a)
    OBVIOUS
  <2>3. /\ s.array = R!Slid(a) /\ (s.success <=> s.array # a)
        /\ s.score = R!Worth(s.array) - R!Worth(a)
    BY <2>1, <2>2, RealIs, R!SlidesRight
  <2>4. QED
    BY <2>2, <2>3, RealIs
<1>2. SlideByRules
  BY <1>1 DEF SlideByRules
<1>3. QED
  BY <1>2, PTL

-----------------------------------------------------------------------------
(* Tetris *)

-----------------------------------------------------------------------------
(* The tables *)

\* What a bit of a pattern says.
LEMMA Bits ==
  ASSUME NEW bits \in Nat, NEW b
  PROVE  b \in Boxes(bits) <=>
           \/ b = <<0, 0>> /\ (bits \div 32768) % 2 = 1
           \/ b = <<1, 0>> /\ (bits \div 16384) % 2 = 1
           \/ b = <<2, 0>> /\ (bits \div 8192) % 2 = 1
           \/ b = <<3, 0>> /\ (bits \div 4096) % 2 = 1
           \/ b = <<0, 1>> /\ (bits \div 2048) % 2 = 1
           \/ b = <<1, 1>> /\ (bits \div 1024) % 2 = 1
           \/ b = <<2, 1>> /\ (bits \div 512) % 2 = 1
           \/ b = <<3, 1>> /\ (bits \div 256) % 2 = 1
           \/ b = <<0, 2>> /\ (bits \div 128) % 2 = 1
           \/ b = <<1, 2>> /\ (bits \div 64) % 2 = 1
           \/ b = <<2, 2>> /\ (bits \div 32) % 2 = 1
           \/ b = <<3, 2>> /\ (bits \div 16) % 2 = 1
           \/ b = <<0, 3>> /\ (bits \div 8) % 2 = 1
           \/ b = <<1, 3>> /\ (bits \div 4) % 2 = 1
           \/ b = <<2, 3>> /\ (bits \div 2) % 2 = 1
           \/ b = <<3, 3>> /\ (bits \div 1) % 2 = 1
<1>1. /\ BitValue[1] = 32768 /\ BitValue[2] = 16384 /\ BitValue[3] = 8192 /\ BitValue[4] = 4096
      /\ BitValue[5] = 2048 /\ BitValue[6] = 1024 /\ BitValue[7] = 512 /\ BitValue[8] = 256
      /\ BitValue[9] = 128 /\ BitValue[10] = 64 /\ BitValue[11] = 32 /\ BitValue[12] = 16
      /\ BitValue[13] = 8 /\ BitValue[14] = 4 /\ BitValue[15] = 2 /\ BitValue[16] = 1
  BY DEF BitValue
<1>2. b \in (0..3) \X (0..3) =>
        b \in {<<0, 0>>, <<1, 0>>, <<2, 0>>, <<3, 0>>,
               <<0, 1>>, <<1, 1>>, <<2, 1>>, <<3, 1>>,
               <<0, 2>>, <<1, 2>>, <<2, 2>>, <<3, 2>>,
               <<0, 3>>, <<1, 3>>, <<2, 3>>, <<3, 3>>}
  OBVIOUS
<1>3. /\ <<0, 0>> \in Boxes(bits) <=> (bits \div 32768) % 2 = 1
      /\ <<1, 0>> \in Boxes(bits) <=> (bits \div 16384) % 2 = 1
      /\ <<2, 0>> \in Boxes(bits) <=> (bits \div 8192) % 2 = 1
      /\ <<3, 0>> \in Boxes(bits) <=> (bits \div 4096) % 2 = 1
  BY <1>1 DEF Boxes
<1>4. /\ <<0, 1>> \in Boxes(bits) <=> (bits \div 2048) % 2 = 1
      /\ <<1, 1>> \in Boxes(bits) <=> (bits \div 1024) % 2 = 1
      /\ <<2, 1>> \in Boxes(bits) <=> (bits \div 512) % 2 = 1
      /\ <<3, 1>> \in Boxes(bits) <=> (bits \div 256) % 2 = 1
  BY <1>1 DEF Boxes
<1>5. /\ <<0, 2>> \in Boxes(bits) <=> (bits \div 128) % 2 = 1
      /\ <<1, 2>> \in Boxes(bits) <=> (bits \div 64) % 2 = 1
      /\ <<2, 2>> \in Boxes(bits) <=> (bits \div 32) % 2 = 1
      /\ <<3, 2>> \in Boxes(bits) <=> (bits \div 16) % 2 = 1
  BY <1>1 DEF Boxes
<1>6. /\ <<0, 3>> \in Boxes(bits) <=> (bits \div 8) % 2 = 1
      /\ <<1, 3>> \in Boxes(bits) <=> (bits \div 4) % 2 = 1
      /\ <<2, 3>> \in Boxes(bits) <=> (bits \div 2) % 2 = 1
      /\ <<3, 3>> \in Boxes(bits) <=> (bits \div 1) % 2 = 1
  BY <1>1 DEF Boxes
<1>7. b \in Boxes(bits) => b \in (0..3) \X (0..3)
  BY DEF Boxes
<1>8. QED
  BY <1>2, <1>3, <1>4, <1>5, <1>6, <1>7

LEMMA FourBoxes ==
  ASSUME NEW a, NEW b, NEW c, NEW d, a # b, a # c, a # d, b # c, b # d, c # d
  PROVE  IsFiniteSet({a, b, c, d}) /\ Cardinality({a, b, c, d}) = 4
<1>1. IsFiniteSet({a}) /\ Cardinality({a}) = 1
  BY FS_Singleton
<1>2. IsFiniteSet({a} \cup {b}) /\ Cardinality({a} \cup {b}) = 2
  BY <1>1, FS_AddElement
<1>3. IsFiniteSet({a, b} \cup {c}) /\ Cardinality({a, b} \cup {c}) = 3
  <2>1. {a, b} = {a} \cup {b} /\ c \notin {a, b}
    OBVIOUS
  <2>2. IsFiniteSet({a, b}) /\ Cardinality({a, b}) = 2
    BY <1>2, <2>1
  <2>3. QED
    BY <2>1, <2>2, FS_AddElement
<1>4. {a, b, c, d} = {a, b, c} \cup {d} /\ {a, b, c} = {a, b} \cup {c} /\ d \notin {a, b, c}
  OBVIOUS
<1>5. IsFiniteSet({a, b, c}) /\ Cardinality({a, b, c}) = 3
  BY <1>3, <1>4
<1>6. IsFiniteSet({a, b, c} \cup {d}) /\ Cardinality({a, b, c} \cup {d}) = 4
  BY <1>4, <1>5, FS_AddElement
<1>7. QED
  BY <1>4, <1>6

\* Four boxes, in whichever way a brick is turned.
Fours(bits) == IsFiniteSet(Boxes(bits)) /\ Cardinality(Boxes(bits)) = 4
MadeOf(bits, a, b, c, d) ==
  Boxes(bits) = {a, b, c, d} /\ a # b /\ a # c /\ a # d /\ b # c /\ b # d /\ c # d

LEMMA MadeOfFour ==
  ASSUME NEW bits, NEW a, NEW b, NEW c, NEW d, MadeOf(bits, a, b, c, d) PROVE Fours(bits)
<1>1. Boxes(bits) = {a, b, c, d} /\ IsFiniteSet({a, b, c, d}) /\ Cardinality({a, b, c, d}) = 4
  BY FourBoxes DEF MadeOf
<1>2. QED
  BY <1>1 DEF Fours

LEMMA TablesAre ==
  \A t \in 0..6, r \in 0..3 : /\ Shape[t + 1][r + 1] = Boxes(brick_table[t + 1][r + 1])
                             /\ Mask[t + 1][r + 1] = Boxes(rotate_mask[t + 1][r + 1])
<1>1. ASSUME NEW row, NEW r \in 0..3 PROVE Patterns4(row)[r + 1] = Boxes(row[r + 1])
  BY DEF Patterns4
<1>2. ASSUME NEW table, NEW t \in 0..6 PROVE Patterns7(table)[t + 1] = Patterns4(table[t + 1])
  BY DEF Patterns7
<1>3. QED
  BY <1>1, <1>2 DEF Shape, Mask

LEMMA Patterns ==
  \A t \in 0..6, r \in 0..3 : IsFiniteSet(Shape[t + 1][r + 1]) /\ Cardinality(Shape[t + 1][r + 1]) = 4
<1>1. Fours(\h6C00) /\ Fours(\h4620) /\ Fours(\h06C0) /\ Fours(\h8C40)
  <2>1. MadeOf(\h6C00, <<1, 0>>, <<2, 0>>, <<0, 1>>, <<1, 1>>)
    BY Bits DEF MadeOf
  <2>2. MadeOf(\h4620, <<1, 0>>, <<1, 1>>, <<2, 1>>, <<2, 2>>)
    BY Bits DEF MadeOf
  <2>3. MadeOf(\h06C0, <<1, 1>>, <<2, 1>>, <<0, 2>>, <<1, 2>>)
    BY Bits DEF MadeOf
  <2>4. MadeOf(\h8C40, <<0, 0>>, <<0, 1>>, <<1, 1>>, <<1, 2>>)
    BY Bits DEF MadeOf
  <2>5. QED
    BY <2>1, <2>2, <2>3, <2>4, MadeOfFour
<1>2. Fours(\hC600) /\ Fours(\h2640) /\ Fours(\h0C60) /\ Fours(\h4C80)
  <2>1. MadeOf(\hC600, <<0, 0>>, <<1, 0>>, <<1, 1>>, <<2, 1>>)
    BY Bits DEF MadeOf
  <2>2. MadeOf(\h2640, <<2, 0>>, <<1, 1>>, <<2, 1>>, <<1, 2>>)
    BY Bits DEF MadeOf
  <2>3. MadeOf(\h0C60, <<0, 1>>, <<1, 1>>, <<1, 2>>, <<2, 2>>)
    BY Bits DEF MadeOf
  <2>4. MadeOf(\h4C80, <<1, 0>>, <<0, 1>>, <<1, 1>>, <<0, 2>>)
    BY Bits DEF MadeOf
  <2>5. QED
    BY <2>1, <2>2, <2>3, <2>4, MadeOfFour
<1>3. Fours(\h88C0) /\ Fours(\hE800) /\ Fours(\h6220) /\ Fours(\h02E0)
  <2>1. MadeOf(\h88C0, <<0, 0>>, <<0, 1>>, <<0, 2>>, <<1, 2>>)
    BY Bits DEF MadeOf
  <2>2. MadeOf(\hE800, <<0, 0>>, <<1, 0>>, <<2, 0>>, <<0, 1>>)
    BY Bits DEF MadeOf
  <2>3. MadeOf(\h6220, <<1, 0>>, <<2, 0>>, <<2, 1>>, <<2, 2>>)
    BY Bits DEF MadeOf
  <2>4. MadeOf(\h02E0, <<2, 1>>, <<0, 2>>, <<1, 2>>, <<2, 2>>)
    BY Bits DEF MadeOf
  <2>5. QED
    BY <2>1, <2>2, <2>3, <2>4, MadeOfFour
<1>4. Fours(\h2260) /\ Fours(\h08E0) /\ Fours(\hC880) /\ Fours(\hE200)
  <2>1. MadeOf(\h2260, <<2, 0>>, <<2, 1>>, <<1, 2>>, <<2, 2>>)
    BY Bits DEF MadeOf
  <2>2. MadeOf(\h08E0, <<0, 1>>, <<0, 2>>, <<1, 2>>, <<2, 2>>)
    BY Bits DEF MadeOf
  <2>3. MadeOf(\hC880, <<0, 0>>, <<1, 0>>, <<0, 1>>, <<0, 2>>)
    BY Bits DEF MadeOf
  <2>4. MadeOf(\hE200, <<0, 0>>, <<1, 0>>, <<2, 0>>, <<2, 1>>)
    BY Bits DEF MadeOf
  <2>5. QED
    BY <2>1, <2>2, <2>3, <2>4, MadeOfFour
<1>5. Fours(\h4444) /\ Fours(\h0F00) /\ Fours(\h2222) /\ Fours(\h00F0)
  <2>1. MadeOf(\h4444, <<1, 0>>, <<1, 1>>, <<1, 2>>, <<1, 3>>)
    BY Bits DEF MadeOf
  <2>2. MadeOf(\h0F00, <<0, 1>>, <<1, 1>>, <<2, 1>>, <<3, 1>>)
    BY Bits DEF MadeOf
  <2>3. MadeOf(\h2222, <<2, 0>>, <<2, 1>>, <<2, 2>>, <<2, 3>>)
    BY Bits DEF MadeOf
  <2>4. MadeOf(\h00F0, <<0, 2>>, <<1, 2>>, <<2, 2>>, <<3, 2>>)
    BY Bits DEF MadeOf
  <2>5. QED
    BY <2>1, <2>2, <2>3, <2>4, MadeOfFour
<1>6. Fours(\hCC00)
  <2>1. MadeOf(\hCC00, <<0, 0>>, <<1, 0>>, <<0, 1>>, <<1, 1>>)
    BY Bits DEF MadeOf
  <2>2. QED
    BY <2>1, MadeOfFour
<1>7. Fours(\hE400) /\ Fours(\h2620) /\ Fours(\h04E0) /\ Fours(\h8C80)
  <2>1. MadeOf(\hE400, <<0, 0>>, <<1, 0>>, <<2, 0>>, <<1, 1>>)
    BY Bits DEF MadeOf
  <2>2. MadeOf(\h2620, <<2, 0>>, <<1, 1>>, <<2, 1>>, <<2, 2>>)
    BY Bits DEF MadeOf
  <2>3. MadeOf(\h04E0, <<1, 1>>, <<0, 2>>, <<1, 2>>, <<2, 2>>)
    BY Bits DEF MadeOf
  <2>4. MadeOf(\h8C80, <<0, 0>>, <<0, 1>>, <<1, 1>>, <<0, 2>>)
    BY Bits DEF MadeOf
  <2>5. QED
    BY <2>1, <2>2, <2>3, <2>4, MadeOfFour
<1>8. ASSUME NEW t \in 0..6, NEW r \in 0..3 PROVE Fours(brick_table[t + 1][r + 1])
  <2>1. CASE t = 0
    BY <1>1, <2>1 DEF brick_table
  <2>2. CASE t = 1
    BY <1>2, <2>2 DEF brick_table
  <2>3. CASE t = 2
    BY <1>3, <2>3 DEF brick_table
  <2>4. CASE t = 3
    BY <1>4, <2>4 DEF brick_table
  <2>5. CASE t = 4
    BY <1>5, <2>5 DEF brick_table
  <2>6. CASE t = 5
    BY <1>6, <2>6 DEF brick_table
  <2>7. CASE t = 6
    BY <1>7, <2>7 DEF brick_table
  <2>8. QED
    BY <2>1, <2>2, <2>3, <2>4, <2>5, <2>6, <2>7
<1>9. QED
  BY <1>8, TablesAre DEF Fours

\* The mask of a rotation covers the brick it leads to, but for the third
\* position of Z (MasksCover of MCTetris).
LEMMA MasksCoverBut ==
  \A t \in 0..6, r \in 0..3 :
    t # 1 \/ r # 2 => Shape[t + 1][r + 1] \subseteq Mask[t + 1][r + 1]
<1> DEFINE Covers(t, r) ==
             Boxes(brick_table[t + 1][r + 1]) \subseteq Boxes(rotate_mask[t + 1][r + 1])
<1>1. ASSUME NEW r \in 0..3 PROVE Covers(0, r)
  <2>1. Boxes(\h6C00) \subseteq Boxes(\hEE20)
    BY Bits
  <2>2. Boxes(\h4620) \subseteq Boxes(\h66E0)
    BY Bits
  <2>3. Boxes(\h06C0) \subseteq Boxes(\h8EE0)
    BY Bits
  <2>4. Boxes(\h8C40) \subseteq Boxes(\hECC0)
    BY Bits
  <2>5. QED
    BY <2>1, <2>2, <2>3, <2>4 DEF brick_table, rotate_mask
<1>2. ASSUME NEW r \in 0..3 PROVE Covers(2, r)
  <2>1. Boxes(\h88C0) \subseteq Boxes(\hECC0)
    BY Bits
  <2>2. Boxes(\hE800) \subseteq Boxes(\hEE20)
    BY Bits
  <2>3. Boxes(\h6220) \subseteq Boxes(\h66E0)
    BY Bits
  <2>4. Boxes(\h02E0) \subseteq Boxes(\h8EE0)
    BY Bits
  <2>5. QED
    BY <2>1, <2>2, <2>3, <2>4 DEF brick_table, rotate_mask
<1>3. ASSUME NEW r \in 0..3 PROVE Covers(3, r)
  <2>1. Boxes(\h2260) \subseteq Boxes(\h2EE0)
    BY Bits
  <2>2. Boxes(\h08E0) \subseteq Boxes(\hCCE0)
    BY Bits
  <2>3. Boxes(\hC880) \subseteq Boxes(\hEE80)
    BY Bits
  <2>4. Boxes(\hE200) \subseteq Boxes(\hE660)
    BY Bits
  <2>5. QED
    BY <2>1, <2>2, <2>3, <2>4 DEF brick_table, rotate_mask
<1>4. ASSUME NEW r \in 0..3 PROVE Covers(4, r)
  <2>1. Boxes(\h4444) \subseteq Boxes(\h7FCC)
    BY Bits
  <2>2. Boxes(\h0F00) \subseteq Boxes(\hEF33)
    BY Bits
  <2>3. Boxes(\h2222) \subseteq Boxes(\h33FE)
    BY Bits
  <2>4. Boxes(\h00F0) \subseteq Boxes(\hCCF0)
    BY Bits
  <2>5. QED
    BY <2>1, <2>2, <2>3, <2>4 DEF brick_table, rotate_mask
<1>5. ASSUME NEW r \in 0..3 PROVE Covers(5, r)
  <2>1. Boxes(\hCC00) \subseteq Boxes(\hCC00)
    BY Bits
  <2>2. QED
    BY <2>1 DEF brick_table, rotate_mask
<1>6. ASSUME NEW r \in 0..3 PROVE Covers(6, r)
  <2>1. Boxes(\hE400) \subseteq Boxes(\hE620)
    BY Bits
  <2>2. Boxes(\h2620) \subseteq Boxes(\h26E0)
    BY Bits
  <2>3. Boxes(\h04E0) \subseteq Boxes(\h8CE0)
    BY Bits
  <2>4. Boxes(\h8C80) \subseteq Boxes(\hEC80)
    BY Bits
  <2>5. QED
    BY <2>1, <2>2, <2>3, <2>4 DEF brick_table, rotate_mask
<1>7. ASSUME NEW r \in 0..3, r # 2 PROVE Covers(1, r)
  <2>1. Boxes(\hC600) \subseteq Boxes(\hE660)
    BY Bits
  <2>2. Boxes(\h2640) \subseteq Boxes(\h2EE0)
    BY Bits
  <2>3. Boxes(\h4C80) \subseteq Boxes(\hCCE0)
    BY Bits
  <2>4. QED
    BY <1>7, <2>1, <2>2, <2>3 DEF brick_table, rotate_mask
<1>8. ASSUME NEW t \in 0..6, NEW r \in 0..3, t # 1 \/ r # 2 PROVE Covers(t, r)
  BY <1>1, <1>2, <1>3, <1>4, <1>5, <1>6, <1>7, <1>8
<1> HIDE DEF Covers
<1>9. QED
  BY <1>8, TablesAre DEF Covers

\* Z before and after the turn that is not tested as a whole: of its third
\* position the mask leaves out two boxes, one of which it comes from.
LEMMA ZIs ==
  /\ Shape[2][3] = {<<0, 1>>, <<1, 1>>, <<1, 2>>, <<2, 2>>}
  /\ <<1, 2>> \in Shape[2][2]
  /\ {<<0, 1>>, <<1, 1>>, <<2, 1>>} \subseteq Mask[2][3]
<1>1. Boxes(\h0C60) = {<<0, 1>>, <<1, 1>>, <<1, 2>>, <<2, 2>>}
  BY Bits
<1>2. <<1, 2>> \in Boxes(\h2640)
  BY Bits
<1>3. {<<0, 1>>, <<1, 1>>, <<2, 1>>} \subseteq Boxes(\hEE80)
  BY Bits
<1>4. QED
  BY <1>1, <1>2, <1>3 DEF Shape, Mask, Patterns7, Patterns4, brick_table, rotate_mask

\* A new brick is above the map, and between its edges.
LEMMA Enters ==
  ASSUME NEW t \in 0..6
  PROVE  /\ Shape[t + 1][1] \subseteq (0..3) \X (0..3)
         /\ brick_start_y[t + 1] \in Int
         /\ \A b \in Shape[t + 1][1] : brick_start_y[t + 1] + b[2] < 0
<1>1. CASE t = 0
  <2>1. Boxes(\h6C00) = {<<1, 0>>, <<2, 0>>, <<0, 1>>, <<1, 1>>}
    BY Bits
  <2>2. Shape[t + 1][1] = Boxes(\h6C00) /\ brick_start_y[t + 1] = -2
    BY <1>1 DEF Shape, Patterns7, Patterns4, brick_table, brick_start_y
  <2>3. QED
    BY <2>1, <2>2
<1>2. CASE t = 1
  <2>1. Boxes(\hC600) = {<<0, 0>>, <<1, 0>>, <<1, 1>>, <<2, 1>>}
    BY Bits
  <2>2. Shape[t + 1][1] = Boxes(\hC600) /\ brick_start_y[t + 1] = -2
    BY <1>2 DEF Shape, Patterns7, Patterns4, brick_table, brick_start_y
  <2>3. QED
    BY <2>1, <2>2
<1>3. CASE t = 2
  <2>1. Boxes(\h88C0) = {<<0, 0>>, <<0, 1>>, <<0, 2>>, <<1, 2>>}
    BY Bits
  <2>2. Shape[t + 1][1] = Boxes(\h88C0) /\ brick_start_y[t + 1] = -3
    BY <1>3 DEF Shape, Patterns7, Patterns4, brick_table, brick_start_y
  <2>3. QED
    BY <2>1, <2>2
<1>4. CASE t = 3
  <2>1. Boxes(\h2260) = {<<2, 0>>, <<2, 1>>, <<1, 2>>, <<2, 2>>}
    BY Bits
  <2>2. Shape[t + 1][1] = Boxes(\h2260) /\ brick_start_y[t + 1] = -3
    BY <1>4 DEF Shape, Patterns7, Patterns4, brick_table, brick_start_y
  <2>3. QED
    BY <2>1, <2>2
<1>5. CASE t = 4
  <2>1. Boxes(\h4444) = {<<1, 0>>, <<1, 1>>, <<1, 2>>, <<1, 3>>}
    BY Bits
  <2>2. Shape[t + 1][1] = Boxes(\h4444) /\ brick_start_y[t + 1] = -4
    BY <1>5 DEF Shape, Patterns7, Patterns4, brick_table, brick_start_y
  <2>3. QED
    BY <2>1, <2>2
<1>6. CASE t = 5
  <2>1. Boxes(\hCC00) = {<<0, 0>>, <<1, 0>>, <<0, 1>>, <<1, 1>>}
    BY Bits
  <2>2. Shape[t + 1][1] = Boxes(\hCC00) /\ brick_start_y[t + 1] = -2
    BY <1>6 DEF Shape, Patterns7, Patterns4, brick_table, brick_start_y
  <2>3. QED
    BY <2>1, <2>2
<1>7. CASE t = 6
  <2>1. Boxes(\hE400) = {<<0, 0>>, <<1, 0>>, <<2, 0>>, <<1, 1>>}
    BY Bits
  <2>2. Shape[t + 1][1] = Boxes(\hE400) /\ brick_start_y[t + 1] = -2
    BY <1>7 DEF Shape, Patterns7, Patterns4, brick_table, brick_start_y
  <2>3. QED
    BY <2>1, <2>2
<1>8. QED
  BY <1>1, <1>2, <1>3, <1>4, <1>5, <1>6, <1>7

-----------------------------------------------------------------------------
(* Rows that go *)

LEMMA Sizes ==
  /\ MAP_WIDTH \in Nat /\ MAP_WIDTH >= 4 /\ MAP_HEIGHT \in Nat /\ MAP_HEIGHT >= 1
  /\ IsFiniteSet(Field) /\ IsFiniteSet(0..MAP_WIDTH - 1) /\ IsFiniteSet(0..MAP_HEIGHT - 1)
  /\ Cardinality(0..MAP_WIDTH - 1) = MAP_WIDTH
<1>1. MAP_WIDTH \in Nat /\ MAP_WIDTH >= 4 /\ MAP_HEIGHT \in Nat /\ MAP_HEIGHT >= 1
  BY TetrisAssumption
<1>2. /\ IsFiniteSet(0..MAP_WIDTH - 1) /\ IsFiniteSet(0..MAP_HEIGHT - 1)
      /\ Cardinality(0..MAP_WIDTH - 1) = MAP_WIDTH
  BY <1>1, FS_Interval
<1>3. QED
  BY <1>1, <1>2, FS_Product DEF Field

Boxed == SUBSET (Int \X Int)

LEMMA OnField == SUBSET Field \subseteq Boxed
BY Sizes DEF Field, Boxed

LEMMA TakeAboveIs ==
  ASSUME NEW m \in Boxed, NEW i \in Int
  PROVE  /\ TakeAbove(m, i) \in Boxed
         /\ \A x, y \in Int : <<x, y>> \in TakeAbove(m, i) <=>
                                IF y = i THEN <<x, i - 1>> \in m ELSE <<x, y>> \in m
<1>1. \A c \in m : c = <<c[1], c[2]>> /\ c[1] \in Int /\ c[2] \in Int
  BY DEF Boxed
<1>2. \A c \in TakeAbove(m, i) : c \in Int \X Int
  BY <1>1 DEF TakeAbove
<1>3. ASSUME NEW x \in Int, NEW y \in Int, <<x, y>> \in TakeAbove(m, i)
      PROVE  IF y = i THEN <<x, i - 1>> \in m ELSE <<x, y>> \in m
  BY <1>1, <1>3 DEF TakeAbove
<1>4. ASSUME NEW x \in Int, <<x, i - 1>> \in m PROVE <<x, i>> \in TakeAbove(m, i)
  <2>1. <<x, i - 1>> \in {d \in m : d[2] = i - 1}
    BY <1>4
  <2>2. <<x, i>> \in {<<c[1], i>> : c \in {d \in m : d[2] = i - 1}}
    BY <2>1
  <2>3. QED
    BY <2>2 DEF TakeAbove
<1>5. ASSUME NEW x \in Int, NEW y \in Int, y # i, <<x, y>> \in m
      PROVE  <<x, y>> \in TakeAbove(m, i)
  BY <1>5 DEF TakeAbove
<1>6. QED
  BY <1>2, <1>3, <1>4, <1>5 DEF Boxed

\* What defines the first k copies of CopyDown(m, row), and that the recursion
\* has a solution.
Copies(at, m, row, k) ==
  at = [n \in 0..k |-> IF n = 0 THEN m ELSE TakeAbove(at[n - 1], row - n + 1)]

LEMMA CopiesExist ==
  ASSUME NEW m, NEW row, NEW k \in Nat PROVE \E at : Copies(at, m, row, k)
<1> DEFINE Bad == {n \in Nat : ~\E at : Copies(at, m, row, n)}
<1>1. SUFFICES ASSUME Bad # {} PROVE FALSE
  OBVIOUS
<1>2. PICK j \in Bad : \A n \in Bad : j <= n
  <2> HIDE DEF Bad
  <2>1. Bad \in SUBSET Nat
    BY DEF Bad
  <2>2. QED
    BY <1>1, <2>1, Least
<1>3. CASE j = 0
  <2>1. Copies([n \in 0..0 |-> m], m, row, 0)
    BY DEF Copies
  <2>2. QED
    BY <1>3, <2>1
<1>4. CASE j # 0
  <2>1. j - 1 \in Nat /\ j - 1 \notin Bad
    BY <1>2, <1>4
  <2>2. PICK at : Copies(at, m, row, j - 1)
    BY <2>1
  <2> DEFINE more == [n \in 0..j |-> IF n = j THEN TakeAbove(at[j - 1], row - j + 1) ELSE at[n]]
  <2>3. ASSUME NEW n \in 0..j
        PROVE  more[n] = IF n = 0 THEN m ELSE TakeAbove(more[n - 1], row - n + 1)
    <3>1. CASE n = j
      BY <1>2, <1>4, <3>1
    <3>2. CASE n # j
      BY <1>2, <1>4, <2>2, <3>2 DEF Copies
    <3>3. QED
      BY <3>1, <3>2
  <2>4. Copies(more, m, row, j)
    BY <2>3, Zenon DEF Copies
  <2>5. QED
    BY <2>4
<1>5. QED
  BY <1>3, <1>4

\* After n copies the n rows up to row hold what was above them.
LEMMA CopiesAre ==
  ASSUME NEW m \in Boxed, NEW row \in Nat, NEW at, Copies(at, m, row, row),
         NEW k \in 0..row
  PROVE  /\ at[k] \in Boxed
         /\ \A x, y \in Int : <<x, y>> \in at[k] <=>
              IF y > row \/ y <= row - k THEN <<x, y>> \in m ELSE <<x, y - 1>> \in m
<1> DEFINE Good(n) ==
             /\ at[n] \in Boxed
             /\ \A x, y \in Int : <<x, y>> \in at[n] <=>
                  IF y > row \/ y <= row - n THEN <<x, y>> \in m ELSE <<x, y - 1>> \in m
           Bad == {n \in 0..row : ~Good(n)}
<1>1. SUFFICES ASSUME Bad # {} PROVE FALSE
  OBVIOUS
<1>2. PICK j \in Bad : \A n \in Bad : j <= n
  <2> HIDE DEF Bad
  <2>1. Bad \in SUBSET Nat
    BY DEF Bad
  <2>2. QED
    BY <1>1, <2>1, Least
<1>3. at[j] = IF j = 0 THEN m ELSE TakeAbove(at[j - 1], row - j + 1)
  BY Zenon DEF Copies
<1>4. CASE j = 0
  BY <1>2, <1>3, <1>4
<1>5. CASE j # 0
  <2>1. j - 1 \in 0..row /\ j - 1 \notin Bad
    BY <1>2, <1>5
  <2>2. Good(j - 1)
    BY <2>1
  <2> DEFINE i == row - j + 1
             a == at[j - 1]
  <2>3. /\ i \in Int /\ a \in Boxed
        /\ \A x, y \in Int : <<x, y>> \in a <=>
             IF y > row \/ y <= i THEN <<x, y>> \in m ELSE <<x, y - 1>> \in m
    BY <2>2
  <2>4. at[j] = TakeAbove(a, i)
    BY <1>3, <1>5
  <2> HIDE DEF a, i
  <2>5. /\ at[j] \in Boxed
        /\ \A x, y \in Int : <<x, y>> \in at[j] <=>
             IF y = i THEN <<x, i - 1>> \in a ELSE <<x, y>> \in a
    BY <2>3, <2>4, TakeAboveIs
  <2>6. ASSUME NEW x \in Int, NEW y \in Int
        PROVE  <<x, y>> \in at[j] <=>
                 IF y > row \/ y <= row - j THEN <<x, y>> \in m ELSE <<x, y - 1>> \in m
    <3>1. CASE y = i
      <4>1. i - 1 \in Int /\ i - 1 <= i /\ ~(y > row) /\ ~(y <= row - j)
        BY <1>5, <2>1, <3>1 DEF i
      <4>2. <<x, y>> \in at[j] <=> <<x, i - 1>> \in a
        BY <2>5, <3>1
      <4>3. <<x, i - 1>> \in a <=> <<x, i - 1>> \in m
        BY <2>3, <4>1
      <4>4. QED
        BY <3>1, <4>1, <4>2, <4>3
    <3>2. CASE y # i
      <4>1. y <= row - j <=> y <= i
        BY <2>1, <3>2 DEF i
      <4>2. QED
        BY <2>3, <2>5, <3>2, <4>1
    <3>3. QED
      BY <3>1, <3>2
  <2>7. Good(j)
    BY <2>5, <2>6
  <2>8. QED
    BY <2>7
<1>6. QED
  BY <1>4, <1>5

\* The rows above row move down by one, the others stay.
LEMMA CopyDownIs ==
  ASSUME NEW m \in SUBSET Field, NEW row \in 0..MAP_HEIGHT - 1
  PROVE  /\ CopyDown(m, row) \in Boxed
         /\ \A x, y \in Int : <<x, y>> \in CopyDown(m, row) <=>
              y # 0 /\ IF y > row THEN <<x, y>> \in m ELSE <<x, y - 1>> \in m
<1> DEFINE at == CHOOSE f : Copies(f, m, row, row)
<1>1. row \in Nat /\ m \in Boxed
  BY Sizes, OnField
<1>2. CopyDown(m, row) = {c \in at[row] : c[2] # 0}
  BY Zenon DEF CopyDown, Copies
<1>3. Copies(at, m, row, row)
  BY <1>1, CopiesExist, Zenon
<1> HIDE DEF at
<1>4. /\ at[row] \in Boxed
      /\ \A x, y \in Int : <<x, y>> \in at[row] <=>
           IF y > row \/ y <= 0 THEN <<x, y>> \in m ELSE <<x, y - 1>> \in m
  <2>1. row \in 0..row /\ row - row = 0
    BY <1>1
  <2>2. QED
    BY <1>1, <1>3, <2>1, CopiesAre
<1>5. ASSUME NEW x \in Int, NEW y \in Int
      PROVE  <<x, y>> \in CopyDown(m, row) <=> <<x, y>> \in at[row] /\ y # 0
  BY <1>2
<1>6. ASSUME NEW x \in Int, NEW y \in Int, y < 0 PROVE <<x, y>> \notin m /\ <<x, y - 1>> \notin m
  BY <1>6 DEF Field
<1>7. CopyDown(m, row) \in Boxed
  BY <1>2, <1>4 DEF Boxed
<1>8. QED
  BY <1>1, <1>4, <1>5, <1>6, <1>7

\* A full row goes, and no other box; and no row down to it is full then, if
\* none above it was.
LEMMA RowGoes ==
  ASSUME NEW m \in SUBSET Field, NEW row \in 0..MAP_HEIGHT - 1, row \in Full(m),
         \A y \in 0..row - 1 : y \notin Full(m)
  PROVE  /\ CopyDown(m, row) \in SUBSET Field
         /\ Cardinality(CopyDown(m, row)) + MAP_WIDTH = Cardinality(m)
         /\ Cardinality(CopyDown(m, row)) \in Nat /\ Cardinality(m) \in Nat
         /\ \A y \in 0..row : y \notin Full(CopyDown(m, row))
<1> DEFINE T == CopyDown(m, row)
           go == (0..MAP_WIDTH - 1) \X {row}
           stay == m \ go
           to(c) == IF c[2] < row THEN <<c[1], c[2] + 1>> ELSE c
           f == [c \in stay |-> to(c)]
<1>1. \A c \in m : /\ c = <<c[1], c[2]>> /\ c[1] \in 0..MAP_WIDTH - 1
                   /\ c[2] \in 0..MAP_HEIGHT - 1
  BY DEF Field
<1>2. /\ \A c \in T : c = <<c[1], c[2]>> /\ c[1] \in Int /\ c[2] \in Int
      /\ \A x, y \in Int : <<x, y>> \in T <=>
           y # 0 /\ IF y > row THEN <<x, y>> \in m ELSE <<x, y - 1>> \in m
  BY CopyDownIs DEF Boxed
<1>3. \A c \in stay : c \in m /\ (c[2] < row \/ c[2] > row)
  <2>1. ASSUME NEW c \in stay, c[2] = row PROVE FALSE
    <3>1. c = <<c[1], row>> /\ c[1] \in 0..MAP_WIDTH - 1
      BY <1>1, <2>1
    <3>2. QED
      BY <2>1, <3>1
  <2>2. QED
    BY <1>1, <2>1
<1> HIDE DEF T
<1>4. ASSUME NEW c \in stay PROVE to(c) \in T
  <2>1. CASE c[2] < row
    <3>1. c[1] \in Int /\ c[2] \in Int /\ c[2] + 1 \in Int /\ c[2] + 1 # 0
          /\ ~(c[2] + 1 > row) /\ (c[2] + 1) - 1 = c[2] /\ <<c[1], c[2]>> \in m
      BY <1>1, <2>1
    <3>2. <<c[1], c[2] + 1>> \in T
      BY <1>2, <3>1
    <3>3. QED
      BY <2>1, <3>2
  <2>2. CASE c[2] > row
    <3>1. c[1] \in Int /\ c[2] \in Int /\ c[2] # 0 /\ <<c[1], c[2]>> \in m /\ c = <<c[1], c[2]>>
      BY <1>1, <2>2
    <3>2. <<c[1], c[2]>> \in T
      BY <1>2, <2>2, <3>1
    <3>3. QED
      BY <1>1, <2>2, <3>1, <3>2
  <2>3. QED
    BY <1>3, <2>1, <2>2
<1>5. ASSUME NEW c \in T PROVE \E d \in stay : to(d) = c
  <2>1. c = <<c[1], c[2]>> /\ c[1] \in Int /\ c[2] \in Int
    BY <1>2
  <2>2. CASE c[2] > row
    <3>1. c \in m
      BY <1>2, <2>1, <2>2
    <3>2. c \in stay /\ to(c) = c
      BY <2>2, <3>1, <1>1
    <3>3. QED
      BY <3>2
  <2>3. CASE ~(c[2] > row)
    <3> DEFINE d == <<c[1], c[2] - 1>>
    <3>1. d \in m
      BY <1>2, <2>1, <2>3
    <3>2. d[2] < row /\ d \in stay
      BY <2>1, <2>3, <3>1
    <3>3. to(d) = c
      BY <2>1, <3>2
    <3>4. QED
      BY <3>2, <3>3
  <2>4. QED
    BY <2>2, <2>3
<1>6. ASSUME NEW c \in stay, NEW d \in stay, to(c) = to(d) PROVE c = d
  <2>1. c = <<c[1], c[2]>> /\ d = <<d[1], d[2]>> /\ c[2] \in Int /\ d[2] \in Int
    BY <1>1
  <2>2. to(c)[1] = c[1] /\ to(d)[1] = d[1]
    OBVIOUS
  <2>3. /\ to(c)[2] = (IF c[2] < row THEN c[2] + 1 ELSE c[2])
        /\ to(d)[2] = (IF d[2] < row THEN d[2] + 1 ELSE d[2])
    OBVIOUS
  <2> HIDE DEF to, stay
  <2>4. c[1] = d[1]
    BY <1>6, <2>2
  <2>5. c[2] = d[2]
    <3>1. c[2] < row \/ c[2] > row
      BY <1>3
    <3>2. d[2] < row \/ d[2] > row
      BY <1>3
    <3>3. (IF c[2] < row THEN c[2] + 1 ELSE c[2]) = (IF d[2] < row THEN d[2] + 1 ELSE d[2])
      BY <1>6, <2>3
    <3>4. QED
      BY <2>1, <3>1, <3>2, <3>3
  <2>6. QED
    BY <2>1, <2>4, <2>5
<1>7. T \in SUBSET Field
  <2>1. ASSUME NEW c \in stay PROVE to(c) \in Field
    <3>1. c \in m /\ c = <<c[1], c[2]>> /\ c[1] \in 0..MAP_WIDTH - 1 /\ c[2] \in 0..MAP_HEIGHT - 1
      BY <1>1, <1>3
    <3>2. CASE c[2] < row
      <4>1. c[2] + 1 \in 0..MAP_HEIGHT - 1
        BY <3>1, <3>2, Sizes
      <4>2. QED
        BY <3>1, <3>2, <4>1 DEF Field
    <3>3. CASE ~(c[2] < row)
      BY <3>1, <3>3 DEF Field
    <3>4. QED
      BY <3>2, <3>3
  <2> HIDE DEF to, stay
  <2>2. QED
    BY <1>5, <2>1
<1>8. /\ IsFiniteSet(m) /\ IsFiniteSet(stay) /\ IsFiniteSet(T)
      /\ Cardinality(m) \in Nat /\ Cardinality(stay) \in Nat /\ Cardinality(T) \in Nat
  <2>1. stay \in SUBSET Field
    OBVIOUS
  <2> HIDE DEF stay
  <2>2. IsFiniteSet(m) /\ IsFiniteSet(stay) /\ IsFiniteSet(T)
    BY <1>7, <2>1, Sizes, FS_Subset
  <2>3. QED
    BY <2>2, FS_CardinalityType
<1>9. Cardinality(T) = Cardinality(stay)
  <2>1. f \in [stay -> T] /\ \A c, d \in stay : f[c] = f[d] => c = d
    BY <1>4, <1>6
  <2>2. \A t \in T : \E c \in stay : f[c] = t
    BY <1>5
  <2> HIDE DEF f, stay
  <2>3. f \in Bijection(stay, T)
    BY <2>1, <2>2 DEF Bijection, Injection, Surjection, IsInjective
  <2>4. ExistsBijection(stay, T)
    BY <2>3 DEF ExistsBijection
  <2>5. QED
    BY <1>8, <2>4, FS_Bijection
<1>10. go \subseteq m
  BY DEF Full
<1>11. Cardinality(go) = MAP_WIDTH /\ IsFiniteSet(go)
  <2>1. IsFiniteSet({row}) /\ Cardinality({row}) = 1
    BY FS_Singleton
  <2>2. /\ IsFiniteSet(go)
        /\ Cardinality(go) = Cardinality(0..MAP_WIDTH - 1) * Cardinality({row})
    BY <2>1, Sizes, FS_Product, Zenon
  <2> HIDE DEF go
  <2>3. QED
    BY <2>1, <2>2, Sizes
<1>12. Cardinality(stay) = Cardinality(m) - Cardinality(go)
  <2> HIDE DEF go
  <2>1. m \cap go = go
    BY <1>10
  <2>2. QED
    BY <1>8, <2>1, FS_Difference
<1>13. ASSUME NEW y \in 0..row, y \in Full(T) PROVE FALSE
  <2>1. \A x \in 0..MAP_WIDTH - 1 : <<x, y>> \in T
    BY <1>13 DEF Full
  <2>2. 0 \in 0..MAP_WIDTH - 1 /\ y \in Int
    BY Sizes
  <2>3. y # 0
    <3>1. <<0, y>> \in T /\ 0 \in Int
      BY <2>1, <2>2
    <3>2. QED
      BY <1>2, <2>2, <3>1
  <2>4. y - 1 \in 0..row - 1 /\ y - 1 \in 0..MAP_HEIGHT - 1
    BY <2>3, Sizes
  <2>5. ASSUME NEW x \in 0..MAP_WIDTH - 1 PROVE <<x, y - 1>> \in m
    <3>1. <<x, y>> \in T /\ x \in Int /\ ~(y > row)
      BY <2>1
    <3>2. QED
      BY <1>2, <2>2, <3>1
  <2>6. y - 1 \in Full(m)
    BY <2>4, <2>5 DEF Full
  <2>7. QED
    BY <2>4, <2>6
<1> HIDE DEF stay, go, f
<1>14. QED
  BY <1>7, <1>8, <1>9, <1>11, <1>12, <1>13, Sizes DEF T

\* The scan: what defines it for the first k rows, and that there is one.
Scanning(at, m, k) ==
  at = [n \in 0..k |-> IF n = 0 THEN [map |-> m, l |-> 0] ELSE ScanRow(n - 1)[at[n - 1]]]

LEMMA ScanExists == ASSUME NEW m, NEW k \in Nat PROVE \E at : Scanning(at, m, k)
<1> DEFINE start == [map |-> m, l |-> 0]
<1>0. ASSUME NEW at, NEW n \in Nat
      PROVE  Scanning(at, m, n) <=>
               at = [i \in 0..n |-> IF i = 0 THEN start ELSE ScanRow(i - 1)[at[i - 1]]]
  BY DEF Scanning
<1> HIDE DEF start
<1> DEFINE Bad == {n \in Nat : ~\E at : Scanning(at, m, n)}
<1>1. SUFFICES ASSUME Bad # {} PROVE FALSE
  OBVIOUS
<1>2. PICK j \in Bad : \A n \in Bad : j <= n
  <2> HIDE DEF Bad
  <2>1. Bad \in SUBSET Nat
    BY DEF Bad
  <2>2. QED
    BY <1>1, <2>1, Least
<1>3. CASE j = 0
  <2> DEFINE at == [n \in 0..0 |-> start]
  <2>1. at = [n \in 0..0 |-> IF n = 0 THEN start ELSE ScanRow(n - 1)[at[n - 1]]]
    OBVIOUS
  <2>2. Scanning(at, m, 0)
    BY <1>0, <2>1
  <2>3. QED
    BY <1>2, <1>3, <2>2
<1>4. CASE j # 0
  <2>1. j - 1 \in Nat /\ j - 1 \notin Bad
    BY <1>2, <1>4
  <2>2. PICK at : Scanning(at, m, j - 1)
    BY <2>1
  <2> DEFINE more == [n \in 0..j |-> IF n = j THEN ScanRow(j - 1)[at[j - 1]] ELSE at[n]]
  <2>3. ASSUME NEW n \in 0..j
        PROVE  more[n] = IF n = 0 THEN start ELSE ScanRow(n - 1)[more[n - 1]]
    <3>1. CASE n = j
      BY <1>2, <1>4, <3>1
    <3>2. CASE n # j
      <4>1. at = [i \in 0..j - 1 |-> IF i = 0 THEN start ELSE ScanRow(i - 1)[at[i - 1]]]
        BY <1>0, <2>1, <2>2
      <4>2. j \in Nat /\ n \in 0..j - 1 /\ n \in 0..j /\ (n # 0 => n - 1 \in 0..j /\ n - 1 # j)
        BY <1>2, <1>4, <3>2
      <4>3. more[n] = at[n] /\ (n # 0 => more[n - 1] = at[n - 1])
        BY <3>2, <4>2
      <4>4. at[n] = IF n = 0 THEN start ELSE ScanRow(n - 1)[at[n - 1]]
        BY <4>1, <4>2, Zenon
      <4>5. QED
        BY <4>3, <4>4
    <3>3. QED
      BY <3>1, <3>2
  <2>4. Scanning(more, m, j)
    <3>1. more = [n \in 0..j |-> IF n = 0 THEN start ELSE ScanRow(n - 1)[more[n - 1]]]
      BY <2>3, Zenon
    <3>2. QED
      BY <1>0, <1>2, <3>1
  <2>5. QED
    BY <2>4
<1>5. QED
  BY <1>3, <1>4

\* Behind the scan no row is full, and what has gone is the rows it counts.
ScannedTo(s, m, n) ==
  /\ s \in Scans
  /\ Cardinality(s.map) \in Nat
  /\ Cardinality(s.map) + MAP_WIDTH * s.l = Cardinality(m)
  /\ \A y \in 0..n - 1 : y \notin Full(s.map)

LEMMA ScanRowIs ==
  ASSUME NEW m, NEW row \in 0..MAP_HEIGHT - 1, NEW s, ScannedTo(s, m, row)
  PROVE  ScannedTo(ScanRow(row)[s], m, row + 1)
<1>1. s \in Scans /\ s.map \in SUBSET Field /\ s.l \in Nat
  BY DEF ScannedTo, Scans
<1>2. ScanRow(row)[s] = IF row \in Full(s.map)
                          THEN [map |-> CopyDown(s.map, row), l |-> s.l + 1] ELSE s
  BY <1>1 DEF ScanRow
<1>3. (row + 1) - 1 = row
  BY Sizes
<1>4. CASE row \in Full(s.map)
  <2> DEFINE T == CopyDown(s.map, row)
             r == [map |-> T, l |-> s.l + 1]
  <2>1. /\ T \in SUBSET Field /\ Cardinality(T) \in Nat
        /\ Cardinality(T) + MAP_WIDTH = Cardinality(s.map)
        /\ \A y \in 0..row : y \notin Full(T)
    BY <1>1, <1>4, RowGoes DEF ScannedTo
  <2> HIDE DEF T
  <2>2. r.map = T /\ r.l = s.l + 1 /\ r \in Scans /\ ScanRow(row)[s] = r
    <3>1. r \in Scans
      BY <1>1, <2>1 DEF Scans
    <3>2. QED
      BY <1>2, <1>4, <3>1 DEF T
  <2>3. MAP_WIDTH * (s.l + 1) = MAP_WIDTH * s.l + MAP_WIDTH /\ MAP_WIDTH * s.l \in Nat
    BY <1>1, Sizes, SMTT(30)
  <2>4. Cardinality(s.map) + MAP_WIDTH * s.l = Cardinality(m)
    BY DEF ScannedTo
  <2> HIDE DEF r
  <2>5. Cardinality(r.map) + MAP_WIDTH * r.l = Cardinality(m)
    <3>1. Cardinality(T) + (MAP_WIDTH * s.l + MAP_WIDTH) = Cardinality(m)
      BY <2>1, <2>3, <2>4, Sizes
    <3>2. QED
      BY <2>2, <2>3, <3>1
  <2>6. QED
    BY <1>3, <2>1, <2>2, <2>5 DEF ScannedTo
<1>5. CASE row \notin Full(s.map)
  <2>1. ScanRow(row)[s] = s
    BY <1>2, <1>5
  <2>2. \A y \in 0..row : y \in 0..row - 1 \/ y = row
    OBVIOUS
  <2>3. QED
    BY <1>3, <1>5, <2>1, <2>2 DEF ScannedTo
<1>6. QED
  BY <1>4, <1>5

\* Nothing is lost but the rows counted, and no row is full then.
LEMMA Clears ==
  ASSUME NEW m \in SUBSET Field
  PROVE  /\ LineClear(m).map \in SUBSET Field /\ LineClear(m).l \in Nat
         /\ Cardinality(LineClear(m).map) \in Nat
         /\ Cardinality(LineClear(m).map) + MAP_WIDTH * LineClear(m).l = Cardinality(m)
         /\ Full(LineClear(m).map) = {}
<1> DEFINE at == CHOOSE f : Scanning(f, m, MAP_HEIGHT)
<1>1. LineClear(m) = at[MAP_HEIGHT]
  BY Zenon DEF LineClear, Scanning
<1>2. Scanning(at, m, MAP_HEIGHT)
  BY Sizes, ScanExists, Zenon
<1> HIDE DEF at
<1> DEFINE Bad == {n \in 0..MAP_HEIGHT : ~ScannedTo(at[n], m, n)}
<1>3. CASE Bad # {}
  <2>1. PICK j \in Bad : \A n \in Bad : j <= n
    <3> HIDE DEF Bad
    <3>1. Bad \in SUBSET Nat
      BY DEF Bad
    <3>2. QED
      BY <1>3, <3>1, Least
  <2>2. at[j] = IF j = 0 THEN [map |-> m, l |-> 0] ELSE ScanRow(j - 1)[at[j - 1]]
    BY <1>2, Zenon DEF Scanning
  <2>3. CASE j = 0
    <3> DEFINE s == [map |-> m, l |-> 0]
    <3>1. s \in Scans /\ s.map = m /\ s.l = 0 /\ MAP_WIDTH * 0 = 0
      BY Sizes DEF Scans
    <3>2. Cardinality(m) \in Nat
      BY Sizes, FS_Subset, FS_CardinalityType
    <3> HIDE DEF s
    <3>3. ScannedTo(s, m, 0)
      BY <3>1, <3>2 DEF ScannedTo
    <3>4. QED
      BY <2>1, <2>2, <2>3, <3>3 DEF s
  <2>4. CASE j # 0
    <3>1. j - 1 \in 0..MAP_HEIGHT /\ j - 1 \in 0..MAP_HEIGHT - 1 /\ j - 1 \notin Bad
          /\ (j - 1) + 1 = j
      BY <2>1, <2>4, Sizes
    <3>2. ScannedTo(at[j - 1], m, j - 1)
      BY <3>1
    <3>3. ScannedTo(ScanRow(j - 1)[at[j - 1]], m, (j - 1) + 1)
      BY <3>1, <3>2, ScanRowIs
    <3>4. QED
      BY <2>1, <2>2, <2>4, <3>1, <3>3
  <2>5. QED
    BY <2>3, <2>4
<1>4. CASE Bad = {}
  <2>1. MAP_HEIGHT \in 0..MAP_HEIGHT
    BY Sizes
  <2>2. ScannedTo(LineClear(m), m, MAP_HEIGHT)
    BY <1>1, <1>4, <2>1
  <2>3. Full(LineClear(m).map) \subseteq 0..MAP_HEIGHT - 1
    BY DEF Full
  <2>4. QED
    BY <2>2, <2>3 DEF ScannedTo, Scans
<1>5. QED
  BY <1>3, <1>4

-----------------------------------------------------------------------------
(* Bricks *)

Bricks == [x : Int, y : Int, t : Types, r : 0..3]
Inside(b) == \A c \in Body(b) : c[1] \in 0..MAP_WIDTH - 1 /\ c[2] <= MAP_HEIGHT - 1
Clear(m, b) == Inside(b) /\ Visible(b) \cap m = {}

LEMMA BodyOf ==
  ASSUME NEW b \in Bricks
  PROVE  /\ \A c \in Body(b) : c = <<c[1], c[2]>> /\ c[1] \in Int /\ c[2] \in Int
         /\ IsFiniteSet(Visible(b)) /\ IsFiniteSet(Body(b) \ Visible(b))
         /\ Cardinality(Visible(b)) \in Nat /\ Cardinality(Body(b) \ Visible(b)) \in Nat
         /\ Cardinality(Visible(b)) + Cardinality(Body(b) \ Visible(b)) = 4
         /\ Inside(b) => Visible(b) \subseteq Field
<1>1. b.x \in Int /\ b.y \in Int /\ b.t \in 0..6 /\ b.r \in 0..3
  BY TetrisAssumption DEF Bricks
<1> DEFINE S == Shape[b.t + 1][b.r + 1]
           T == Body(b)
           to(c) == <<b.x + c[1], b.y + c[2]>>
           f == [c \in S |-> to(c)]
           v == Visible(b)
           h == T \ v
<1>2. IsFiniteSet(S) /\ Cardinality(S) = 4
  BY <1>1, Patterns
<1>3. S \subseteq (0..3) \X (0..3)
  BY <1>1, TablesAre DEF Boxes
<1>4. T = {to(c) : c \in S}
  BY DEF Body, At
<1>5. \A c \in T : c = <<c[1], c[2]>> /\ c[1] \in Int /\ c[2] \in Int
  BY <1>1, <1>3, <1>4
<1>6. \A c, d \in S : to(c) = to(d) => c = d
  BY <1>1, <1>3
<1>7. IsFiniteSet(T) /\ Cardinality(T) = 4
  <2>1. f \in [S -> T] /\ \A c, d \in S : f[c] = f[d] => c = d
    BY <1>4, <1>6
  <2>2. \A t \in T : \E c \in S : f[c] = t
    BY <1>4
  <2> HIDE DEF f, S, T
  <2>3. f \in Bijection(S, T)
    BY <2>1, <2>2 DEF Bijection, Injection, Surjection, IsInjective
  <2>4. ExistsBijection(S, T)
    BY <2>3 DEF ExistsBijection
  <2>5. QED
    BY <1>2, <2>4, FS_Bijection
<1>8. v \subseteq T /\ T = v \cup h /\ v \cap h = {}
  BY DEF Visible
<1>9. Inside(b) => v \subseteq Field
  BY <1>5, Sizes DEF Inside, Visible, Field
<1> HIDE DEF S, T, v, h
<1>10. IsFiniteSet(v) /\ IsFiniteSet(h)
  BY <1>7, <1>8, FS_Subset
<1>11. Cardinality(v) \in Nat /\ Cardinality(h) \in Nat /\ Cardinality(v \cap h) = 0
  BY <1>8, <1>10, FS_CardinalityType, FS_EmptySet
<1>12. Cardinality(T) = Cardinality(v) + Cardinality(h) - Cardinality(v \cap h)
  BY <1>8, <1>10, FS_Union
<1>13. Cardinality(v) + Cardinality(h) = 4
  BY <1>7, <1>11, <1>12
<1>14. QED
  BY <1>5, <1>9, <1>10, <1>11, <1>13 DEF T, v, h

LEMMA NewBrickIs ==
  ASSUME NEW t \in Types
  PROVE  NewBrick(t) \in Bricks /\ Inside(NewBrick(t)) /\ Visible(NewBrick(t)) = {}
<1> DEFINE b == NewBrick(t)
           x == (MAP_WIDTH \div 2) - 2
           y == brick_start_y[t + 1]
<1>1. t \in 0..6 /\ x \in Int /\ x >= 0 /\ x + 3 <= MAP_WIDTH - 1
  BY TetrisAssumption
<1>2. /\ Shape[t + 1][1] \subseteq (0..3) \X (0..3) /\ y \in Int
      /\ \A c \in Shape[t + 1][1] : y + c[2] < 0
  BY <1>1, Enters
<1>3. b = [x |-> x, y |-> y, t |-> t, r |-> 0]
  BY DEF NewBrick
<1> HIDE DEF x, y, b
<1>4. b \in Bricks /\ Body(b) = {<<x + c[1], y + c[2]>> : c \in Shape[t + 1][1]}
  BY <1>1, <1>2, <1>3 DEF Bricks, Body, At
<1>5. \A d \in Body(b) : d[1] \in 0..MAP_WIDTH - 1 /\ d[2] < 0 /\ d[2] <= MAP_HEIGHT - 1
  BY <1>1, <1>2, <1>4, Sizes
<1>6. ASSUME NEW d \in Visible(b) PROVE FALSE
  <2>1. d \in Body(b) /\ d[2] >= 0
    BY DEF Visible
  <2>2. d[2] \in Int
    BY <1>4, <2>1, BodyOf
  <2>3. QED
    BY <1>5, <2>1, <2>2
<1>7. QED
  BY <1>4, <1>5, <1>6 DEF Inside, b

\* What a test without a conflict means for a brick inside what was tested.
LEMMA Tested ==
  ASSUME NEW m \in SUBSET Field, NEW b \in Bricks, NEW boxes,
         Body(b) \subseteq boxes, ~is_conflict(m, boxes)
  PROVE  Clear(m, b)
<1>1. \A c \in Body(b) : c[1] \in Int /\ c[2] \in Int
  BY BodyOf
<1>2. \A c \in Body(b) : /\ ~(c[1] < 0) /\ ~(c[1] > MAP_WIDTH - 1)
                         /\ ~(c[2] > MAP_HEIGHT - 1) /\ c \notin m
  BY DEF is_conflict
<1>3. Inside(b)
  BY <1>1, <1>2, Sizes DEF Inside
<1>4. QED
  BY <1>2, <1>3 DEF Visible, Clear

-----------------------------------------------------------------------------
(* The game *)

\* The falling brick is inside, next_brick is above the map, and the boxes
\* that have landed are on the field.
TetrisInv ==
  /\ curr_brick \in Bricks /\ Inside(curr_brick)
  /\ \E t \in Types : next_brick = NewBrick(t)
  /\ lines \in Nat /\ lost \in Nat /\ landed \in Nat /\ covered \in Nat
  /\ Fixed \in SUBSET Field
  /\ BoxesConserved

LEMMA TetrisInit == TInit => TetrisInv
<1> SUFFICES ASSUME TInit PROVE TetrisInv
  OBVIOUS
<1>1. PICK s \in Types, t \in Types : curr_brick = NewBrick(s) /\ next_brick = NewBrick(t)
  BY DEF TInit
<1>2. curr_brick \in Bricks /\ Inside(curr_brick)
  BY <1>1, NewBrickIs
<1>3. Fixed = {} /\ lines = 0 /\ lost = 0 /\ landed = 0 /\ covered = 0
  BY DEF TInit, Fixed
<1>4. Full({}) = {}
  BY Sizes DEF Full
<1>5. BoxesConserved
  BY <1>3, <1>4, FS_EmptySet, Sizes DEF BoxesConserved
<1>6. QED
  BY <1>1, <1>2, <1>3, <1>5 DEF TetrisInv

LEMMA Placed ==
  ASSUME TetrisInv, NEW b \in Bricks, Place(b), Clear(Fixed, b) \/ b = curr_brick, ~ZTurn(b)
  PROVE  TetrisInv' /\ Fixed' = Fixed /\ ~ZTurn(curr_brick')
<1>1. /\ curr_brick' = b /\ map' = Fixed \cup Visible(b)
      /\ UNCHANGED <<next_brick, lines, landed, lost>> /\ covered' = covered + 0
  BY DEF Place, Fixed, draw_brick, clear_brick
<1>2. Visible(b) \cap Fixed = {} /\ Inside(b)
  BY DEF Clear, Fixed, TetrisInv
<1>3. Fixed' = map' \ Visible(b)
  BY <1>1 DEF Fixed, Visible, Body
<1>4. Fixed' = Fixed
  BY <1>1, <1>2, <1>3
<1>5. Inside(curr_brick)'
  BY <1>1, <1>2 DEF Inside, Body
<1>6. covered' = covered
  BY <1>1 DEF TetrisInv
<1>7. BoxesConserved'
  BY <1>1, <1>4, <1>6 DEF TetrisInv, BoxesConserved, Full
<1>8. QED
  BY <1>1, <1>4, <1>5, <1>6, <1>7 DEF TetrisInv

\* The turn of Z that is not tested as a whole takes one box away, if any.
LEMMA PlacedOver ==
  ASSUME TetrisInv, NEW b \in Bricks, Place(b), ZTurn(b), Inside(b),
         Visible(b) \cap Fixed \subseteq {Untested}, Untested \in Body(b)
  PROVE  TetrisInv' /\ Fixed' = Fixed \ {Untested} /\ ZTurn(curr_brick')
<1> DEFINE u == Untested
           n == IF u \in Fixed THEN 1 ELSE 0
<1>1. /\ curr_brick' = b /\ map' = Fixed \cup Visible(b)
      /\ UNCHANGED <<next_brick, lines, landed, lost>> /\ covered' = covered + n
  BY DEF Place, Fixed, draw_brick, clear_brick
<1>2. u \in Fixed => u \in Visible(b)
  <2>1. ASSUME u \in Field PROVE u[2] >= 0
    BY <2>1, Sizes DEF Field
  <2>2. QED
    BY <2>1 DEF Visible, TetrisInv
<1> HIDE DEF u
<1>3. Fixed' = Fixed \ {u}
  <2>1. Fixed' = map' \ Visible(b)
    BY <1>1 DEF Fixed, Visible, Body
  <2>2. Visible(b) \cap Fixed \subseteq {u}
    BY DEF u
  <2>3. QED
    BY <1>1, <1>2, <2>1, <2>2
<1>4. Fixed \in SUBSET Field /\ IsFiniteSet(Fixed) /\ Cardinality(Fixed) \in Nat
  BY Sizes, FS_Subset, FS_CardinalityType DEF TetrisInv
<1>5. Cardinality(Fixed \ {u}) = Cardinality(Fixed) - n
  <2>1. CASE u \in Fixed
    BY <1>4, <2>1, FS_RemoveElement
  <2>2. CASE u \notin Fixed
    <3>1. Fixed \ {u} = Fixed /\ n = 0
      BY <2>2
    <3> HIDE DEF n
    <3>2. QED
      BY <1>4, <3>1
  <2>3. QED
    BY <2>1, <2>2
<1>6. n \in Nat
  OBVIOUS
<1> HIDE DEF n
<1>7. Full(Fixed \ {u}) = {}
  <2>1. Full(Fixed) = {}
    BY DEF TetrisInv, BoxesConserved
  <2>2. QED
    BY <2>1 DEF Full
<1>8. Cardinality(Fixed) + MAP_WIDTH * lines + lost + covered = 4 * landed
  BY DEF TetrisInv, BoxesConserved
<1>9. MAP_WIDTH * lines \in Nat /\ lost \in Nat /\ covered \in Nat /\ landed \in Nat
  BY Sizes, SMTT(30) DEF TetrisInv
<1>10. Cardinality(Fixed \ {u}) + MAP_WIDTH * lines + lost + (covered + n) = 4 * landed
  BY <1>4, <1>5, <1>6, <1>8, <1>9
<1>11. BoxesConserved'
  BY <1>1, <1>3, <1>7, <1>10 DEF BoxesConserved, Full
<1>12. Inside(curr_brick)' /\ covered' \in Nat /\ Fixed' \in SUBSET Field
  BY <1>1, <1>3, <1>4, <1>6, <1>9 DEF Inside, Body
<1>13. (\E t \in Types : next_brick = NewBrick(t))'
  BY <1>1 DEF NewBrick, TetrisInv
<1>14. QED
  BY <1>1, <1>3, <1>11, <1>12, <1>13 DEF TetrisInv, u

LEMMA Landed ==
  ASSUME TetrisInv, NEW b \in Bricks, Land(b), Clear(Fixed, b)
  PROVE  TetrisInv' /\ landed' # landed
<1> DEFINE full == Fixed \cup Visible(b)
           rest == LineClear(full).map
           l == LineClear(full).l
           hidden == Body(b) \ Visible(b)
<1>1. /\ curr_brick' = next_brick /\ map' = rest \cup Visible(next_brick)
      /\ \E t \in Types : next_brick' = NewBrick(t)
      /\ lines' = lines + l /\ landed' = landed + 1 /\ lost' = lost + Cardinality(hidden)
      /\ covered' = covered
  BY DEF Land, Fixed, draw_brick, clear_brick
<1>2. next_brick \in Bricks /\ Inside(next_brick) /\ Visible(next_brick) = {}
  BY NewBrickIs DEF TetrisInv
<1>3. Fixed' = rest
  <2>1. Fixed' = map' \ Visible(next_brick)
    BY <1>1 DEF Fixed, Visible, Body
  <2>2. QED
    BY <1>1, <1>2, <2>1
<1>4. /\ IsFiniteSet(Visible(b)) /\ Cardinality(Visible(b)) \in Nat
      /\ Cardinality(hidden) \in Nat /\ Cardinality(Visible(b)) + Cardinality(hidden) = 4
      /\ Visible(b) \subseteq Field
  BY BodyOf DEF Clear
<1>5. full \in SUBSET Field /\ IsFiniteSet(Fixed)
  BY <1>4, Sizes, FS_Subset DEF TetrisInv
<1>6. /\ rest \subseteq Field /\ l \in Nat /\ Full(rest) = {}
      /\ IsFiniteSet(rest)
      /\ Cardinality(rest) + MAP_WIDTH * l = Cardinality(full)
  BY <1>5, Clears, Sizes, FS_Subset
<1>7. Cardinality(full) = Cardinality(Fixed) + Cardinality(Visible(b)) /\ Cardinality(Fixed) \in Nat
  <2>1. Fixed \cap Visible(b) = {}
    BY DEF Clear
  <2>2. Cardinality(full) = Cardinality(Fixed) + Cardinality(Visible(b))
                              - Cardinality(Fixed \cap Visible(b))
    BY <1>4, <1>5, FS_Union
  <2>3. Cardinality(Fixed \cap Visible(b)) = 0 /\ Cardinality(Fixed) \in Nat
    BY <1>5, <2>1, FS_EmptySet, FS_CardinalityType
  <2>4. QED
    BY <1>4, <2>2, <2>3
<1> HIDE DEF l, hidden, full, rest
<1>8. Cardinality(Fixed) + MAP_WIDTH * lines + lost + covered = 4 * landed
  BY DEF TetrisInv, BoxesConserved
<1>9. MAP_WIDTH * (lines + l) = MAP_WIDTH * lines + MAP_WIDTH * l
      /\ MAP_WIDTH * lines \in Nat /\ MAP_WIDTH * l \in Nat
  BY <1>6, Sizes, SMTT(30) DEF TetrisInv
<1>10. Cardinality(rest) \in Nat
  BY <1>6, FS_CardinalityType
<1>11. Cardinality(rest) + MAP_WIDTH * (lines + l) + (lost + Cardinality(hidden)) + covered
         = 4 * (landed + 1)
  <2>1. lost \in Nat /\ landed \in Nat /\ covered \in Nat
    BY DEF TetrisInv
  <2>2. Cardinality(rest) + MAP_WIDTH * l = Cardinality(Fixed) + Cardinality(Visible(b))
    BY <1>6, <1>7
  <2>3. Cardinality(rest) + (MAP_WIDTH * lines + MAP_WIDTH * l) + (lost + Cardinality(hidden))
          + covered = 4 * (landed + 1)
    <3> DEFINE p == MAP_WIDTH * lines
               q == MAP_WIDTH * l
               s == Cardinality(rest)
               v == Cardinality(Visible(b))
               h == Cardinality(hidden)
               g == Cardinality(Fixed)
    <3>1. /\ p \in Nat /\ q \in Nat /\ s \in Nat /\ v \in Nat /\ h \in Nat /\ g \in Nat
          /\ s + q = g + v /\ v + h = 4 /\ g + p + lost + covered = 4 * landed
      BY <1>4, <1>7, <1>8, <1>9, <1>10, <2>2
    <3> HIDE DEF p, q, s, v, h, g
    <3>2. s + (p + q) + (lost + h) + covered = 4 * (landed + 1)
      BY <2>1, <3>1
    <3>3. QED
      BY <3>2 DEF p, q, s, v, h, g
  <2>4. QED
    BY <1>9, <2>3
<1>12. BoxesConserved'
  BY <1>1, <1>3, <1>6, <1>11 DEF BoxesConserved, Full
<1>13. Inside(curr_brick)' /\ curr_brick' \in Bricks
  BY <1>1, <1>2 DEF Inside, Body
<1>14. lines' \in Nat /\ lost' \in Nat /\ landed' \in Nat /\ covered' \in Nat /\ landed' # landed
  BY <1>1, <1>4, <1>6 DEF TetrisInv
<1>15. Fixed' \in SUBSET Field
  BY <1>3, <1>6
<1>16. (\E t \in Types : next_brick = NewBrick(t))'
  BY <1>1 DEF NewBrick
<1>17. QED
  BY <1>12, <1>13, <1>14, <1>15, <1>16 DEF TetrisInv

\* What a step that lands no brick does to the boxes that have landed.
NothingElse == Fixed' = IF ZTurn(curr_brick') THEN Fixed \ {Untested} ELSE Fixed

LEMMA TetrisNext ==
  ASSUME TetrisInv, TNext PROVE TetrisInv' /\ (landed' = landed => NothingElse)
<1>1. /\ curr_brick \in Bricks /\ Fixed \in SUBSET Field
      /\ clear_brick(map, curr_brick) = Fixed /\ Clear(Fixed, curr_brick)
  BY DEF TetrisInv, Fixed, clear_brick, Clear
<1>2. ASSUME NEW b \in Bricks, ~Conflict(b) PROVE Clear(Fixed, b)
  BY <1>1, <1>2, Tested DEF Conflict
<1>8. ~ZTurn(curr_brick)
  BY <1>1 DEF ZTurn, Bricks
<1>3. ASSUME NEW dx \in {-1, 1}, Shift(dx) PROVE TetrisInv' /\ NothingElse
  <2> DEFINE b == [curr_brick EXCEPT !.x = @ + dx]
  <2>1. b \in Bricks /\ b.x # curr_brick.x
    BY <1>1 DEF Bricks
  <2>2. Place(IF Conflict(b) THEN curr_brick ELSE b)
    BY <1>3 DEF Shift
  <2> HIDE DEF b
  <2>3. CASE Conflict(b)
    BY <1>1, <1>8, <2>2, <2>3, Placed DEF NothingElse
  <2>4. CASE ~Conflict(b)
    <3>1. ~ZTurn(b)
      BY <1>1, <2>1 DEF ZTurn, Bricks
    <3>2. QED
      BY <1>2, <2>1, <2>2, <2>4, <3>1, Placed DEF NothingElse
  <2>5. QED
    BY <2>3, <2>4
<1>4. ASSUME Rotate PROVE TetrisInv' /\ NothingElse
  <2> DEFINE b == [curr_brick EXCEPT !.r = (@ + 1) % 4]
             swept == At(b.x, b.y, Mask[b.t + 1][b.r + 1])
  <2>1. /\ b \in Bricks /\ b.x = curr_brick.x /\ b.y = curr_brick.y /\ b.t = curr_brick.t
        /\ b.r = (curr_brick.r + 1) % 4
    BY <1>1 DEF Bricks
  <2>2. Place(IF is_conflict(clear_brick(map, curr_brick), swept) THEN curr_brick ELSE b)
    BY <1>4 DEF Rotate
  <2>3. curr_brick.t \in 0..6 /\ b.t \in 0..6 /\ b.r \in 0..3 /\ curr_brick.r \in 0..3
    BY <1>1, <2>1, TetrisAssumption DEF Bricks
  <2>4. swept = At(b.x, b.y, Mask[b.t + 1][b.r + 1])
    OBVIOUS
  <2>5. ZTurn(b) <=> b.t = 1 /\ b.r = 2
    <3>1. curr_brick.r = 1 => b = [curr_brick EXCEPT !.r = 2]
      OBVIOUS
    <3>2. b.r = 2 <=> curr_brick.r = 1
      BY <2>1, <2>3
    <3>3. QED
      BY <2>1, <3>1, <3>2 DEF ZTurn
  <2> HIDE DEF b, swept
  <2>6. CASE is_conflict(clear_brick(map, curr_brick), swept)
    BY <1>1, <1>8, <2>2, <2>6, Placed DEF NothingElse
  <2>7. CASE ~is_conflict(clear_brick(map, curr_brick), swept) /\ ~ZTurn(b)
    <3>1. Shape[b.t + 1][b.r + 1] \subseteq Mask[b.t + 1][b.r + 1]
      BY <2>3, <2>5, <2>7, MasksCoverBut
    <3>2. Body(b) \subseteq swept
      BY <2>4, <3>1 DEF Body, At
    <3>3. Clear(Fixed, b)
      BY <1>1, <2>1, <2>7, <3>2, Tested
    <3>4. QED
      BY <2>1, <2>2, <2>7, <3>3, Placed DEF NothingElse
  <2>8. CASE ~is_conflict(Fixed, swept) /\ ZTurn(b)
    <3> DEFINE x == b.x
               y == b.y
    <3>1. x \in Int /\ y \in Int /\ b.t = 1 /\ b.r = 2 /\ curr_brick.t = 1 /\ curr_brick.r = 1
          /\ curr_brick.x = x /\ curr_brick.y = y
      BY <2>1, <2>5, <2>8 DEF Bricks, ZTurn
    <3>2. Untested = <<x + 2, y + 2>>
      BY <3>1 DEF Untested
    <3> HIDE DEF x, y
    <3>3. Body(b) = {<<x + 0, y + 1>>, <<x + 1, y + 1>>, <<x + 1, y + 2>>, <<x + 2, y + 2>>}
      <4>1. Body(b) = At(x, y, {<<0, 1>>, <<1, 1>>, <<1, 2>>, <<2, 2>>})
        <5>1. Shape[b.t + 1][b.r + 1] = Shape[2][3]
          BY <3>1
        <5>2. QED
          BY <5>1, ZIs DEF Body, x, y
      <4>2. QED
        BY <4>1 DEF At
    <3>4. <<x + 1, y + 2>> \in Body(curr_brick)
      <4>1. Body(curr_brick) = At(x, y, Shape[2][2])
        BY <3>1 DEF Body
      <4>2. QED
        BY <4>1, ZIs DEF At
    <3>5. {<<x + 0, y + 1>>, <<x + 1, y + 1>>, <<x + 2, y + 1>>} \subseteq swept
      <4>1. swept = At(x, y, Mask[2][3])
        BY <2>4, <3>1 DEF x, y
      <4>2. QED
        BY <4>1, ZIs DEF At
    <3>6. \A c \in swept : /\ ~(c[1] < 0) /\ ~(c[1] > MAP_WIDTH - 1)
                           /\ ~(c[2] > MAP_HEIGHT - 1) /\ c \notin Fixed
      BY <2>8 DEF is_conflict
    <3>7. x + 1 \in 0..MAP_WIDTH - 1 /\ y + 2 <= MAP_HEIGHT - 1
      BY <1>1, <3>4 DEF TetrisInv, Inside
    <3>8. /\ <<x + 0, y + 1>> \notin Fixed /\ <<x + 1, y + 1>> \notin Fixed
          /\ x + 0 >= 0 /\ x + 2 <= MAP_WIDTH - 1
      <4>1. /\ <<x + 0, y + 1>> \notin Fixed /\ ~((x + 0) < 0)
            /\ <<x + 1, y + 1>> \notin Fixed
            /\ ~((x + 2) > MAP_WIDTH - 1)
        BY <3>5, <3>6
      <4>2. QED
        BY <3>1, <4>1, Sizes
    <3>9. Inside(b)
      BY <3>1, <3>3, <3>7, <3>8, Sizes DEF Inside
    <3>10. <<x + 1, y + 2>> \notin Fixed
      <4>1. y + 2 >= 0 => <<x + 1, y + 2>> \in Visible(curr_brick)
        BY <3>4 DEF Visible
      <4>2. <<x + 1, y + 2>> \in Field => y + 2 >= 0
        BY <3>1, Sizes DEF Field
      <4>3. QED
        BY <1>1, <4>1, <4>2 DEF Fixed
    <3>11. Visible(b) \cap Fixed \subseteq {Untested} /\ Untested \in Body(b)
      BY <3>2, <3>3, <3>8, <3>10 DEF Visible
    <3>12. Place(b)
      BY <1>1, <2>2, <2>8
    <3>13. QED
      BY <2>1, <2>8, <3>9, <3>11, <3>12, PlacedOver DEF NothingElse
  <2>9. QED
    BY <1>1, <2>6, <2>7, <2>8
<1>5. \A n \in Int : Lower(n) \in Bricks
  BY <1>1 DEF Lower, Bricks
<1>6. ASSUME Down PROVE TetrisInv' /\ (landed' = landed => NothingElse)
  <2>1. CASE Conflict(Lower(1))
    <3>1. Land(curr_brick)
      BY <1>6, <2>1 DEF Down
    <3>2. QED
      BY <1>1, <3>1, Landed
  <2>2. CASE ~Conflict(Lower(1))
    <3>1. Place(Lower(1)) /\ Lower(1) \in Bricks
      BY <1>5, <1>6, <2>2 DEF Down
    <3>2. ~ZTurn(Lower(1))
      BY <1>1 DEF ZTurn, Lower, Bricks
    <3>3. QED
      BY <1>2, <2>2, <3>1, <3>2, Placed DEF NothingElse
  <2>3. QED
    BY <2>1, <2>2
<1>7. ASSUME PromDown PROVE TetrisInv' /\ landed' # landed
  <2>1. PICK n \in 0..MAP_HEIGHT + 4 : /\ \A k \in 1..n : ~Conflict(Lower(k))
                                       /\ Land(Lower(n))
    BY <1>7 DEF PromDown
  <2>2. Lower(n) \in Bricks /\ Clear(Fixed, Lower(n))
    <3>1. CASE n = 0
      <4>1. Lower(0) = curr_brick
        BY <1>1 DEF Lower, Bricks
      <4>2. QED
        BY <1>1, <3>1, <4>1
    <3>2. CASE n # 0
      <4>1. n \in 1..n /\ n \in Int
        BY <3>2
      <4>2. QED
        BY <1>2, <1>5, <2>1, <4>1
    <3>3. QED
      BY <3>1, <3>2
  <2>3. QED
    BY <2>1, <2>2, Landed
<1>9. QED
  BY <1>3, <1>4, <1>6, <1>7 DEF TNext, Button, Tick

LEMMA TetrisStutters == TetrisInv /\ UNCHANGED tvars => TetrisInv'
BY DEF TetrisInv, tvars, Fixed, Visible, Body, Inside, BoxesConserved, Full, NewBrick

\* Boxes are neither lost nor made and no full row is left, on a field of any
\* size and however many bricks of whatever types land: line_clear_check
\* (tetris_logic.c:298), scanning in place, takes full rows alone, and what Z is
\* turned over (l.43 and l.54) is the one loss.
THEOREM BoxesConservedCorrect == TSpec => []BoxesConserved
<1>1. TetrisInv /\ [TNext]_tvars => TetrisInv'
  BY TetrisNext, TetrisStutters
<1>2. TetrisInv => BoxesConserved
  BY DEF TetrisInv
<1>3. QED
  BY <1>1, <1>2, TetrisInit, PTL DEF TSpec

\* Every brick of every type is drawn inside the map, and, while none lands, on
\* no landed box; the exception is one box in one turn of Z, which the mask of
\* l.54 leaves out (tetris_logic.c:171 and 354).
THEOREM DrawnFreeCorrect == TSpec => DrawnFree
<1> DEFINE Drawn == /\ \A c \in Body(curr_brick') :
                         c[1] \in 0..MAP_WIDTH - 1 /\ c[2] <= MAP_HEIGHT - 1
                    /\ landed' = landed => NothingElse
<1>1. TetrisInv /\ [TNext]_tvars => TetrisInv'
  BY TetrisNext, TetrisStutters
<1>2. TetrisInv /\ [TNext]_tvars => [Drawn]_tvars
  <2> SUFFICES ASSUME TetrisInv, TNext PROVE Drawn
    OBVIOUS
  <2>1. TetrisInv' /\ (landed' = landed => NothingElse)
    BY TetrisNext
  <2>2. Inside(curr_brick)'
    BY <2>1 DEF TetrisInv
  <2>3. QED
    BY <2>1, <2>2 DEF Inside, Body
<1> HIDE DEF Drawn
<1>3. TSpec => [][Drawn]_tvars
  BY <1>1, <1>2, TetrisInit, PTL DEF TSpec
<1>4. QED
  BY <1>3 DEF DrawnFree, Drawn, NothingElse

-----------------------------------------------------------------------------
(* FileBrowser: where paths lead *)

\* Where the name behind d leads.
Step(d, path, n) == IF d = None THEN None ELSE Enter(d, path[n].name)

\* What defines Reach(path), for the first m names.
Follows(at, path, m) ==
  at = [n \in 0..m |-> IF n = 0 THEN Root ELSE Step(at[n - 1], path, n)]

\* The recursion has a solution for every path.
LEMMA ReachExists == ASSUME NEW path, NEW k \in Nat PROVE \E at : Follows(at, path, k)
<1> DEFINE Bad == {m \in Nat : ~\E at : Follows(at, path, m)}
<1>1. SUFFICES ASSUME Bad # {} PROVE FALSE
  OBVIOUS
<1>2. PICK m \in Bad : \A n \in Bad : m <= n
  <2> HIDE DEF Bad
  <2>1. Bad \in SUBSET Nat
    BY DEF Bad
  <2>2. QED
    BY <1>1, <2>1, Least
<1>3. CASE m = 0
  <2>1. Follows([n \in 0..0 |-> Root], path, 0)
    BY DEF Follows
  <2>2. QED
    BY <1>3, <2>1
<1>4. CASE m # 0
  <2>1. m - 1 \in Nat /\ m - 1 \notin Bad
    BY <1>2, <1>4
  <2>2. PICK at : Follows(at, path, m - 1)
    BY <2>1
  <2> DEFINE more == [n \in 0..m |-> IF n = m THEN Step(at[m - 1], path, m) ELSE at[n]]
  <2>3. ASSUME NEW n \in 0..m
        PROVE  more[n] = IF n = 0 THEN Root ELSE Step(more[n - 1], path, n)
    <3>1. CASE n = m
      BY <1>2, <1>4, <3>1
    <3>2. CASE n # m
      BY <1>2, <1>4, <2>2, <3>2 DEF Follows
    <3>3. QED
      BY <3>1, <3>2
  <2>4. Follows(more, path, m)
    BY <2>3, Zenon DEF Follows
  <2>5. QED
    BY <2>4
<1>5. QED
  BY <1>3, <1>4

LEMMA ReachIs ==
  ASSUME NEW path, Len(path) \in Nat
  PROVE  \A n \in 0..Len(path) :
           Reach(path)[n] = IF n = 0 THEN Root ELSE Step(Reach(path)[n - 1], path, n)
<1>1. PICK at : Follows(at, path, Len(path))
  BY ReachExists
<1>2. Reach(path) = CHOOSE f : Follows(f, path, Len(path))
  BY Zenon DEF Reach, Follows, Step
<1>3. Follows(Reach(path), path, Len(path))
  BY <1>1, <1>2, Zenon
<1>4. QED
  BY <1>3, Zenon DEF Follows

\* Paths that begin alike lead to the same place.
LEMMA ReachAlike ==
  ASSUME NEW p, Len(p) \in Nat, NEW q, Len(q) \in Nat,
         NEW k \in Nat, k <= Len(p), k <= Len(q), \A i \in 1..k : p[i] = q[i]
  PROVE  Reach(p)[k] = Reach(q)[k]
<1> DEFINE Bad == {n \in 0..k : Reach(p)[n] # Reach(q)[n]}
<1>1. SUFFICES ASSUME Bad # {} PROVE FALSE
  OBVIOUS
<1>2. PICK n \in Bad : \A m \in Bad : n <= m
  <2>1. Bad \in SUBSET Nat
    OBVIOUS
  <2> HIDE DEF Bad
  <2>2. QED
    BY <1>1, <2>1, Least
<1>3. CASE n = 0
  BY <1>2, <1>3, ReachIs
<1>4. CASE n # 0
  <2>1. n - 1 \in 0..k /\ n - 1 \notin Bad /\ n \in 1..k
    BY <1>2, <1>4
  <2>2. Reach(p)[n - 1] = Reach(q)[n - 1] /\ p[n] = q[n]
    BY <2>1
  <2>3. /\ Reach(p)[n] = Step(Reach(p)[n - 1], p, n)
        /\ Reach(q)[n] = Step(Reach(q)[n - 1], q, n)
    BY <1>4, <2>1, ReachIs
  <2>4. QED
    BY <1>2, <2>2, <2>3 DEF Step
<1>5. QED
  BY <1>3, <1>4

LEMMA EnterDirs ==
  ASSUME NEW d \in Directories
  PROVE  /\ \A name : Enter(d, name) \in Directories \cup {None}
         /\ \A e \in Entries[d] : e.kind # "file" => Enter(d, e.name) = e.to /\ e.to \in Directories
<1> DEFINE found(name) == {e \in Entries[d] : e.name = name /\ e.kind # "file"}
<1>1. ASSUME NEW name, NEW e \in found(name) PROVE e.to \in Directories
  BY BrowserAssumption DEF BrowserAssumption
<1>2. ASSUME NEW name PROVE Enter(d, name) \in Directories \cup {None}
  <2>1. CASE found(name) = {}
    BY <2>1 DEF Enter
  <2>2. CASE found(name) # {}
    <3>1. (CHOOSE e \in found(name) : TRUE) \in found(name)
      BY <2>2
    <3>2. Enter(d, name) = (CHOOSE e \in found(name) : TRUE).to
      BY <2>2 DEF Enter
    <3> HIDE DEF found
    <3>3. QED
      BY <1>1, <3>1, <3>2
  <2>3. QED
    BY <2>1, <2>2
<1>3. ASSUME NEW e \in Entries[d], e.kind # "file"
      PROVE  Enter(d, e.name) = e.to /\ e.to \in Directories
  <2>1. found(e.name) = {e}
    BY <1>3, BrowserAssumption DEF BrowserAssumption
  <2>2. (CHOOSE f \in found(e.name) : TRUE) = e
    BY <2>1
  <2>3. Enter(d, e.name) = (CHOOSE f \in found(e.name) : TRUE).to
    BY <2>1 DEF Enter
  <2>4. QED
    BY <1>1, <2>1, <2>2, <2>3
<1>4. QED
  BY <1>2, <1>3

\* Every path leads to a directory or nowhere, and a path whose beginning
\* leads nowhere leads nowhere.
LEMMA ReachDirs ==
  ASSUME NEW path, Len(path) \in Nat
  PROVE  /\ \A n \in 0..Len(path) : Reach(path)[n] \in Directories \cup {None}
         /\ \A n \in 0..Len(path) : \A k \in 0..n :
              Reach(path)[n] # None => Reach(path)[k] # None
<1>1. ASSUME NEW n \in 0..Len(path) PROVE Reach(path)[n] \in Directories \cup {None}
  <2> DEFINE Bad == {m \in 0..Len(path) : Reach(path)[m] \notin Directories \cup {None}}
  <2>1. SUFFICES ASSUME Bad # {} PROVE FALSE
    OBVIOUS
  <2>2. PICK m \in Bad : \A i \in Bad : m <= i
    <3>1. Bad \in SUBSET Nat
      OBVIOUS
    <3> HIDE DEF Bad
    <3>2. QED
      BY <2>1, <3>1, Least
  <2>3. m # 0
    BY <2>2, ReachIs, BrowserAssumption DEF BrowserAssumption
  <2>4. m - 1 \in 0..Len(path) /\ m - 1 \notin Bad
    BY <2>2, <2>3
  <2>5. Reach(path)[m - 1] \in Directories \cup {None}
    BY <2>4
  <2>6. Reach(path)[m] = Step(Reach(path)[m - 1], path, m)
    BY <2>3, ReachIs
  <2>7. QED
    BY <2>2, <2>5, <2>6, EnterDirs DEF Step
<1>2. ASSUME NEW k \in 0..Len(path), Reach(path)[k] = None, NEW n \in k..Len(path)
      PROVE  Reach(path)[n] = None
  <2> DEFINE Bad == {m \in k..Len(path) : Reach(path)[m] # None}
  <2>1. SUFFICES ASSUME Bad # {} PROVE FALSE
    BY <1>2
  <2>2. PICK m \in Bad : \A i \in Bad : m <= i
    <3>1. Bad \in SUBSET Nat
      OBVIOUS
    <3> HIDE DEF Bad
    <3>2. QED
      BY <2>1, <3>1, Least
  <2>3. m # k
    BY <1>2, <2>2
  <2>4. m - 1 \in k..Len(path) /\ m - 1 \notin Bad /\ m \in 0..Len(path) /\ m # 0
    BY <2>2, <2>3
  <2>5. Reach(path)[m - 1] = None
    BY <2>4
  <2>6. Reach(path)[m] = Step(Reach(path)[m - 1], path, m)
    BY <2>4, ReachIs
  <2>7. QED
    BY <2>2, <2>5, <2>6 DEF Step
<1>3. ASSUME NEW n \in 0..Len(path), NEW k \in 0..n, Reach(path)[n] # None
      PROVE  Reach(path)[k] # None
  <2>1. k \in 0..Len(path) /\ n \in k..Len(path)
    OBVIOUS
  <2>2. QED
    BY <1>2, <1>3, <2>1
<1>4. QED
  BY <1>1, <1>3

\* One name more is looked for in what the path led to, if its names are still
\* apart.
LEMMA FollowFurther ==
  ASSUME NEW path \in Seq(Pieces), NEW piece \in Pieces,
         \/ Follow(Append(path, piece)) # None
         \/ Follow(path) # None /\ EndsInSlash(path)
  PROVE  /\ Follow(path) # None
         /\ Follow(Append(path, piece)) = Enter(Follow(path), piece.name)
<1> DEFINE L == Len(path)
           more == Append(path, piece)
<1>1. /\ more \in Seq(Pieces) /\ Len(more) = L + 1 /\ L \in Nat
      /\ more[L + 1] = piece /\ \A i \in 1..L : more[i] = path[i]
  BY AppendProperties, LenProperties
<1>2. Reach(more)[L] = Reach(path)[L]
  <2> HIDE DEF more
  <2>1. Len(more) \in Nat /\ L <= Len(more) /\ Len(path) \in Nat /\ L <= Len(path)
    BY <1>1
  <2>2. QED
    BY <1>1, <2>1, ReachAlike
<1>3. Reach(more)[L + 1] = Step(Reach(more)[L], more, L + 1)
  <2> HIDE DEF more
  <2>1. L + 1 \in 0..Len(more) /\ L + 1 # 0 /\ (L + 1) - 1 = L
    BY <1>1
  <2>2. QED
    BY <1>1, <2>1, ReachIs
<1>4. (\E i \in 1..L : ~more[i].slash)
        <=> (\E i \in 1..L - 1 : ~path[i].slash) \/ ~EndsInSlash(path)
  <2>1. CASE path = <<>>
    BY <1>1, <2>1 DEF EndsInSlash
  <2>2. CASE path # <<>>
    <3>1. L >= 1 /\ (EndsInSlash(path) <=> path[L].slash)
      BY <1>1, <2>2, EmptySeq DEF EndsInSlash, Last
    <3> HIDE DEF more
    <3>2. QED
      BY <1>1, <3>1
  <2>3. QED
    BY <2>1, <2>2
<1>5. Follow(more) = IF \E i \in 1..L : ~more[i].slash THEN None ELSE Reach(more)[L + 1]
  <2> HIDE DEF more
  <2>1. Len(more) - 1 = L
    BY <1>1
  <2>2. QED
    BY <1>1, <2>1 DEF Follow
<1>6. Follow(path) = IF \E i \in 1..L - 1 : ~path[i].slash THEN None ELSE Reach(path)[L]
  BY DEF Follow
<1>7. ~\E i \in 1..L : ~more[i].slash
  <2> HIDE DEF more
  <2>1. Follow(more) # None \/ (Follow(path) # None /\ EndsInSlash(path))
    BY DEF more
  <2>2. QED
    BY <1>4, <1>5, <1>6, <2>1
<1>8. Reach(more)[L] # None
  <2> HIDE DEF more
  <2>1. Follow(more) # None \/ Follow(path) # None
    BY DEF more
  <2>2. QED
    BY <1>2, <1>3, <1>4, <1>5, <1>6, <1>7, <2>1 DEF Step
<1> HIDE DEF more
<1>9. Follow(path) = Reach(path)[L]
  BY <1>4, <1>6, <1>7
<1>10. Follow(more) = Enter(Reach(path)[L], piece.name)
  BY <1>1, <1>2, <1>3, <1>5, <1>7, <1>8 DEF Step
<1>11. QED
  BY <1>2, <1>8, <1>9, <1>10 DEF more

\* The way up from a path that leads somewhere leads somewhere.
LEMMA FollowBack ==
  ASSUME NEW path \in Seq(Pieces)
  PROVE  /\ Parent(path) \in Seq(Pieces) /\ Len(Parent(path)) <= Len(path)
         /\ Follow(path) # None => Follow(Parent(path)) # None
<1> DEFINE L == Len(path)
           kept == {0} \cup {i \in 1..L - 1 : path[i].slash}
           k == CHOOSE i \in kept : \A j \in kept : j <= i
<1>1. L \in Nat
  BY LenProperties
<1>2. k \in kept
  <2> DEFINE left == {L - i : i \in kept}
  <2>1. left \in SUBSET Nat /\ left # {}
    BY <1>1
  <2>2. PICK n \in left : \A m \in left : n <= m
    <3> HIDE DEF left
    <3>1. QED
      BY <2>1, Least
  <2>3. PICK i \in kept : n = L - i
    BY <2>2
  <2>4. \A j \in kept : L - j \in left /\ j \in Int
    <3>1. \A j \in kept : j \in Int
      BY <1>1
    <3>2. \A j \in kept : L - j \in left
      BY Zenon
    <3>3. QED
      BY <3>1, <3>2
  <2>5. ASSUME NEW j \in kept PROVE j <= i
    <3>1. L - i <= L - j /\ i \in Int /\ j \in Int
      <4> HIDE DEF kept, left
      <4>1. QED
        BY <2>2, <2>3, <2>4
    <3> HIDE DEF kept
    <3>2. QED
      BY <1>1, <3>1
  <2> HIDE DEF kept
  <2>6. QED
    BY <2>3, <2>5
<1>3. Parent(path) = SubSeq(path, 1, k)
  BY DEF Parent
<1> HIDE DEF k
<1>4. k \in 0..L /\ k <= L
  BY <1>1, <1>2
<1>5. /\ Parent(path) \in Seq(Pieces) /\ Len(Parent(path)) = k
      /\ \A i \in 1..k : Parent(path)[i] = path[i]
  BY <1>1, <1>3, <1>4, SubSeqProperties
<1>6. ASSUME Follow(path) # None PROVE Follow(Parent(path)) # None
  <2>1. /\ \A i \in 1..L - 1 : path[i].slash
        /\ Follow(path) = Reach(path)[L]
    BY <1>6 DEF Follow
  <2>2. Reach(path)[k] # None
    BY <1>1, <1>4, <1>6, <2>1, ReachDirs
  <2>3. Reach(Parent(path))[k] = Reach(path)[k]
    <3>1. Len(Parent(path)) \in Nat /\ Len(path) \in Nat /\ k \in Nat
      BY <1>1, <1>4, <1>5
    <3>2. QED
      BY <1>4, <1>5, <3>1, ReachAlike
  <2>4. \A i \in 1..k - 1 : Parent(path)[i].slash
    BY <1>1, <1>4, <1>5, <2>1
  <2>5. QED
    BY <1>5, <2>2, <2>3, <2>4 DEF Follow
<1>7. QED
  BY <1>4, <1>5, <1>6

LEMMA FollowDirs ==
  ASSUME NEW path \in Seq(Pieces), Follow(path) # None
  PROVE  Follow(path) \in Directories
<1>1. Len(path) \in Nat /\ Follow(path) = Reach(path)[Len(path)]
  BY LenProperties DEF Follow
<1>2. QED
  BY <1>1, ReachDirs

-----------------------------------------------------------------------------
(* The browser *)

LEMMA BrowserInit == FInit => ShownAgrees
BY Zenon DEF FInit, ShownAgrees, PathIsShown, RowsAreShown,
             Ls

\* Where chdir has worked, everything agrees whatever was the case before.
LEMMA ArriveAgrees ==
  ASSUME NEW path, Arrive(path)
  PROVE  ShownAgrees'
<1>1. cwd' = Follow(path) /\ dir_path' = path /\ rows' \in {cwd', None} /\ shown' = rows'
  BY Zenon DEF Arrive, UpdateList, Ls
<1>2. PathIsShown'
  BY <1>1, Zenon DEF PathIsShown
<1>3. RowsAreShown'
  BY <1>1, Zenon DEF RowsAreShown
<1>4. QED
  BY <1>2, <1>3 DEF ShownAgrees

\* Where it has not, the list is as it was, and the rows are gone.
LEMMA StayAgrees ==
  ASSUME ShownAgrees, NEW path, Stay(path),
         upFailed' \/ UNCHANGED <<dir_path, upFailed>>
  PROVE  ShownAgrees'
<1>1. rows' = None /\ result' # "ok" /\ UNCHANGED <<cwd, shown>>
  BY DEF Stay
<1>2. PathIsShown'
  BY <1>1, Zenon DEF ShownAgrees, PathIsShown
<1>3. RowsAreShown'
  BY <1>1, Zenon DEF RowsAreShown
<1>4. QED
  BY <1>2, <1>3 DEF ShownAgrees

LEMMA BrowserNext == ShownAgrees /\ [FNext]_fvars => ShownAgrees'
<1> SUFFICES ASSUME ShownAgrees, [FNext]_fvars PROVE ShownAgrees'
  OBVIOUS
<1>1. CASE ClickUp
  <2>1. CASE Arrive(Parent(dir_path))
    BY <2>1, ArriveAgrees
  <2>2. CASE Stay(Parent(dir_path)) /\ upFailed' = TRUE
    BY <2>2, StayAgrees
  <2>3. QED
    BY <1>1, <2>1, <2>2 DEF ClickUp
<1>2. CASE ClickDown
  <2>1. PICK e \in Shown :
          \/ Arrive(Append(dir_path, Piece(e)))
          \/ Stay(Append(dir_path, Piece(e))) /\ UNCHANGED <<dir_path, upFailed>>
    BY <1>2, Zenon DEF ClickDown
  <2>2. CASE Arrive(Append(dir_path, Piece(e)))
    BY <2>2, ArriveAgrees
  <2>3. CASE Stay(Append(dir_path, Piece(e))) /\ UNCHANGED <<dir_path, upFailed>>
    BY <2>3, StayAgrees
  <2>4. QED
    BY <2>1, <2>2, <2>3
<1>3. ASSUME UNCHANGED <<dir_path, cwd, rows, shown, upFailed, result>>
      PROVE  ShownAgrees'
  BY <1>3, Zenon DEF ShownAgrees, PathIsShown, RowsAreShown
<1>4. CASE ClickFile
  BY <1>3, <1>4 DEF ClickFile
<1>5. CASE UNCHANGED fvars
  BY <1>3, <1>5 DEF fvars
<1>6. QED
  BY <1>1, <1>2, <1>4, <1>5 DEF FNext

BrowserInv ==
  /\ dir_path \in Seq(Pieces) /\ cwd \in Directories /\ upFailed \in BOOLEAN
  /\ ShownAgrees
  /\ ~upFailed /\ result = "missing" => ~EndsInSlash(dir_path)

Named ==
  upFailed \/
    /\ result' = "ok" /\ Len(dir_path') > Len(dir_path) =>
         cwd' = Enter(shown, Last(dir_path').name)
    /\ result' = "missing" => ~EndsInSlash(dir_path)
    /\ opened' # opened =>
         ~EndsInSlash(dir_path) \/ Follow(Front(opened')) = shown

LEMMA BrowserInvInit ==
  ASSUME FInit PROVE BrowserInv
<1>1. dir_path \in Seq(Pieces) /\ cwd \in Directories
  BY StartsAssumption, Zenon DEF FInit, StartsAssumption
<1>2. QED
  BY <1>1, BrowserInit DEF FInit, BrowserInv

LEMMA RowsOfShown ==
  ASSUME BrowserInv, NEW e \in Shown
  PROVE  /\ shown = cwd /\ e \in Entries[cwd]
         /\ Piece(e) \in Pieces /\ Piece(e).name = e.name
<1>1. shown = cwd /\ e \in Entries[cwd]
  BY Zenon DEF Shown, BrowserInv, ShownAgrees, PathIsShown
<1>2. (e.kind = "dir") \in BOOLEAN
  OBVIOUS
<1>3. Piece(e) \in Pieces
  <2>1. e \in UNION {Entries[d] : d \in Directories}
    BY <1>1 DEF BrowserInv
  <2>2. \E f \in UNION {Entries[d] : d \in Directories}, s \in BOOLEAN :
          Piece(e) = [name |-> f.name, slash |-> s]
    BY <1>2, <2>1, Zenon DEF Piece
  <2>3. QED
    BY <2>2, SMT DEF Pieces
<1>4. QED
  BY <1>1, <1>3 DEF Piece

LEMMA UpNamed ==
  ASSUME BrowserInv, ClickUp
  PROVE  BrowserInv' /\ Named
<1> DEFINE path == Parent(dir_path)
<1>1. /\ path \in Seq(Pieces) /\ Len(path) <= Len(dir_path)
      /\ Follow(dir_path) # None => Follow(path) # None
  BY FollowBack DEF BrowserInv
<1>2. ShownAgrees' /\ opened' = opened /\ dir_path' = path
  BY BrowserNext DEF ClickUp, FNext, BrowserInv, Arrive
<1>3. ~(Len(dir_path') > Len(dir_path))
  BY <1>1, <1>2, LenProperties DEF BrowserInv
<1>4. CASE Arrive(path)
  <2>1. cwd' \in Directories /\ result' = "ok" /\ upFailed' = FALSE
    BY <1>1, <1>4, FollowDirs DEF Arrive
  <2>2. QED
    BY <1>1, <1>2, <1>3, <2>1 DEF BrowserInv, Named
<1>5. CASE Stay(path) /\ upFailed' = TRUE
  <2>1. cwd' \in Directories /\ upFailed' = TRUE
    BY <1>5 DEF Stay, BrowserInv
  <2>2. result' # "ok" /\ (result' = "missing" => Follow(path) = None)
    BY <1>5 DEF Stay
  <2>3. upFailed \/ Follow(dir_path) # None
    BY BrowserAssumption DEF BrowserInv, ShownAgrees, PathIsShown, BrowserAssumption
  <2>4. QED
    BY <1>1, <1>2, <1>3, <2>1, <2>2, <2>3 DEF BrowserInv, Named
<1>6. QED
  BY <1>4, <1>5 DEF ClickUp

LEMMA DownNamed ==
  ASSUME BrowserInv, ClickDown
  PROVE  BrowserInv' /\ Named
<1>1. PICK e \in Shown :
        /\ e.kind # "file"
        /\ \/ Arrive(Append(dir_path, Piece(e)))
           \/ Stay(Append(dir_path, Piece(e))) /\ UNCHANGED <<dir_path, upFailed>>
  BY Zenon DEF ClickDown
<1> DEFINE path == Append(dir_path, Piece(e))
<1>2. /\ shown = cwd /\ e \in Entries[cwd]
      /\ Piece(e) \in Pieces /\ Piece(e).name = e.name
  BY RowsOfShown
<1>3. dir_path \in Seq(Pieces) /\ path \in Seq(Pieces) /\ Last(path) = Piece(e)
  BY <1>2, AppendProperties DEF BrowserInv, Last
<1>4. ShownAgrees' /\ opened' = opened
  BY BrowserNext DEF ClickDown, FNext, BrowserInv
<1>5. Enter(cwd, e.name) = e.to /\ e.to \in Directories
  BY <1>1, <1>2, EnterDirs DEF BrowserInv
<1>6. CASE Arrive(path)
  <2>1. /\ cwd' = Follow(path) /\ cwd' # None /\ result' = "ok" /\ upFailed' = FALSE
        /\ dir_path' = path
    BY <1>6 DEF Arrive
  <2>2. cwd' \in Directories
    BY <1>3, <2>1, FollowDirs
  <2>3. Follow(path) = Enter(Follow(dir_path), e.name)
    BY <1>2, <1>3, <2>1, FollowFurther
  <2>4. upFailed \/ cwd' = Enter(shown, Last(dir_path').name)
    BY <1>2, <1>3, <2>1, <2>3 DEF BrowserInv, ShownAgrees, PathIsShown
  <2>5. QED
    BY <1>3, <1>4, <2>1, <2>2, <2>4 DEF BrowserInv, Named
<1>7. CASE Stay(path) /\ UNCHANGED <<dir_path, upFailed>>
  <2>1. /\ cwd' = cwd /\ dir_path' = dir_path /\ upFailed' = upFailed /\ result' # "ok"
        /\ result' = "missing" => Follow(path) = None
    BY <1>7 DEF Stay
  <2>2. ASSUME ~upFailed, result' = "missing" PROVE ~EndsInSlash(dir_path)
    <3>1. SUFFICES ASSUME EndsInSlash(dir_path) PROVE FALSE
      OBVIOUS
    <3>2. Follow(dir_path) = cwd /\ cwd # None
      BY <2>2, BrowserAssumption DEF BrowserInv, ShownAgrees, PathIsShown, BrowserAssumption
    <3>3. Follow(path) = Enter(cwd, e.name)
      BY <1>2, <1>3, <3>1, <3>2, FollowFurther
    <3>4. QED
      BY <1>5, <2>1, <2>2, <3>3, BrowserAssumption DEF BrowserAssumption
  <2>3. QED
    BY <1>4, <2>1, <2>2 DEF BrowserInv, Named, EndsInSlash
<1>8. QED
  BY <1>1, <1>6, <1>7

LEMMA FileNamed ==
  ASSUME BrowserInv, ClickFile
  PROVE  BrowserInv' /\ Named
<1>1. PICK e \in Shown : opened' = Append(dir_path, Piece(e))
  BY Zenon DEF ClickFile
<1>2. shown = cwd /\ Piece(e) \in Pieces
  BY <1>1, RowsOfShown
<1>3. dir_path \in Seq(Pieces)
  BY DEF BrowserInv
<1>4. Front(opened') = dir_path
  <2>1. /\ opened' \in Seq(Pieces) /\ Len(opened') = Len(dir_path) + 1
        /\ \A i \in 1..Len(dir_path) : opened'[i] = dir_path[i]
    BY <1>1, <1>2, <1>3, AppendProperties
  <2>2. Len(dir_path) \in Nat /\ Len(opened') - 1 = Len(dir_path)
    BY <1>3, <2>1, LenProperties
  <2> DEFINE front == SubSeq(opened', 1, Len(dir_path))
  <2>3. /\ front \in Seq(Pieces) /\ Len(front) = Len(dir_path)
        /\ \A i \in 1..Len(dir_path) : front[i] = opened'[i]
    BY <2>1, <2>2, SubSeqProperties
  <2> HIDE DEF front
  <2>4. front = dir_path
    BY <1>3, <2>1, <2>3, SeqEqual
  <2>5. QED
    BY <2>2, <2>4 DEF Front, front
<1>5. UNCHANGED <<dir_path, cwd, rows, shown, upFailed, result>>
  BY DEF ClickFile
<1>6. ShownAgrees'
  BY <1>5, Zenon DEF BrowserInv, ShownAgrees, PathIsShown, RowsAreShown
<1>7. BrowserInv'
  BY <1>5, <1>6, Zenon DEF BrowserInv, EndsInSlash
<1>8. upFailed \/ Follow(Front(opened')) = shown
  BY <1>2, <1>4, Zenon DEF BrowserInv, ShownAgrees, PathIsShown
<1>9. ~(Len(dir_path') > Len(dir_path))
  BY <1>3, <1>5, LenProperties
<1>10. upFailed \/ (result' = "missing" => ~EndsInSlash(dir_path))
  BY <1>5, Zenon DEF BrowserInv
<1>11. QED
  BY <1>7, <1>8, <1>9, <1>10 DEF Named

LEMMA BrowserInvNext ==
  BrowserInv /\ [FNext]_fvars => BrowserInv' /\ [Named]_fvars
<1> SUFFICES ASSUME BrowserInv, [FNext]_fvars PROVE BrowserInv' /\ [Named]_fvars
  OBVIOUS
<1>1. CASE FNext
  BY <1>1, UpNamed, DownNamed, FileNamed DEF FNext
<1>2. CASE UNCHANGED fvars
  <2>1. ShownAgrees'
    BY <1>2, BrowserNext DEF BrowserInv
  <2>2. QED
    BY <1>2, <2>1, Zenon DEF fvars, BrowserInv, EndsInSlash
<1>3. QED
  BY <1>1, <1>2

\* The path of the title leads to the directory that is shown and that is the
\* process's own, and the rows in memory are those on the screen, whichever
\* calls of chdir and opendir fail, with the exceptions named in FileBrowser
\* (file_rover.c, l.221-290).
THEOREM ShownAgreesCorrect == FSpec => []ShownAgrees
BY BrowserInit, BrowserNext, PTL DEF FSpec

\* A click opens what its button names, in the directory that the list shows,
\* in every tree and whichever calls fail, with the exceptions named in
\* FileBrowser (file_rover.c, l.65-73, 221-290).
THEOREM OpensWhatIsNamedCorrect == FSpec => OpensWhatIsNamed
<1>1. FInit => BrowserInv
  BY BrowserInvInit
<1>2. BrowserInv /\ [FNext]_fvars => BrowserInv' /\ [Named]_fvars
  BY BrowserInvNext
<1>3. FSpec => [][Named]_fvars
  BY <1>1, <1>2, PTL DEF FSpec
<1>4. QED
  BY <1>3 DEF OpensWhatIsNamed, Named
=============================================================================
