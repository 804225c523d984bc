------------------------------ MODULE Slide2048 ------------------------------
(***************************************************************************)
(* 4.littlevgl/f_apps/f_game_2048: how one line of the board slides        *)
(* towards its position 0 (lv_f_game_2048_slide_array).                    *)
(*                                                                         *)
(* A line is a function from 0..SIZE-1 to exponents of two, 0 for an empty *)
(* cell.  SlideStep is one iteration of the loop, which changes the line   *)
(* in place; slide_array is the whole loop.                                *)
(***************************************************************************)
EXTENDS Integers, Sequences, FiniteSetsExt

CONSTANT SIZE  \* 4 in f_game_2048.h

ASSUME SizeAssumption == SIZE \in 2..4

Positions == 0..SIZE - 1

-----------------------------------------------------------------------------
\* Mutant: the tile that was merged last does not stop the walk.
TargetNoStop(a, x, stop) ==
  LET seen == {t \in 0..x - 1 : a[t] # 0}
  IN  IF x = 0 THEN 0
      ELSE IF seen = {} THEN 0
      ELSE IF a[Max(seen)] = a[x] THEN Max(seen) ELSE Max(seen) + 1

\* lv_f_game_2048_find_target walks down from x - 1: to the first tile, which
\* x joins or stops in front of, or to stop when that is empty.
find_target(a, x, stop) ==
  LET ends == {t \in 0..x - 1 : a[t] # 0 \/ t = stop}
      t == Max(ends)
  IN  IF x = 0 THEN 0
      ELSE IF a[t] = 0 \/ a[t] = a[x] THEN t ELSE t + 1

\* What the loop keeps; score counts what this slide adds to the score.
Start(a) == [array |-> a, stop |-> 0, score |-> 0, success |-> FALSE]

\* One iteration: the tile at x moves to an empty cell, merges, or stays.
SlideStep(s, x) ==
  LET a == s.array
      t == find_target(a, x, s.stop)
  IN  IF a[x] = 0 \/ t = x THEN s
      ELSE IF a[t] = 0
        THEN [s EXCEPT !.array = [a EXCEPT ![t] = a[x], ![x] = 0],
                       !.success = TRUE]
        ELSE [array |-> [a EXCEPT ![t] = a[x] + 1, ![x] = 0], stop |-> t + 1,
              score |-> s.score + 2^(a[x] + 1), success |-> TRUE]

\* What it is after the first x cells.
Sliding(a) ==
  LET after[x \in 0..SIZE] == IF x = 0 THEN Start(a) ELSE SlideStep(after[x - 1], x - 1)
  IN  after

slide_array(a) == Sliding(a)[SIZE]

-----------------------------------------------------------------------------
(* What a slide should do, by the rules of the game *)

\* The tiles among the first n cells, from the front.
TilesTo(a) ==
  LET to[n \in 0..SIZE] ==
        IF n = 0 THEN <<>>
        ELSE IF a[n - 1] = 0 THEN to[n - 1] ELSE Append(to[n - 1], a[n - 1])
  IN  to

\* Equal neighbours merge in pairs from the front; a merged tile rests.  What
\* the tiles from the i-th on become:
MergedFrom(s) ==
  LET from[i \in 1..Len(s) + 1] ==
        IF i > Len(s) THEN <<>>
        ELSE IF i < Len(s) /\ s[i] = s[i + 1] THEN <<s[i] + 1>> \o from[i + 2]
        ELSE <<s[i]>> \o from[i + 1]
  IN  from

Slid(a) ==
  LET m == MergedFrom(TilesTo(a)[SIZE])[1]
  IN  [i \in Positions |-> IF i < Len(m) THEN m[i + 1] ELSE 0]

\* The sum of the first n cells.
SumsTo(f) ==
  LET to[n \in 0..SIZE] == IF n = 0 THEN 0 ELSE to[n - 1] + f[n - 1]
  IN  to
LineSum(f) == SumsTo(f)[SIZE]

\* The sum of the tiles, and what the merges that made them were worth.
Weight(a) == LineSum([i \in Positions |-> IF a[i] = 0 THEN 0 ELSE 2^a[i]])
Worth(a) == LineSum([i \in Positions |-> IF a[i] = 0 THEN 0 ELSE (a[i] - 1) * 2^a[i]])
=============================================================================
