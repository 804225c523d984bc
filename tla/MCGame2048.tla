----------------------------- MODULE MCGame2048 -----------------------------
(***************************************************************************)
(* Model checking of Game2048 on a board of 2 by 2 cells, and of           *)
(* slide_array on the lines of the real board, of 4 cells.                 *)
(***************************************************************************)
EXTENDS Game2048

Real == INSTANCE Slide2048 WITH SIZE <- 4

\* Tiles may be 2, 4, 8 or 16, each equal to its neighbours or not.
Lines == [Real!Positions -> 0..4]

\* Whatever tiles and gaps a line of the real board has, the loop of
\* lv_f_game_2048_slide_array ends with the line the rules ask for, success
\* tells whether it has changed, and the score is what the merges were worth.
\* (The lines do not depend on the state; it is enough to look at them while
\* there is no score.)
SlideByRules ==
  current_score_value = 0 => \A a \in Lines :
    LET s == Real!slide_array(a) IN
      /\ s.array = Real!Slid(a)
      /\ s.success <=> s.array # a
      /\ s.score = Real!Worth(s.array) - Real!Worth(a)
=============================================================================
