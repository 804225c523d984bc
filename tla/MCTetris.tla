------------------------------ MODULE MCTetris ------------------------------
(***************************************************************************)
(* Model checking of Tetris on a board a few boxes wide.                   *)
(***************************************************************************)
EXTENDS Tetris

AllTypes == 0..6   \* S Z L J I O T: BRICK_TYPE

\* The mask of a rotation covers the brick it leads to, but for the third
\* position of Z.
ASSUME MasksCover ==
  \A t \in 0..6, r \in 0..3 : Shape[t + 1][r + 1] \subseteq Mask[t + 1][r + 1] <=> <<t, r>> # <<1, 2>>
=============================================================================
