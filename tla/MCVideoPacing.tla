--------------------------- MODULE MCVideoPacing ---------------------------
(* Constants for model-checking VideoPacing: half a canvas tick is a unit, *)
(* the video has half the frame rate of the canvas.                        *)
EXTENDS VideoPacing

NearAndFar == {1, 11}
Steps == {0, 1}
WithoutAndWithRelax ==
  {[audio |-> TRUE, relax |-> 0, changes |-> 2], [audio |-> FALSE, relax |-> 0, changes |-> 1],
   [audio |-> TRUE, relax |-> 5, changes |-> 0], [audio |-> FALSE, relax |-> 5, changes |-> 0]}
=============================================================================
