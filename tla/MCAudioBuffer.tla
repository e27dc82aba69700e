--------------------------- MODULE MCAudioBuffer ---------------------------
(* Constants for model-checking AudioBuffer.                               *)
EXTENDS AudioBuffer

(* A write of two frames is longer than the smallest ring, and wraps in    *)
(* the largest.                                                            *)
SomeMaxima  == {1, 2, 3}
TwoTimes    == {0, 10}
SomeLengths == {1, 2}
=============================================================================
