--------------------------- MODULE MCTwinLoaders ---------------------------
(* Instance of TwinLoaders for TLC: a file of up to four rows, which is two *)
(* chunks, and one of a row; their clocks interleave, once with a tie, and  *)
(* vectors repeat within a file and across.                                 *)
EXTENDS TwinLoaders

MCMaxRows == <<4, 1>>

MCLayouts ==
  {[clock |-> <<<<1, 4, 2, 7>>, <<3>>>>, vector |-> <<<<1, 2, 1, 3>>, <<1>>>>],
   [clock |-> <<<<1, 3, 3, 6>>, <<3>>>>, vector |-> <<<<1, 1, 2, 2>>, <<3>>>>]}

=============================================================================
