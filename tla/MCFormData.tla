----------------------------- MODULE MCFormData -----------------------------
(* Forms for FormData.  The bytes: 1 '-', 2 newline, 3 the boundary, 4       *)
(* carriage return, 5 and 6 header lines, 7 any other.  The contents: empty,  *)
(* in memory up to the limit, beyond it with bytes that begin like a         *)
(* boundary, and one that reads like the header of an item.                  *)
EXTENDS FormData

OneByteBoundary == <<3>>
SplitContents == {<<>>, <<7, 4, 2>>, <<7, 4, 2, 1, 1, 4>>, <<6, 4, 2, 5, 4, 2, 4, 2>>}
=============================================================================
