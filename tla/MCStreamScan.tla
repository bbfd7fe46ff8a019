---------------------------- MODULE MCStreamScan ----------------------------
(* Streams and keys for StreamScan: 2 stands for a newline, 3 for a         *)
(* carriage return.                                                         *)
EXTENDS StreamScan

TwoByteStreams == BoundedSeq({2, 3}, 7)
CrLfKeys == {<<3, 2, 3, 2>>, <<2, 2>>}
=============================================================================
