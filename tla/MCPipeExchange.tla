--------------------------- MODULE MCPipeExchange ---------------------------
(* Exchanges for PipeExchange.  The bytes: 1 newline, 2 and 3 others, 10 and *)
(* 13 metadata of inline data of unknown length and of length 3, 20 to 24    *)
(* metadata of a range of a file.                                            *)
EXTENDS PipeExchange

InlineBytes == (10 :> 0) @@ (13 :> 3)
FromTo(offset_, limit_) == [offset |-> offset_, limit |-> limit_]
RangeBytes == (20 :> FromTo(0, 0)) @@ (21 :> FromTo(1, 3)) @@ (22 :> FromTo(3, 6))
                @@ (23 :> FromTo(3, 1)) @@ (24 :> FromTo(7, 0))

(* Raw output with blank lines and white space at either end, longer than   *)
(* the limit for metadata, of several lines; inline data as long as         *)
(* announced, longer and shorter; files.                                    *)
Raw == {<<>>, <<2, 3, 2, 3, 2, 3>>, <<1, 2, 1, 1, 3, 1>>, <<1, 1, 13, 1, 1, 2>>,
        <<2, 1, 2, 1, 3>>, <<10, 1, 2, 1, 1>>, <<2, 2, 1, 3>>}
Metas == {<<10, 1, 1, 2, 3, 1>>, <<13, 1, 1, 2, 3, 2>>, <<13, 1, 1, 2, 3, 2, 3>>,
          <<13, 1, 1, 2>>, <<13>>}
OfFile == {<<20, 1, 1>>, <<21, 1, 1>>, <<22, 1, 1>>, <<23, 1, 1>>, <<24, 1, 1>>}
Files == {None, <<>>, <<2, 3, 2, 3, 2>>}
Of(manners, inputs, outputs, files) ==
  [manner : manners, input : inputs, output : outputs, file : files]
AllExchanges ==
  Of(Manners, {2, 4}, Raw \cup Metas, {None}) \cup Of({"line"}, {2}, OfFile, Files)
IgnoringModules == Of({"ignore"}, {2, 4}, Metas, {None})
=============================================================================
