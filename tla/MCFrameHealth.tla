--------------------------- MODULE MCFrameHealth ---------------------------
EXTENDS FrameHealth

(* A length field and a trailing sum, a float field, a header that overlaps itself. *)
Measured ==
    [header |-> <<1, 1>>, fixed |-> absent, lengthOffset |-> 2, adjustment |-> 3, maximum |-> 5,
     fields |-> {}, checksum |-> [kind |-> "sum", offset |-> absent, start |-> 2, length |-> absent]]

Fixed ==
    [header |-> <<1, 2>>, fixed |-> 3, lengthOffset |-> absent, adjustment |-> 0, maximum |-> 3,
     fields |-> {[offset |-> 2, width |-> 1, kind |-> "float"]},
     checksum |-> [kind |-> "none", offset |-> absent, start |-> 0, length |-> absent]]

(* No chunk holds its header: all that arrives is garbage. *)
Foreign == [Fixed EXCEPT !.header = <<2, 2>>]

MCDefinitions == {Measured, Fixed, Foreign}

(* Short chunks, one that does not fit behind a part of a frame, one longer than four frames. *)
MCChunks == {<<0>>, <<1>>, <<1, 2>>, <<2, 1>>, [i \in 1..18 |-> 1], [i \in 1..21 |-> 1]}

(* Streams of five bytes are cut in all ways while the rule stands still; it is watched under the
   definition that makes an error of every chunk. *)
MCMaxBytes == [d \in MCDefinitions |-> IF d = Foreign THEN 2 ELSE 5]
MCMaxTime == [d \in MCDefinitions |-> IF d = Foreign THEN 3 ELSE 1]
MCMaxErrors == [d \in MCDefinitions |-> IF d = Foreign THEN 2 ELSE 0]
=============================================================================
