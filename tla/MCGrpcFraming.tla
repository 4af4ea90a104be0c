--------------------------- MODULE MCGrpcFraming ---------------------------
(* Up to three messages, some of which look like headers, then nothing, a   *)
(* frame that is cut off, a compressed one, or one whose length is too long *)
(* in its last or in its first byte.                                        *)
EXTENDS GrpcFraming

Payloads == {<<>>, <<1>>, <<0, 0>>}
Tails == {<<>>, <<0>>, <<0, 0, 0, 0>>, <<0, 0, 0, 0, 2, 0>>,
          <<1, 0, 0, 0, 0>>, <<0, 0, 0, 0, 3>>, <<0, 1, 0, 0, 0, 0>>,
          <<0, 0, 0, 0, 3, 1, 1, 1>>}

MCScripts == [messages : UNION {[1..n -> Payloads] : n \in 0..3}, tail : Tails]
==============================================================================
