---------------------------- MODULE MCSseDecoder ----------------------------
(***************************************************************************)
(* The decoder on every stream of four of these lines, whole or cut short. *)
(***************************************************************************)
EXTENDS SseDecoder, TLC

Delta(r, c) == [reasoning_content |-> r, content |-> c]
Choice(f, d) == [finish_reason |-> f, delta |-> d]
Frame(cs, u) == [error |-> FALSE, choices |-> cs, usage |-> u]
Tokens(n) == [completion_tokens |-> n]

(* A text, the two halves of a frame sent as two data lines, an upstream     *)
(* error, and a frame whose usage is off the contract beside a sound text.   *)
StreamJson ==
  (<< <<"text">> >> :> Frame(<<Choice(None, Delta("think", "say")), Choice("length", Delta(None, None))>>, None))
  @@ (<< <<"half">>, <<"half">> >> :> Frame(<<Choice("stop", Delta(None, ""))>>, Tokens(7)))
  @@ (<< <<"error">> >> :> [error |-> TRUE])
  @@ (<< <<"off">> >> :> Frame(<<Choice(None, Delta(None, "say"))>>, Tokens(Bad)))

(* A frame nested too deep for the parser. *)
DeepFrames == { << <<"deep">> >> }

Lines == {<<Lf>>, <<Cr, Lf>>,
          <<Data, Sp, "text", Lf>>, <<Data, "half", Cr, Lf>>,
          <<Data, "off", Lf>>, <<Data, "deep", Lf>>, <<Data, "error", Lf>>, <<Data, Sp, Done, Lf>>, <<"comment", Lf>>}

StreamWires == {a \o b \o c \o d : a, b, c, d \in Lines}
=============================================================================
