-------------------------- MODULE MCInboundPipeline --------------------------
(***************************************************************************)
(* InboundPipeline with an ordinary conversation id, one with a '/' whose  *)
(* topics read like those of the first, and one that does not parse.       *)
(***************************************************************************)
EXTENDS InboundPipeline

MCNames == {<<"a">>, <<"a", "1", "app_msg">>, <<"", "a">>}
=============================================================================
