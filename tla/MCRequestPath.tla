--------------------------- MODULE MCRequestPath ---------------------------
(* Two calls about one wallet: the writes that race with their like, and    *)
(* each read beside one of the calls that never reach a handler.            *)
EXTENDS RequestPath, TLC

CONSTANTS c1, c2, w1

MCAbout == [c \in Calls |-> w1]

Pairs ==
  {<<"register", "register">>, <<"request", "request">>, <<"lookup", "badJson">>,
   <<"detail", "badSchema">>, <<"unknownRoute", "wrongMethod">>}

MCScenarios == {c1 :> pair[1] @@ c2 :> pair[2] : pair \in Pairs}
=============================================================================
