--------------------------- MODULE MCHubRequests ---------------------------
(* The Hub and two Environments, with two kinds of resources *)
EXTENDS HubRequests

MCWindows == {<<0, 0>>, <<0, 1>>}
MCNames == {"hub", "a", "b"}
MCInitially == {{"a"}, {"a", "b"}}
MCDeletables == {"b"}
=============================================================================
