----------------------------- MODULE MCTopicsPage -----------------------------
(* TopicsPage for TLC: one topic, which the typed text is not part of.     *)
EXTENDS TopicsPage

CONSTANTS orders, empty, xyz

MCTopic == {orders}
MCText == {empty, xyz}
MCContains == {<<empty, orders>>}
==============================================================================
