--------------------------- MODULE MCEventDelivery ---------------------------
(* Three events: one has a handler, one has none, and one is refused.      *)
EXTENDS EventDelivery

CONSTANTS e1, e2, e3

MCEvents == {e1, e2, e3}
MCSubscribed == {e1, e3}
MCRefused == {e3}
MCNoneRefused == {}
=============================================================================
