-------------------------- MODULE MCWorkflowEngine --------------------------
(* Three run ids for a store of two, three coroutines (two approvals race  *)
(* while another request is suspended), and the shapes of workflow that    *)
(* matter: approvals first, last, twice in a row, and after a tolerated    *)
(* failure.                                                                *)
EXTENDS WorkflowEngine

CONSTANTS w1, w2, w3, ann, bob, k1, k2, k3

MCRuns == {w1, w2, w3}
MCUsers == {ann, bob}
MCClients == {k1, k2, k3}
MCDefinitions == {<<"fatal", "approval">>,
                  <<"tolerant", "approval", "fatal">>,
                  <<"approval", "approval", "tolerant">>}
=============================================================================
