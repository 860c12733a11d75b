---------------------------- MODULE MCResilientCall ----------------------------
(* Three callers on a bulkhead of two permits, so that one must wait.      *)
EXTENDS ResilientCall

CONSTANTS c1, c2, c3

MCCalls == {c1, c2, c3}
=============================================================================
