-------------------------- MODULE MCProcessShutdown --------------------------
(* A small instance of ProcessShutdown for TLC: two requests, so that one may *)
(* be abandoned while the other is waited for or comes during the drain, a    *)
(* job on the worker, and one quit that rejects beside the subscriber's.      *)
EXTENDS ProcessShutdown
==============================================================================
