---------------------------- MODULE MCRateLimiter ----------------------------
(***************************************************************************)
(* Client c1 uses Python, c2 the Rust service; a limit of two requests in  *)
(* a window of two ticks, or no limit, over a time in which two windows    *)
(* meet, with one restart of each service.                                 *)
(***************************************************************************)
EXTENDS RateLimiter

MCUsers == [s \in Service |-> IF s = "python" THEN {"c1"} ELSE {"c2"}]
=============================================================================
