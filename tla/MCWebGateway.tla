----------------------------- MODULE MCWebGateway -----------------------------
(***************************************************************************)
(* One configured collection, a monitor name, clients that also use the    *)
(* configured name and "broadcast", and two threads.                       *)
(***************************************************************************)
EXTENDS WebGateway

OneStatic == <<"s">>
=============================================================================
