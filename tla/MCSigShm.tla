------------------------------- MODULE MCSigShm -------------------------------
(***************************************************************************)
(* TLC instance of SigShm: one server and two clients that enter a record  *)
(* each (the violated runs: one client).  More servers are the theorems'   *)
(* business.                                                               *)
(***************************************************************************)
EXTENDS SigShm
=============================================================================
