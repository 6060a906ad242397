---------------------------- MODULE MCTcpConnect ----------------------------
(***************************************************************************)
(* Small instances of TcpConnect.  Three descriptors: two for an attempt   *)
(* and one that is free, so that socket() can fail or succeed anywhere.    *)
(***************************************************************************)
EXTENDS TcpConnect
=============================================================================
