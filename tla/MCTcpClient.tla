---------------------------- MODULE MCTcpClient ----------------------------
(***************************************************************************)
(* Small instances of TcpClient.  Three output bytes in up to three        *)
(* records, a send buffer of two bytes (partial writes and EAGAIN), two    *)
(* input bytes and a receive buffer of one (several callbacks).            *)
(***************************************************************************)
EXTENDS TcpClient
============================================================================
