---------------------------- MODULE MCTcpServer ----------------------------
(* Two connections, one more than the server means to serve at a time, and   *)
(* a server that may be closed and opened again.                             *)
EXTENDS TcpServer
=============================================================================
