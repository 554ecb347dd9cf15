---------------------------- MODULE MCDhcpServer ----------------------------
(* TLC instance of DhcpServer: a small table and one client too many. *)
EXTENDS DhcpServer
=============================================================================
