---------------------------- MODULE MCTcpReceive ----------------------------
(* Instances of TcpReceive for TLC.                                        *)
EXTENDS TcpReceive
=============================================================================
