----------------------------- MODULE MCTcpSender -----------------------------
EXTENDS TcpSender
=============================================================================
