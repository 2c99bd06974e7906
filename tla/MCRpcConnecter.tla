--------------------------- MODULE MCRpcConnecter ---------------------------
EXTENDS RpcConnecter
=============================================================================
