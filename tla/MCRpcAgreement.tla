--------------------------- MODULE MCRpcAgreement ---------------------------
(* Two providers, either or both of them trusted.                          *)
EXTENDS RpcAgreement
=============================================================================
