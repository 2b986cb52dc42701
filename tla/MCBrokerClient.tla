--------------------------- MODULE MCBrokerClient ---------------------------
(* Instances of BrokerClient for TLC.                                      *)
EXTENDS BrokerClient
=============================================================================
