-------------------------------- MODULE MC_Broker --------------------------------
(* BNBBroker with its owner, a second caller and two requests.             *)
EXTENDS BNBBroker

=============================================================================
