---------------------- MODULE MCPolymarketSubscription ----------------------
(* An instance of PolymarketSubscription: three tokens, of which a refresh can *)
(* add and remove any, up to three times, with two failures of the network.    *)
EXTENDS PolymarketSubscription
=============================================================================
