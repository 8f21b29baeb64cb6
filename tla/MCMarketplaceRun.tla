---------------------------- MODULE MCMarketplaceRun ----------------------------
(***************************************************************************)
(* A small instance: three calls of the service, two of the retry, and two *)
(* requests that end half-way.                                             *)
(***************************************************************************)
EXTENDS MarketplaceRun
=============================================================================
