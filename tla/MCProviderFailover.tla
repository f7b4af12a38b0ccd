-------------------------- MODULE MCProviderFailover --------------------------
(* A small instance of ProviderFailover for TLC. *)
EXTENDS ProviderFailover

CONSTANTS primary, keyless, first, second

MCChains == {<<primary, keyless, first, second>>}
=============================================================================
