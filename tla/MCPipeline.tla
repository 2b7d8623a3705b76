---------------------------- MODULE MCPipeline ----------------------------
(* Two bonds in two currencies. *)
EXTENDS Pipeline, TLC

CONSTANTS b1, b2, usd, byn

MCBonds == {b1, b2}
MCCurrencies == {usd, byn}
MCCalls == MCBonds \cup MCCurrencies
MCCurrencyOf == (b1 :> usd) @@ (b2 :> byn)
===========================================================================
