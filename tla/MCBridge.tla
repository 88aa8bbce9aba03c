------------------------------ MODULE MCBridge ------------------------------
(* An instance of Bridge for TLC. *)
EXTENDS Bridge

CONSTANTS nft, plain, usdc, dai, asset1, asset2

OneToken == {<<usdc, asset1>>}
=============================================================================
