---------------------------- MODULE MCBridgeFee ----------------------------
(* An instance of BridgeFee for TLC: the prices lead to quotients below one, *)
(* to whole ones and to ones with a fraction, below and above the threshold, *)
(* and to one whose product with the coefficient does not fit the word.      *)
EXTENDS BridgeFee

MCPrices == {0, 1, 2, 3, 4, 7, 10, 50, 67, 99, 100, 133, 250, 400, 655}
=============================================================================
