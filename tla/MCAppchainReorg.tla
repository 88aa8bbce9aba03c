--------------------------- MODULE MCAppchainReorg ---------------------------
\* The small instances of Appchain, with re-organisations.
EXTENDS AppchainReorg, MCAppchain
=============================================================================
