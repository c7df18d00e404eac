----------------------------- MODULE MCInbound -----------------------------
EXTENDS InboundProperties, TLC
=============================================================================
