------------------------------ MODULE MCChannel ------------------------------
EXTENDS ChannelDelivery, TLC
=============================================================================
