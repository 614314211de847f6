------------------------- MODULE MCMessageDelivery -------------------------
EXTENDS MessageDelivery
=============================================================================
