------------------------- MODULE MCPublicationStatus -------------------------
EXTENDS PublicationStatus
=============================================================================
