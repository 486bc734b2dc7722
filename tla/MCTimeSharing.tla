--------------------------- MODULE MCTimeSharing ---------------------------
EXTENDS TimeSharing

UntilTorn == ~torn
=============================================================================
