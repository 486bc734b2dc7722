------------------------------ MODULE MCSched ------------------------------
EXTENDS Sched

UntilTorn == ~torn
=============================================================================
