----------------------------- MODULE MCSignals -----------------------------
EXTENDS Signals
=============================================================================
