-------------------------- MODULE MC_CircularBuffer --------------------------
EXTENDS CircularBuffer
CONSTANTS f1, f2, none
=============================================================================
