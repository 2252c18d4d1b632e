---------------------------- MODULE MCOrderFlow ----------------------------
\* The instance of OrderFlow that TLC checks; the .cfg file gives the constants.
EXTENDS OrderFlow

CONSTANTS c1, p1, o1, garbage
=============================================================================
