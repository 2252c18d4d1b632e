---------------------------- MODULE MCAccounting ----------------------------
\* The instance of Accounting that TLC checks; the .cfg file gives the constants.
EXTENDS Accounting

CONSTANTS c1, c2, p1, o1, bad, garbage
=============================================================================
