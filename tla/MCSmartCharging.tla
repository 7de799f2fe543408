--------------------------- MODULE MCSmartCharging ---------------------------
\* Three sessions on a small site.  0.29 kW is a value that loses a hundredth when
\* it is rounded down again; a cap of 10 kW is above every limit, as no cap is.
EXTENDS SmartCharging

CONSTANTS t1, t2, t3

MCTerms == { [cap |-> 1000, min |-> 29, priority |-> 1],
             [cap |-> 1000, min |-> 0,  priority |-> 0],
             [cap |-> 25,   min |-> 30, priority |-> 2] }

MCSnapshots == { [t \in Tx |-> IF t = t1 THEN [cap |-> 1000, min |-> 29, priority |-> 1] ELSE NoSession] }
=============================================================================
