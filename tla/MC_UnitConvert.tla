--------------------------- MODULE MC_UnitConvert ---------------------------
EXTENDS UnitConvert

\* Byte counts: 0, 499.9, 800, 999 (just below 1000 with roundlimit 1),
\* 1.5 Mi, 5 Yi (the largest unit), and 9.99950, 99.996, 999.96, which
\* "%.3f", "%.2f" and "%.1f" round up to the next power of ten.
MC_Values ==
    {[n |-> 0, d |-> 1, e |-> 0], [n |-> 4999, d |-> 10, e |-> 0],
     [n |-> 20009, d |-> 2001, e |-> 0], [n |-> 24999, d |-> 250, e |-> 0],
     [n |-> 24999, d |-> 25, e |-> 0],
     [n |-> 800, d |-> 1, e |-> 0], [n |-> 999, d |-> 1, e |-> 0],
     [n |-> 3, d |-> 2, e |-> 2], [n |-> 5, d |-> 1, e |-> 8]}

\* roundlimits inside (0, 1] and outside it on both sides
MC_RoundLimits ==
    {[n |-> -1, d |-> 1], [n |-> 0, d |-> 1], [n |-> 1, d |-> 10],
     [n |-> 1, d |-> 2], [n |-> 1, d |-> 1], [n |-> 3, d |-> 2]}

\* percentages around both edges of sprintf_percent, off the rounding ties
MC_Percents ==
    {[n |-> -5, d |-> 1], [n |-> 0, d |-> 1], [n |-> 996, d |-> 100],
     [n |-> 9986, d |-> 100], [n |-> 999, d |-> 10], [n |-> 9994, d |-> 100],
     [n |-> 9996, d |-> 100], [n |-> 150, d |-> 1]}
==============================================================================
