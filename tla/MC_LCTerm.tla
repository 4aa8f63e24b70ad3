------------------------------ MODULE MC_LCTerm ------------------------------
\* Model-checking instances of LCTerm: small displays, a one-letter
\* alphabet, bars of one or two cells and fill levels that give every kind
\* of bar cell: partial (4 of 8 rows, 3 of 5 columns), full and, past the
\* end of a half-filled two-cell bar, blank.
EXTENDS LCTerm

\* lcterm_chr on the first cell and just outside both corners
MC_ChrCells    == {<<1, 1>>, <<0, 1>>, <<W + 1, H>>, <<1, H + 1>>}
MC_ChrChars    == {65}
\* a two-letter string started in the last column is cut at the edge, and
\* one started in the first column of the last row
MC_StringCells == {<<W, 1>>, <<1, H>>}
MC_Strings     == {<<65, 65>>}
\* bars anchored bottom left and top right, so that two bars of one frame
\* can land on different cells
MC_BarCells    == {<<1, H>>, <<W, 1>>}
MC_BarLens     == {1, 2}
MC_Promilles   == {500, 1000}
MC_Nums        == {-1, 10}
\* the heartbeat cell: top right
MC_IconCells   == {<<W, 1>>}
==============================================================================
