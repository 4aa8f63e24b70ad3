\* Two frames: a vbar leaves last_ccmode = vbar; after lcterm_clear the
\* next vbar returns early with ccmode still standard, so an hbar in the
\* same frame is granted and reprograms the vbar slots.
CONSTANTS
    W = 1
    H = 2
    ChrCells <- MC_ChrCells
    ChrChars <- MC_ChrChars
    StringCells <- MC_StringCells
    Strings <- MC_Strings
    BarCells <- MC_BarCells
    BarLens <- MC_BarLens
    Promilles <- MC_Promilles
    Nums <- MC_Nums
    IconCells <- MC_IconCells
    ShortWrites = FALSE
    MaxDraws = 2
SPECIFICATION Spec
INVARIANT GlyphsAsDrawn
