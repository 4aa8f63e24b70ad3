\* A big number (slots 0-7 resident, last_ccmode = bignum) followed by a
\* heart icon, which reprograms slot 0 without touching the mode.
CONSTANTS
    W = 1
    H = 4
    ChrCells <- MC_ChrCells
    ChrChars <- MC_ChrChars
    StringCells <- MC_StringCells
    Strings <- MC_Strings
    BarCells <- MC_BarCells
    BarLens <- MC_BarLens
    Promilles <- MC_Promilles
    Nums <- MC_Nums
    IconCells <- MC_IconCells
    ShortWrites = FALSE
    MaxDraws = 1
SPECIFICATION Spec
INVARIANT GlyphCacheCoherent
