\* A one-column, four-row display: tall enough for big numbers, so all
\* three custom-character modes and the heart share the CG RAM; two
\* drawing calls per frame let a frame request two modes.
CONSTANTS
    W = 1
    H = 4
    ChrCells <- MC_ChrCells
    ChrChars <- MC_ChrChars
    StringCells <- MC_StringCells
    Strings <- MC_Strings
    BarCells <- MC_BarCells
    BarLens <- MC_BarLens
    Promilles <- MC_Promilles
    Nums <- MC_Nums
    IconCells <- MC_IconCells
    ShortWrites = FALSE
    MaxDraws = 2
SPECIFICATION Spec
INVARIANT DeviceShowsCommitted
INVARIANT DeviceGlyphsProgrammed
