\* A 2x2 display: too short for big numbers, so only the bar modes use
\* custom characters; the transport is reliable.
CONSTANTS
    W = 2
    H = 2
    ChrCells <- MC_ChrCells
    ChrChars <- MC_ChrChars
    StringCells <- MC_StringCells
    Strings <- MC_Strings
    BarCells <- MC_BarCells
    BarLens <- MC_BarLens
    Promilles <- MC_Promilles
    Nums <- MC_Nums
    IconCells <- MC_IconCells
    ShortWrites = FALSE
    MaxDraws = 1
SPECIFICATION FairSpec
INVARIANT TypeOK
INVARIANT DeviceShowsCommitted
INVARIANT DeviceGlyphsProgrammed
INVARIANT GlyphCacheCoherent
INVARIANT NoRedundantUpload
PROPERTY EventuallyShown
