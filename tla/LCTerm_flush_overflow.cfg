\* A four-row display: the frame lcterm_flush composes holds 2 * height
\* row-terminator bytes that the alloca size does not count, so a frame
\* with a user-defined character in it no longer fits.
CONSTANTS
    W = 1
    H = 4
    ChrCells <- MC_ChrCells
    ChrChars <- MC_ChrChars
    StringCells <- MC_StringCells
    Strings <- MC_Strings
    BarCells <- MC_BarCells
    BarLens <- MC_BarLens
    Promilles <- MC_Promilles
    Nums <- MC_Nums
    IconCells <- MC_IconCells
    ShortWrites = FALSE
    MaxDraws = 1
SPECIFICATION Spec
INVARIANT FlushFitsBuffer
