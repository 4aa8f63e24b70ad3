\* The serial port is opened O_NDELAY: a write() may send nothing, and
\* lcterm_flush copies the frame into last_framebuf regardless.  With
\* lcterm_flush weakly fair, the display should still catch up.
CONSTANTS
    W = 1
    H = 2
    ChrCells <- MC_ChrCells
    ChrChars <- MC_ChrChars
    StringCells <- MC_StringCells
    Strings <- MC_Strings
    BarCells <- MC_BarCells
    BarLens <- MC_BarLens
    Promilles <- MC_Promilles
    Nums <- MC_Nums
    IconCells <- MC_IconCells
    ShortWrites = TRUE
    MaxDraws = 1
SPECIFICATION FairSpec
PROPERTY EventuallyShown
