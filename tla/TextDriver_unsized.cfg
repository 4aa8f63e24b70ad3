SPECIFICATION Spec
CONSTANTS
    NULL = NULL
    Chars = {"A"}
    LCD_DEFAULT_WIDTH = 20
    LCD_DEFAULT_HEIGHT = 4
    LCD_DEFAULT_CELL_WIDTH = 5
    LCD_DEFAULT_CELL_HEIGHT = 8
    Positions <- MC_Positions
    Strings <- MC_Strings
    Lens <- MC_Lens
    NumColumns <- MC_NumColumns
    Prior <- MC_PriorUnsized
    Nums = {1}
    MaxDraws = 1
CHECK_DEADLOCK FALSE
INVARIANT MemorySafe
