--------------------------- MODULE MC_TextDriver ---------------------------
EXTENDS TextDriver

\* The server's lcd_logical_driver before text_init: no buffer and the
\* default geometry.
MC_PriorDefault == {[framebuf |-> NULL, wid |-> LCD_DEFAULT_WIDTH, hgt |-> LCD_DEFAULT_HEIGHT]}

\* A structure whose geometry is not yet set when text_init runs.
MC_PriorUnsized == {[framebuf |-> NULL, wid |-> 0, hgt |-> 0],
                    [framebuf |-> NULL, wid |-> LCD_DEFAULT_WIDTH, hgt |-> 1]}

\* On-screen positions the render loop passes: the top-left corner, the
\* second cell of the last row and the last cell of the row above it.
MC_Positions == {<<1, 1>>, <<2, LCD_DEFAULT_HEIGHT>>,
                 <<LCD_DEFAULT_WIDTH, LCD_DEFAULT_HEIGHT - 1>>}

\* big digits that fit: a num_icon row is three cells wide
MC_NumColumns == {1, LCD_DEFAULT_WIDTH - 2}

MC_Strings == {<<"A", "A">>}

\* bar lengths: one pixel, and longer than the screen in either direction
MC_Lens == {1, LCD_DEFAULT_CELL_WIDTH * LCD_DEFAULT_WIDTH
               + LCD_DEFAULT_CELL_HEIGHT * LCD_DEFAULT_HEIGHT}
==============================================================================
