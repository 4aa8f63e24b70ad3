------------------------ MODULE MC_HD44780NativeI2C ------------------------
EXTENDS HD44780NativeI2C

\* Any mode, pending argument and on/off state a previous run may have left;
\* the contrast register at its power-on value.
MC_CtrlStart ==
    [re : {0, 1}, sd : {0, 1}, pend : Pending, on : BOOLEAN, contrast : {\h7F}]

\* the uninitialised data[1] of the first write: any byte
MC_Garbage == 0..255

\* what the hd44780 core sends: clear, home, display on/off, function set
\* (8 bit, two lines), CGRAM and DDRAM addresses
MC_InstrBytes == {\h01, \h02, \h08, \h0C, \h38, \h40, \h80}

\* characters, including bytes that equal mode commands
MC_DataBytes == {\h41, \h79, \h2A}

MC_ContrastValues == {0, \h78, \h81}
==============================================================================
