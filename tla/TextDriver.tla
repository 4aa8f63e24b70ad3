----------------------------- MODULE TextDriver -----------------------------
(***************************************************************************)
(* The text driver, src/server/drivers/text.c: the frame buffer of the    *)
(* lcd_logical_driver structure and the handlers text_init registers.     *)
(* Every handler indexes framebuf[(y-1)*wid + (x-1)] without a range      *)
(* check, so the model keeps the allocation (NULL or a function from      *)
(* 0..n-1 to characters) and a ghost flag set by any access outside it:   *)
(* what the C program does after such an access is undefined, so the     *)
(* model only records that it happened.                                    *)
(***************************************************************************)
EXTENDS Integers, Sequences

CONSTANTS
    NULL,                   \* the null pointer (model value)
    Chars,                  \* characters clients draw
    LCD_DEFAULT_WIDTH,      \* the #defines text_init installs
    LCD_DEFAULT_HEIGHT,
    LCD_DEFAULT_CELL_WIDTH,
    LCD_DEFAULT_CELL_HEIGHT,
    Prior,                  \* possible [framebuf, wid, hgt] before text_init
    Positions,              \* <<x, y>> arguments of chr, string, hbar
    Strings,                \* string arguments (sequences of Chars)
    Lens,                   \* bar lengths in pixels
    NumColumns,             \* x arguments of text_num
    Nums,                   \* text_num digits
    MaxDraws                \* bound: drawing calls per frame

VARIABLES
    framebuf,   \* text->framebuf: NULL or [0..n-1 -> cell]
    wid, hgt,   \* text->wid, text->hgt
    cellwid,    \* text->cellwid
    cellhgt,    \* text->cellhgt
    phase,      \* "loaded" (before text_init), "open", "closed"
    fault,      \* ghost: some access fell outside the allocation
    draws       \* ghost: drawing calls since the last text_clear

ASSUME LCD_DEFAULT_WIDTH >= 3   \* a num_icon row (3 cells) fits in a line

vars == <<framebuf, wid, hgt, cellwid, cellhgt, phase, fault, draws>>

Cells(fb) == IF fb = NULL THEN {} ELSE DOMAIN fb

\* The writes w (index -> character) applied to framebuf: in-bounds ones
\* land, any other one sets the fault flag, as does a bad read.
Store(w, badRead) ==
    /\ framebuf' = IF framebuf = NULL THEN NULL
                   ELSE [i \in DOMAIN framebuf |->
                             IF i \in DOMAIN w THEN w[i] ELSE framebuf[i]]
    /\ fault' = (fault \/ badRead \/ ~(DOMAIN w \subseteq Cells(framebuf)))

\* memset(framebuf, ' ', n)
Blank(n) == Store([i \in 0..n-1 |-> " "], FALSE)

\* the index text_chr computes for (x, y)
Index(x, y) == (y - 1) * wid + (x - 1)

Init ==
    /\ \E p \in Prior :
          /\ framebuf = p.framebuf
          /\ wid = p.wid
          /\ hgt = p.hgt
    /\ cellwid = 0 /\ cellhgt = 0
    /\ phase = "loaded"
    /\ fault = FALSE
    /\ draws = 0

(***************************************************************************)
(* text_init: allocate the frame buffer if there is none, with the size    *)
(* the structure has on entry, blank wid * hgt cells of it, and only then  *)
(* install the default geometry.                                           *)
(***************************************************************************)
text_init ==
    /\ phase = "loaded"
    /\ LET fb == IF framebuf = NULL
                 THEN [i \in 0..wid * hgt - 1 |-> "?"]   \* malloc (wid * hgt)
                 ELSE framebuf
       IN  /\ framebuf' = [i \in DOMAIN fb |-> IF i < wid * hgt THEN " " ELSE fb[i]]
           /\ fault' = (fault \/ ~(0..wid * hgt - 1 \subseteq DOMAIN fb))
    /\ wid' = LCD_DEFAULT_WIDTH
    /\ hgt' = LCD_DEFAULT_HEIGHT
    /\ cellwid' = LCD_DEFAULT_CELL_WIDTH
    /\ cellhgt' = LCD_DEFAULT_CELL_HEIGHT
    /\ phase' = "open"
    /\ draws' = 0

\* text_close: free the buffer and forget it.
text_close ==
    /\ phase = "open"
    /\ framebuf' = NULL
    /\ phase' = "closed"
    /\ UNCHANGED <<wid, hgt, cellwid, cellhgt, fault, draws>>

\* text_clear: memset the wid * hgt cells to blanks.
text_clear ==
    /\ phase = "open"
    /\ Blank(wid * hgt)
    /\ draws' = 0
    /\ UNCHANGED <<wid, hgt, cellwid, cellhgt, phase>>

\* text_flush: text_draw_frame(framebuf) prints cells 0..wid*hgt-1, and
\* returns at once when framebuf is NULL.
text_flush ==
    /\ phase = "open"
    /\ fault' = (fault \/ (framebuf # NULL /\ ~(0..wid * hgt - 1 \subseteq Cells(framebuf))))
    /\ UNCHANGED <<framebuf, wid, hgt, cellwid, cellhgt, phase, draws>>

\* A drawing handler: counted against the per-frame bound.
Draw(w, badRead) ==
    /\ phase = "open"
    /\ draws < MaxDraws
    /\ draws' = draws + 1
    /\ Store(w, badRead)
    /\ UNCHANGED <<wid, hgt, cellwid, cellhgt, phase>>

text_chr(x, y, c) == Draw([i \in {Index(x, y)} |-> c], FALSE)

text_string(x, y, string) ==
    Draw([i \in {Index(x, y) + k : k \in 0..Len(string) - 1} |->
             string[i - Index(x, y) + 1]], FALSE)

(***************************************************************************)
(* text_num: text_chr(x + dx, y, num_icon[num][y-1][dx]) for y in 1..4 and *)
(* dx in 0..2.  A glyph is named by its place in num_icon; num_icon has    *)
(* rows for 0..9 only, and a read past it is an access outside an object. *)
(***************************************************************************)
\* the digits num_icon[10][4][3] has rows for
NumIconDigits == 0..9

text_num(x, num) ==
    Draw([i \in {Index(x + dx, y) : dx \in 0..2, y \in 1..4} |->
             <<num, (i - (x - 1)) \div wid, (i - (x - 1)) % wid>>],
         num \notin NumIconDigits)

\* the rows text_vbar's loop visits: from y down while y > 0 and len > 0,
\* len decreasing by cellhgt each time
VBarRows(y, len) ==
    {y - k : k \in {j \in 0..y - 1 : len - j * cellhgt > 0}}

text_vbar(x, len) ==
    Draw([i \in {Index(x, y) : y \in VBarRows(hgt, len)} |-> "|"], FALSE)

\* Defect variant: the hbar loop without its "x <= wid" test.
HBarColsNoEdge(x, len) ==
    {x + k : k \in 0..((len + cellwid - 1) \div cellwid) - 1}

\* the columns text_hbar's loop visits: from x while x <= wid and len > 0
HBarCols(x, len) ==
    {x + k : k \in {j \in 0..wid - x : len - j * cellwid > 0}}

text_hbar(x, y, len) ==
    Draw([i \in {Index(c, y) : c \in HBarCols(x, len)} |-> "-"], FALSE)

Next ==
    \/ text_init
    \/ text_close
    \/ text_clear
    \/ text_flush
    \/ \E p \in Positions, c \in Chars : text_chr(p[1], p[2], c)
    \/ \E p \in Positions, s \in Strings : text_string(p[1], p[2], s)
    \/ \E x \in NumColumns, n \in Nums : text_num(x, n)
    \/ \E p \in Positions, l \in Lens : text_vbar(p[1], l)
    \/ \E p \in Positions, l \in Lens : text_hbar(p[1], p[2], l)

Spec == Init /\ [][Next]_vars

(***************************************************************************)
(* Properties.                                                             *)
(***************************************************************************)
\* Every access the driver makes to the frame buffer, from the memset in
\* text_init through the bar loops, text_num's 3x4 block and the frame
\* printed by text_draw_frame, lies inside the allocated buffer (and
\* inside num_icon).
MemorySafe == ~fault

==============================================================================
