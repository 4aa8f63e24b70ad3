------------------------------- MODULE LCTerm -------------------------------
(***************************************************************************)
(* The lcterm driver, src/server/drivers/lcterm.c: one display context     *)
(* (PrivateData) with the frame buffer, the copy last sent to the display, *)
(* the requested and the resident custom-character mode, and the serial    *)
(* device on the far end of the wire.  Every handler of the driver is one  *)
(* action; every write() it makes is fed, byte by byte, to a model of the  *)
(* LCTerm's input parser, so the properties speak about what the display   *)
(* really holds, not about what the driver believes it holds.              *)
(***************************************************************************)
EXTENDS Integers, Sequences, SequencesExt, Bitwise

CONSTANTS
    W, H,          \* display size, as parsed by lcterm_init from "Size"
    ChrCells,      \* <<x, y>> the server passes to lcterm_chr (may be off-screen)
    ChrChars,      \* characters the server writes with lcterm_chr
    StringCells,   \* <<x, y>> where the server starts strings (inside the buffer)
    Strings,       \* strings the server writes with lcterm_string
    BarCells,      \* <<x, y>> where the server anchors bars (on-screen)
    BarLens,       \* bar lengths (cells at 100%)
    Promilles,     \* bar fill levels
    Nums,          \* arguments of lcterm_num (10 = colon, others rejected)
    IconCells,     \* cells the server draws icons at (x, y)
    ShortWrites,   \* TRUE: a write() on the O_NDELAY port may send nothing
    MaxDraws       \* bound: drawing calls between two lcterm_clear calls

ASSUME /\ W \in 1..40 /\ H \in 1..16 /\ ShortWrites \in BOOLEAN /\ MaxDraws \in Nat
       /\ BarCells \cup IconCells \subseteq (1..W) \X (1..H)
       \* lcterm_string checks only x < width: a start before the buffer or
       \* below the last row writes outside the allocation, which is not
       \* modelled; any other start, on screen or not, is.
       /\ \A c \in StringCells : c[2] \in 1..H /\ (c[2] - 1) * W + c[1] - 1 >= 0

VARIABLES
    framebuf,       \* p->framebuf, row-major, index y*width + x
    last_framebuf,  \* p->last_framebuf
    ccmode,         \* p->ccmode: custom-character mode of the current frame
    last_ccmode,    \* p->last_ccmode: character set loaded in the display
    isOpen,         \* between lcterm_init and lcterm_close
    dev,            \* the LCTerm: screen, CG RAM, cursor and parser state
    loaded,         \* ghost: bitmap of the last lcterm_set_char per slot
    drawn,          \* ghost: per cell, the glyph its drawer meant to show
    draws,          \* model bound: drawing calls since the last clear
    resent          \* ghost: some init_* call sent a character set the
                    \* display already held

vars == <<framebuf, last_framebuf, ccmode, last_ccmode, isOpen, dev, loaded, drawn, draws,
        resent>>

Idx   == 0 .. W * H - 1
Byte  == 0 .. 255
Slots == 0 .. 7
Modes == {"standard", "vbar", "hbar", "bignum"}
Icons == {"ICON_BLOCK_FILLED", "ICON_HEART_FILLED", "ICON_HEART_OPEN", "ICON_ARROW_UP"}
Blank == [i \in Idx |-> 32]
NoGlyph == <<>>   \* no bitmap / no intent

(***************************************************************************)
(* Glyph bitmaps: 8 pixel rows of 5 pixels, as in the static tables.       *)
(***************************************************************************)
Full5  == <<1, 1, 1, 1, 1>>
Empty5 == <<0, 0, 0, 0, 0>>
VBarGlyph(k) == [r \in 1..8 |-> IF r > 8 - k THEN Full5 ELSE Empty5]
HBarGlyph(k) == [r \in 1..8 |-> [c \in 1..5 |-> IF c <= k THEN 1 ELSE 0]]
\* bignum_ccs[i]: pixel rows 1-3 and 5-7 take one of these halves
BigL == <<1, 1, 0, 0, 0>>
BigR == <<0, 0, 0, 1, 1>>
BigLR == <<1, 1, 0, 1, 1>>
BigTop    == <<BigL, BigR, BigLR, Empty5, BigL, Empty5, BigL, BigR>>
BigBottom == <<Empty5, BigL, Empty5, BigL, BigR, BigLR, BigL, Empty5>>
BigNumGlyph(i) ==
    [r \in 1..8 |-> IF r \in 1..3 THEN BigTop[i + 1]
                    ELSE IF r \in 5..7 THEN BigBottom[i + 1] ELSE Empty5]
HeartOpen ==
    <<Full5, <<1,0,1,0,1>>, Empty5, Empty5, Empty5, <<1,0,0,0,1>>, <<1,1,0,1,1>>, Full5>>
HeartFilled ==
    <<Full5, <<1,0,1,0,1>>, <<0,1,0,1,0>>, <<0,1,1,1,0>>, <<0,1,1,1,0>>,
      <<1,0,1,0,1>>, <<1,1,0,1,1>>, Full5>>

\* The slots lcterm_init_vbar/_hbar/_num program, with their bitmaps.
GlyphTable ==
    [m \in Modes |->
        CASE m = "vbar"   -> [k \in 1..7 |-> VBarGlyph(k)]
          [] m = "hbar"   -> [k \in 1..5 |-> HBarGlyph(k)]
          [] m = "bignum" -> [i \in Slots |-> BigNumGlyph(i)]
          [] OTHER        -> <<>>]
ModeGlyphs(m) == GlyphTable[m]

(***************************************************************************)
(* Wire format (bytes as the driver writes them).                          *)
(***************************************************************************)
CURSOR_HOME == 30
CG_BEGIN    == 31
ESC         == 27

\* lcterm_set_char: one pixel row packed MSB-first, "data <<= 1; data |= px"
Pack(px) == LET f[k \in 0..5] == IF k = 0 THEN 0 ELSE 2 * f[k - 1] + px[k] IN f[5]
PackGlyph(g) == [r \in 1..8 |-> Pack(g[r])]

\* Defect variant: pixel rows sent without bit 7 set.
SetCharBytesNoMark(n, dat) ==
    IF n < 0 \/ n > 7 THEN <<>>
    ELSE <<CG_BEGIN, 8 * n>> \o [r \in 1..8 |-> Pack(dat[r])] \o <<CURSOR_HOME>>

\* lcterm_set_char: the 11-byte frame, or nothing for a bad slot number
SetCharBytes(n, dat) ==
    IF n < 0 \/ n > 7 THEN <<>>
    ELSE <<CG_BEGIN, 8 * n>> \o [r \in 1..8 |-> Pack(dat[r]) | 128] \o <<CURSOR_HOME>>

\* Defect variant: cells written without the escape byte.
EscapeNone(c) == <<c>>

\* lcterm_flush: user-defined characters (< 0x08) are escaped
Escape(c) == IF c < 8 THEN <<ESC, c>> ELSE <<c>>

FlushBytes(fb) ==
    <<CURSOR_HOME>> \o
    FlattenSeq([l \in 1..H |->
        FlattenSeq([i \in 1..W |-> Escape(fb[(l - 1) * W + (i - 1)])]) \o <<10, 13>>])

InitBytes  == <<26, 22, ESC, 75>>   \* clear, cursor off, "\x1bK" key scan off
CloseBytes == <<26, ESC, 75>>       \* clear, key scan off

(***************************************************************************)
(* The LCTerm's input parser, after the control codes the driver uses:     *)
(* 0x1A clear, 0x1E home (also ends CG programming), 0x1F begin CG         *)
(* programming (address byte, then rows with bit 7 set), 0x1B escape       *)
(* (a following code below 0x20 is shown literally, a letter is a          *)
(* command), 0x0A line feed, 0x0D carriage return; other codes below 0x20, *)
(* the user-defined characters among them, are commands that write no      *)
(* cell.  The cursor stops at the last column/row + 1.                     *)
(***************************************************************************)
PowerOn == [screen |-> [i \in Idx |-> 63], cg |-> [a \in 0..63 |-> 0],
            row |-> 0, col |-> 0, st |-> "text", ptr |-> 0]

Show(d, b) ==
    IF d.row < H /\ d.col < W
    THEN [d EXCEPT !.screen[d.row * W + d.col] = b, !.col = d.col + 1]
    ELSE [d EXCEPT !.col = IF d.col < W THEN d.col + 1 ELSE W]

TextByte(d, b) ==
    CASE b = 26          -> [d EXCEPT !.screen = Blank, !.row = 0, !.col = 0]
      [] b = CURSOR_HOME -> [d EXCEPT !.row = 0, !.col = 0, !.st = "text"]
      [] b = CG_BEGIN    -> [d EXCEPT !.st = "cgaddr"]
      [] b = ESC         -> [d EXCEPT !.st = "esc"]
      [] b = 10          -> [d EXCEPT !.row = IF d.row < H THEN d.row + 1 ELSE H]
      [] b = 13          -> [d EXCEPT !.col = 0]
      [] b < 32          -> d
      [] OTHER           -> Show(d, b)

Step(d, b) ==
    CASE d.st = "esc"    -> IF b < 32 THEN Show([d EXCEPT !.st = "text"], b)
                            ELSE [d EXCEPT !.st = "text"]
      [] d.st = "cgaddr" -> [d EXCEPT !.ptr = b % 64, !.st = "cgdata"]
      [] d.st = "cgdata" /\ b >= 128 ->
                            [d EXCEPT !.cg[d.ptr] = b % 32, !.ptr = (d.ptr + 1) % 64]
      [] OTHER           -> TextByte([d EXCEPT !.st = "text"], b)

\* the parser run over the bytes of one write(), left to right (the device
\* is carried as a one-element set, so each step is computed once)
Feed(d, bytes) ==
    LET after[k \in 0..Len(bytes)] ==
            IF k = 0 THEN {d} ELSE {Step(e, bytes[k]) : e \in after[k - 1]}
    IN  CHOOSE e \in after[Len(bytes)] : TRUE

\* A write() on the port opened O_NDELAY either sends all its bytes or,
\* with a full output queue, fails with EAGAIN; lcterm ignores the result.
Sent(bytes) == IF ShortWrites THEN {bytes, <<>>} ELSE {bytes}

\* the devices a sequence of write() calls can leave behind
Deliver(d, writes) ==
    LET after[k \in 0..Len(writes)] ==
            IF k = 0 THEN {d}
            ELSE {Feed(e, b) : e \in after[k - 1], b \in Sent(writes[k])}
    IN  after[Len(writes)]

DeviceGlyph(d, n) == [r \in 1..8 |-> d.cg[8 * n + r - 1]]

(***************************************************************************)
(* Driver helpers.                                                         *)
(***************************************************************************)
\* a sequence of lcterm_set_char calls <<slot, bitmap>>: one write each
Frames(prog) == [i \in DOMAIN prog |-> SetCharBytes(prog[i][1], prog[i][2])]

LoadGlyphs(prog, frames) ==
    /\ dev' \in Deliver(dev, frames)
    /\ loaded' = [s \in Slots |->
                    IF \E i \in DOMAIN prog : prog[i][1] = s
                    THEN prog[SelectLastInSeq(prog, LAMBDA e : e[1] = s)][2]
                    ELSE loaded[s]]

\* Defect variant: the init functions stop one slot short.
ProgramTableShort ==
    [m \in Modes \ {"standard"} |->
        LET lo == Min(DOMAIN ModeGlyphs(m))
        IN  [k \in 1..Cardinality(DOMAIN ModeGlyphs(m)) - 1 |->
                <<lo + k - 1, ModeGlyphs(m)[lo + k - 1]>>]]

\* the slots in the order the init function programs them, lowest first
ProgramTable ==
    [m \in Modes \ {"standard"} |->
        LET lo == Min(DOMAIN ModeGlyphs(m))
        IN  [k \in 1..Cardinality(DOMAIN ModeGlyphs(m)) |->
                <<lo + k - 1, ModeGlyphs(m)[lo + k - 1]>>]]
ModeProgram(m) == ProgramTable[m]
\* the set_char frames of each mode and of each heart, computed once
FrameTable == [m \in Modes \ {"standard"} |-> Frames(ProgramTable[m])]
HeartProgram(bitmap) == <<<<0, bitmap>>>>
HeartFrames == [h \in {HeartOpen, HeartFilled} |-> Frames(HeartProgram(h))]

\* the display's CG RAM holds every bitmap of character set m
DisplayHolds(d, m) ==
    \A s \in DOMAIN ModeGlyphs(m) : DeviceGlyph(d, s) = PackGlyph(ModeGlyphs(m)[s])

\* lcterm_init_vbar / _hbar / _num: the mode request
Refused(m) == last_ccmode # m /\ ccmode # "standard"

\* Defect variant: "work already done" tested on ccmode, not last_ccmode.
AcquireModeRequested(m) ==
    \/ /\ ccmode = m
       /\ UNCHANGED <<ccmode, last_ccmode, dev, loaded, resent>>
    \/ /\ ccmode # m /\ ccmode # "standard"
       /\ UNCHANGED <<ccmode, last_ccmode, dev, loaded, resent>>
    \/ /\ ccmode = "standard"
       /\ ccmode' = m
       /\ last_ccmode' = m
       /\ resent' = (resent \/ DisplayHolds(dev, m))
       /\ LoadGlyphs(ModeProgram(m), FrameTable[m])

AcquireMode(m) ==
    \/ /\ last_ccmode = m                       \* work already done
       /\ UNCHANGED <<ccmode, last_ccmode, dev, loaded, resent>>
    \/ /\ Refused(m)                            \* warning: cannot combine
       /\ UNCHANGED <<ccmode, last_ccmode, dev, loaded, resent>>
    \/ /\ last_ccmode # m
       /\ ccmode = "standard"
       /\ ccmode' = m
       /\ last_ccmode' = m
       /\ resent' = (resent \/ DisplayHolds(dev, m))
       /\ LoadGlyphs(ModeProgram(m), FrameTable[m])

\* One lcterm_chr call; g is the glyph its drawer means for a custom char.
ChrCall(x, y, c, g) == [x |-> x, y |-> y, c |-> c, g |-> g]
Meant(m, c) ==
    IF c \in DOMAIN ModeGlyphs(m)
    THEN [glyph |-> ModeGlyphs(m)[c], refused |-> Refused(m)] ELSE NoGlyph

\* Defect variant: the character stored as a signed char.
ChrSignedChar(s, call) ==
    LET x == call.x - 1
        y == call.y - 1
        c == IF call.c > 127 THEN call.c - 256 ELSE call.c
    IN  IF x >= 0 /\ x < W /\ y >= 0 /\ y < H
        THEN [fb |-> [s.fb EXCEPT ![y * W + x] = c],
              drawn |-> [s.drawn EXCEPT ![y * W + x] = call.g]]
        ELSE s

\* lcterm_chr: 1-based, silently ignored out of range
Chr(s, call) ==
    LET x == call.x - 1
        y == call.y - 1
    IN  IF x >= 0 /\ x < W /\ y >= 0 /\ y < H
        THEN [fb |-> [s.fb EXCEPT ![y * W + x] = call.c],
              drawn |-> [s.drawn EXCEPT ![y * W + x] = call.g]]
        ELSE s

DrawChrs(calls) ==
    LET after[k \in 0..Len(calls)] ==
            IF k = 0 THEN [fb |-> framebuf, drawn |-> drawn] ELSE Chr(after[k - 1], calls[k])
        s == after[Len(calls)]
    IN  /\ draws < MaxDraws
        /\ framebuf' = s.fb
        /\ drawn' = s.drawn
        /\ draws' = draws + 1

(***************************************************************************)
(* Bar rendering: lib_vbar_static / lib_hbar_static (server/drivers/       *)
(* lcd_lib.c, not in this source tree; modelled from the spec, 4.4).       *)
(* Full cells go through the driver's icon(ICON_BLOCK_FILLED), the one     *)
(* boundary cell gets partial glyph cc_offset + pixels, the rest blank.    *)
(***************************************************************************)
FilledUnits(len, cellPixels, promille) ==
    LET total == len * cellPixels
        u     == (2 * promille * total + 1000) \div 2000
    IN  IF u > total THEN total ELSE IF u < 0 THEN 0 ELSE u

BarCell(units, pos, cellPixels) ==
    LET px == units - (pos - 1) * cellPixels
    IN  IF px >= cellPixels THEN 255 ELSE IF px > 0 THEN px ELSE 32

BarCalls(x, y, dx, dy, len, promille, cellPixels, m) ==
    [pos \in 1..len |->
        LET c == BarCell(FilledUnits(len, cellPixels, promille), pos, cellPixels)
        IN  ChrCall(x + dx * (pos - 1), y + dy * (pos - 1), c, Meant(m, c))]

(***************************************************************************)
(* lcterm_num: bignum_map[num][row][column]; a colon uses column 0 only.   *)
(***************************************************************************)
BigNumMap == <<
    << <<1,2,3>>,   <<6,32,6>>,  <<6,32,6>>,  <<7,2,32>>  >>,   \* 0
    << <<7,6,32>>,  <<32,6,32>>, <<32,6,32>>, <<7,2,32>>  >>,   \* 1
    << <<1,2,3>>,   <<32,5,0>>,  <<1,32,32>>, <<2,2,0>>   >>,   \* 2
    << <<1,2,3>>,   <<32,5,0>>,  <<3,32,6>>,  <<7,2,32>>  >>,   \* 3
    << <<32,3,6>>,  <<1,32,6>>,  <<2,2,6>>,   <<32,32,0>> >>,   \* 4
    << <<1,2,0>>,   <<2,2,3>>,   <<3,32,6>>,  <<7,2,32>>  >>,   \* 5
    << <<1,2,32>>,  <<6,5,32>>,  <<6,32,6>>,  <<7,2,32>>  >>,   \* 6
    << <<2,2,6>>,   <<32,1,32>>, <<32,6,32>>, <<32,0,32>> >>,   \* 7
    << <<1,2,3>>,   <<4,5,0>>,   <<6,32,6>>,  <<7,2,32>>  >>,   \* 8
    << <<1,2,3>>,   <<4,3,6>>,   <<32,1,32>>, <<7,32,32>> >>,   \* 9
    << <<32,0,0>>,  <<7,0,0>>,   <<7,0,0>>,   <<32,0,0>>  >> >> \* colon

BigNumCalls(x, num) ==
    LET y     == (H - 2) \div 2
        ncols == IF num = 10 THEN 1 ELSE 3
    IN  [k \in 1..(4 * ncols) |->
            LET x2 == (k - 1) \div 4
                y2 == (k - 1) % 4
                c  == BigNumMap[num + 1][y2 + 1][x2 + 1]
            IN  ChrCall(x + x2, y + y2, c, Meant("bignum", c))]

(***************************************************************************)
(* Actions: one per exported handler.                                      *)
(***************************************************************************)
Init ==
    /\ framebuf = Blank
    /\ last_framebuf = Blank
    /\ ccmode = "standard"
    /\ last_ccmode = "standard"
    /\ isOpen = TRUE
    \* the init write follows tcflush(TCIOFLUSH) on a freshly opened port:
    \* the output queue is empty, so its four bytes are always accepted
    /\ dev = Feed(PowerOn, InitBytes)
    /\ loaded = [s \in Slots |-> NoGlyph]
    /\ drawn = [i \in Idx |-> NoGlyph]
    /\ draws = 0
    /\ resent = FALSE

\* lcterm_clear: blank the frame, the frame uses no custom characters yet
Clear ==
    /\ isOpen
    /\ framebuf' = Blank
    /\ ccmode' = "standard"
    /\ drawn' = [i \in Idx |-> NoGlyph]
    /\ draws' = 0
    /\ UNCHANGED <<last_framebuf, last_ccmode, isOpen, dev, loaded, resent>>

\* lcterm_flush: nothing to do when the frame equals the one last sent
FlushUnchanged ==
    /\ isOpen
    /\ framebuf = last_framebuf
    /\ UNCHANGED vars

\* Defect variant: the memcmp of lcterm_flush over the first row only.
FlushSendFirstRow ==
    /\ isOpen
    /\ \E i \in 0..W - 1 : framebuf[i] # last_framebuf[i]
    /\ dev' \in Deliver(dev, <<FlushBytes(framebuf)>>)
    /\ last_framebuf' = framebuf
    /\ UNCHANGED <<framebuf, ccmode, last_ccmode, isOpen, loaded, drawn, draws, resent>>

FlushSend ==
    /\ isOpen
    /\ framebuf # last_framebuf
    /\ dev' \in Deliver(dev, <<FlushBytes(framebuf)>>)
    /\ last_framebuf' = framebuf
    /\ UNCHANGED <<framebuf, ccmode, last_ccmode, isOpen, loaded, drawn, draws, resent>>

\* lcterm_chr
ChrOp(x, y, c) ==
    /\ isOpen
    /\ DrawChrs(<<ChrCall(x, y, c, NoGlyph)>>)
    /\ UNCHANGED <<last_framebuf, ccmode, last_ccmode, isOpen, dev, loaded, resent>>

\* lcterm_string: framebuf[y * width + x] for x from the start while
\* x < width; the start itself is not checked
StringOp(x, y, str) ==
    LET first == (y - 1) * W + (x - 1)
        n     == Max({0, Min({Len(str), W - (x - 1)})})
    IN  /\ isOpen
        /\ draws < MaxDraws
        /\ draws' = draws + 1
        /\ framebuf' = [i \in Idx |-> IF i \in first .. first + n - 1
                                      THEN str[i - first + 1] ELSE framebuf[i]]
        /\ drawn' = [i \in Idx |-> IF i \in first .. first + n - 1
                                   THEN NoGlyph ELSE drawn[i]]
        /\ UNCHANGED <<last_framebuf, ccmode, last_ccmode, isOpen, dev, loaded, resent>>

\* lcterm_vbar: init_vbar, then a bottom-up bar of cellheight 8
VBar(x, y, len, promille) ==
    /\ isOpen
    /\ AcquireMode("vbar")
    /\ DrawChrs(BarCalls(x, y, 0, -1, len, promille, 8, "vbar"))
    /\ UNCHANGED <<last_framebuf, isOpen>>

\* lcterm_hbar: init_hbar, then a left-to-right bar of cellwidth 5
HBar(x, y, len, promille) ==
    /\ isOpen
    /\ AcquireMode("hbar")
    /\ DrawChrs(BarCalls(x, y, 1, 0, len, promille, 5, "hbar"))
    /\ UNCHANGED <<last_framebuf, isOpen>>

\* lcterm_num: big digit on displays of 4 rows or more, else one character
NumRejected(num) ==
    /\ isOpen
    /\ num \notin 0..10
    /\ UNCHANGED vars

NumBig(x, num) ==
    /\ isOpen
    /\ num \in 0..10
    /\ H >= 4
    /\ AcquireMode("bignum")
    /\ DrawChrs(BigNumCalls(x, num))
    /\ UNCHANGED <<last_framebuf, isOpen>>

NumSmall(x, num) ==
    /\ isOpen
    /\ num \in 0..10
    /\ H < 4
    /\ DrawChrs(<<ChrCall(x, 1 + (H - 1) \div 2, IF num = 10 THEN 58 ELSE num + 48, NoGlyph)>>)
    /\ UNCHANGED <<last_framebuf, ccmode, last_ccmode, isOpen, dev, loaded, resent>>

\* lcterm_icon: the block is character 255; a heart is loaded into slot 0
\* with lcterm_set_char and drawn as character 0; others return -1.
IconBlock(x, y) ==
    /\ isOpen
    /\ DrawChrs(<<ChrCall(x, y, 255, NoGlyph)>>)
    /\ UNCHANGED <<last_framebuf, ccmode, last_ccmode, isOpen, dev, loaded, resent>>

IconHeart(x, y, bitmap) ==
    /\ isOpen
    /\ LoadGlyphs(HeartProgram(bitmap), HeartFrames[bitmap])
    /\ DrawChrs(<<ChrCall(x, y, 0, [glyph |-> bitmap, refused |-> FALSE])>>)
    /\ UNCHANGED <<last_framebuf, ccmode, last_ccmode, isOpen, resent>>

IconUnsupported ==
    /\ isOpen
    /\ UNCHANGED vars

Icon(x, y, icon) ==
    CASE icon = "ICON_BLOCK_FILLED" -> IconBlock(x, y)
      [] icon = "ICON_HEART_FILLED" -> IconHeart(x, y, HeartFilled)
      [] icon = "ICON_HEART_OPEN"   -> IconHeart(x, y, HeartOpen)
      [] OTHER                      -> IconUnsupported

\* lcterm_close: clear the display, disable key scanning, free the context
Close ==
    /\ isOpen
    /\ isOpen' = FALSE
    /\ dev' \in Deliver(dev, <<CloseBytes>>)
    /\ UNCHANGED <<framebuf, last_framebuf, ccmode, last_ccmode, loaded, drawn, draws, resent>>

\* after close the server calls no handler of this driver again
Closed ==
    /\ ~isOpen
    /\ UNCHANGED vars

Next ==
    \/ Clear
    \/ FlushUnchanged
    \/ FlushSend
    \/ \E cell \in ChrCells, c \in ChrChars : ChrOp(cell[1], cell[2], c)
    \/ \E cell \in StringCells, str \in Strings : StringOp(cell[1], cell[2], str)
    \/ \E cell \in BarCells, len \in BarLens, pm \in Promilles :
          \/ VBar(cell[1], cell[2], len, pm)
          \/ HBar(cell[1], cell[2], len, pm)
    \/ \E num \in Nums :
          \/ NumRejected(num)
          \/ \E x \in 1..W : NumBig(x, num) \/ NumSmall(x, num)
    \/ \E cell \in IconCells, icon \in Icons : Icon(cell[1], cell[2], icon)
    \/ Close
    \/ Closed

Spec == Init /\ [][Next]_vars

(***************************************************************************)
(* The server's render loop (outside this tree, spec.md 2) ends every      *)
(* frame with lcterm_flush, so a frame that differs from the one last sent *)
(* cannot stay unsent while the server keeps running: weak fairness of the *)
(* sending branch of lcterm_flush.  Nothing else is assumed of the        *)
(* server: it may stop drawing, close the driver or stop calling at all.   *)
(***************************************************************************)
FairSpec == Spec /\ WF_vars(FlushSend)

(***************************************************************************)
(* Properties.                                                             *)
(***************************************************************************)
TypeOK ==
    /\ framebuf \in [Idx -> Byte]
    /\ last_framebuf \in [Idx -> Byte]
    /\ ccmode \in Modes /\ last_ccmode \in Modes
    /\ isOpen \in BOOLEAN
    /\ dev.screen \in [Idx -> Byte] /\ dev.cg \in [0..63 -> 0..31]
    /\ dev.st \in {"text", "esc", "cgaddr", "cgdata"}

\* lcterm_flush keeps last_framebuf equal to what the display shows: the
\* escaping of user-defined characters, the row framing and the CG frames
\* of lcterm_set_char interleaved with it leave the LCTerm's parser back in
\* text mode with exactly last_framebuf on the screen.
DeviceShowsCommitted ==
    isOpen => /\ dev.screen = last_framebuf
              /\ dev.st = "text"

\* Every bitmap lcterm_set_char sent (from init_vbar/_hbar/_num or icon)
\* is what the LCTerm's CG RAM holds for that slot: the address byte and
\* the bit-7 marking of the pixel rows survive the parser.
DeviceGlyphsProgrammed ==
    isOpen => \A n \in Slots :
                 loaded[n] # NoGlyph => DeviceGlyph(dev, n) = PackGlyph(loaded[n])

\* The caching contract of init_vbar/_hbar/_num: while last_ccmode names a
\* character set, the display's CG RAM holds every bitmap of that set, so
\* skipping the reprogramming ("Work already done") is sound.
GlyphCacheCoherent ==
    isOpen /\ last_ccmode # "standard" => DisplayHolds(dev, last_ccmode)

\* A user-defined character on the screen shows the glyph its drawer (bar,
\* big number, heart) meant, unless the drawer's mode request was refused
\* with the "cannot combine two modes" warning (the documented limitation).
GlyphsAsDrawn ==
    isOpen => \A i \in Idx :
        (framebuf[i] < 8 /\ drawn[i] # NoGlyph /\ ~drawn[i].refused)
            => loaded[framebuf[i]] = drawn[i].glyph

\* The I/O-saving side of the caching contract (spec.md 4.2 and 8): a
\* character set goes over the serial line only when the display does not
\* already hold all of it, so draw-vbar, clear, draw-vbar programs the
\* glyphs once.  It rests on last_ccmode, not ccmode, deciding "work
\* already done", and on every other set (and the heart) overwriting a
\* slot of the one last_ccmode names.
NoRedundantUpload == ~resent

\* The display keeps catching up with the server: however the frames are
\* drawn, the LCTerm again and again shows exactly the frame in framebuf
\* (until the driver is closed).  It needs lcterm_flush's memcmp to see
\* every difference and its frame to reach every cell.
EventuallyShown == []<>(~isOpen \/ dev.screen = framebuf)

\* lcterm_flush composes the frame in alloca(width * height * 2 + 5),
\* "worst case: we need to escape *every* character": the frame (cursor
\* home, every cell with its escape, 0x0A 0x0D after every row) fits.
FlushFitsBuffer ==
    isOpen => Len(FlushBytes(framebuf)) <= W * H * 2 + 5

==============================================================================
