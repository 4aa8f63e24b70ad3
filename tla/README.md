# TLA+ models of the LCDproc (mythtv) display drivers

This directory holds TLA+ models of the code under `src/`, the TLC
configurations that check them, and `PROJECT.json`. `PROJECT.json` lists the
components, runs, mutants, the source lines each definition models, the
findings, and the hazards.

## The system

`src/` holds a slice of LCDd, the LCDproc server, and of one client:

| Part | Source | What it does |
|---|---|---|
| lcterm driver | `src/server/drivers/lcterm.c` | Renders a character frame on an LCTerm serial display. It keeps a frame buffer, diffs it against the last frame sent, escapes glyph codes, programs custom characters (bars, big digits, heart icons) and tracks which set is loaded. |
| bar library | `lcd_lib.c` (not in this tree) | `lib_vbar_static` and `lib_hbar_static` quantise a promille value into full, partial and blank cells. |
| reporting | `src/shared/report.c` | `report()` and `set_reporting()`. Messages are stored until a destination is chosen, then replayed. |
| text driver | `src/server/drivers/text.c` | Prints frames to stdout. |
| HD44780 native I2C | `src/server/drivers/hd44780-native-i2c.c`, `hd44780-drivers.h` | Sends HD44780 commands over `/dev/i2c`. The header holds the connection-type table. |
| client utilities | `src/clients/lcdproc/util.c` | Percent and unit formatting. |
| headers | `render.h`, `configfile.h`, `mtc_s16209x.h`, `t6963.h`, `acconfig.h` | Declarations only. |

### How the lcterm driver is used

The server's render loop calls these on every frame:

1. `clear`
2. any number of `chr`, `string`, `vbar`, `hbar`, `num` and `icon`
3. `flush`

`init` comes once before the loop and `close` once after it. There is one
thread: every handler runs to completion. Handlers interact only through the
driver's private data and through the serial line.

- **State.** `framebuf` and `last_framebuf` are the current frame and the
  last frame written. `ccmode` is the custom-character mode the current frame
  asked for. `last_ccmode` is the set loaded in the display.
- **Caching contract.** `clear` resets `ccmode` to `standard` but leaves
  `last_ccmode` alone. So a frame that asks for the mode that is already
  loaded skips reprogramming ("Work already done").
- **Mode conflicts.** A frame that asks for a second mode gets a warning and
  draws with the glyphs that are loaded.
- **Icons.** `icon` writes character 255 for a block. It programs slot 0 with
  a heart directly, without asking the mode manager.

## Modules

### `LCTerm.tla`: the lcterm driver and the display it talks to

**Variables.** `framebuf`, `last_framebuf`, `ccmode` and `last_ccmode` are
the `PrivateData` fields. `isOpen` is true between `init` and `close`.

`dev` is the LCTerm itself: screen cells, the 64 bytes of CG RAM, the cursor,
and the state of its input parser. Every `write()` the driver makes is fed to
that parser byte by byte (`Feed`, `Deliver`). This lets the properties say
what the display actually shows. The parser follows the wire framing of the
spec (§6):

| Byte | Meaning |
|---|---|
| 0x1A | clear |
| 0x1E | home, which also ends CG programming |
| 0x1F | start CG programming: an address byte, then pixel rows with bit 7 set |
| 0x1B | escape |
| 0x0A, 0x0D | line feed, carriage return |

The parser is hardware, so it is `spec_modelled`.

**Ghost variables.**
- `loaded`: the last bitmap `lcterm_set_char` sent for each slot.
- `drawn`: for each cell, the glyph the drawer (bar, big digit, heart) meant,
  and whether that drawer's mode request was refused.
- `draws`: the number of drawing calls since the last clear. It exists only to
  bound the model.
- `resent`: set once an `init_vbar`/`_hbar`/`_num` upload finds its whole
  set already in the display's CG RAM. It stays set.

**Actions, one per handler.**

| Action | Handler |
|---|---|
| `Init` | `lcterm_init` |
| `Clear` | `lcterm_clear` |
| `FlushUnchanged`, `FlushSend` | the two outcomes of the `memcmp` in `lcterm_flush` |
| `ChrOp` | `lcterm_chr` |
| `StringOp` | `lcterm_string` |
| `VBar`, `HBar` | `lcterm_vbar`/`lcterm_hbar`, including `init_vbar`/`init_hbar` and the bar library |
| `NumRejected`, `NumBig`, `NumSmall` | the three paths of `lcterm_num` |
| `IconBlock`, `IconHeart`, `IconUnsupported` | `lcterm_icon` |
| `Close` | `lcterm_close` |

Each action covers its whole handler. For example, `VBar` includes
`AcquireMode("vbar")`. That operator is `init_vbar` with its three outcomes:

- work already done;
- refused with the warning;
- program slots 1-7 with seven `set_char` frames.

`VBar` then draws the bar's cells with `lcterm_chr`. `DrawChrs` folds a
sequence of `lcterm_chr` calls, range check included, over the frame buffer.

`ShortWrites` (a constant) lets every `write()` of `lcterm_flush` either
send its bytes or send nothing. That is the EAGAIN case of the `O_NDELAY`
port, whose result the driver ignores. The init write of `lcterm_init`
follows `tcflush(TCIOFLUSH)` on a freshly opened port, so its four bytes
meet an empty output queue and are always delivered.

**Abstraction.**
- Characters are drawn from a one-letter alphabet plus the glyph codes the
  drawers produce.
- Positions, strings, bar lengths and fill levels come from small sets
  defined in `MC_LCTerm.tla`.
- `lcterm_string` checks only `x < width`. The model takes any start whose
  writes stay inside the allocation, on screen or not. A start before the
  buffer or below the last row writes outside it, which C leaves undefined,
  so it is excluded by an `ASSUME`.
- `Feed` carries the device as a one-element set, so TLC computes each
  parser step once. This also holds when TLC evaluates `ENABLED FlushSend`
  for the fairness condition.
- `W` and `H` stand for the parsed `Size`. The `sscanf` parse and the
  fallback to 16x2 are not modelled.

### `Report.tla`: `report()` / `set_reporting()`

**Variables.** `report_level`, `report_dest` and `stored` are the static
variables. `stored` is `stored_msgs` and `stored_levels` up to
`num_stored_msgs`. `syslog_open` tracks `openlog`/`closelog`.

**Ghost variables.** `out` is the messages written to stderr or syslog, in
order. `dropped` is the messages filtered by level. `issued` counts calls to
`report`.

**Actions.**
- `Report(level)` is `report` plus `store_report_message`.
- `SetReporting` is `set_reporting`, including `flush_messages`. The new
  destination comes from `NewDests`. `report()` switches on the destination:
  `RPT_DEST_STORE` stores, stderr and syslog print, and any other value
  falls through the switch and loses the message.
- `SetReportingInvalid` is the rejected-level path, which itself reports.

Message text is abstracted to an issue number.

### `HD44780NativeI2C.tla`: the native I2C connection

**Actions, one per function.**

| Action | Function |
|---|---|
| `InitFails` | `hd_init_native_i2c`, when `open` or the `I2C_SLAVE` ioctl fails |
| `hd_init_native_i2c` | the 33 writes of the init sequence; returns 0 |
| `native_i2c_HD44780_senddata` | one command (`RS_INSTR`) or data byte |
| `native_i2c_HD44780_backlight` | contrast 240 or 50 inside an OLED block |
| `native_i2c_HD44780_set_contrast` | the contrast value inside an OLED block |
| `native_i2c_HD44780_close` | closes the descriptor |

`native_i2c_out` sends a control byte (0x80 command, 0x40 data) and one byte
per write. With `WriteFails` each write may fail. The failure is reported
once (`no_more_errormsgs`) and otherwise ignored.

**The controller.** `CtrlStep` is the US2066/SSD1311 command interpreter,
following the command tables the driver's own comments name:
- the RE bit, set by function set 0x2A and cleared by 0x28;
- the SD bit, set by 0x79 and cleared by 0x78;
- an argument pending after two-byte commands such as 0x81 (set contrast);
- the display-on bit and the contrast register.

The controller is not code of this repository, so `CtrlStep` has no map
entry. `CtrlStart` lets init meet every mode a previous run can leave
behind. `Garbage` is every value of the uninitialised `data[1]` of the
first write.

`wanted` is a ghost: the contrast the last backlight or set_contrast call
asked for.

### `TextDriver.tla`: the text driver

**Variables.**
- `framebuf` is NULL or a function from `0..n-1` to characters. Its domain
  is the allocation.
- `wid`, `hgt`, `cellwid` and `cellhgt` are the driver fields.
- `fault` is a ghost set by any access outside the allocation, or a read
  past `num_icon`. What C does after such an access is undefined, so the
  model only records it.

**Actions.** One per handler: `text_init`, `text_close`, `text_clear`,
`text_flush`, `text_chr`, `text_string`, `text_num`, `text_vbar` and
`text_hbar`. Each computes the set of indices the handler's loops write;
`Store` applies the writes.

`text_init` mallocs with the geometry the structure has on entry and only
then installs the 20x4 defaults, exactly as the code orders it. `Prior` is
the set of geometries a structure can have on entry.

### `UnitConvert.tla`: client number formatting

Values are exact rationals `n/d * base^e`, so 1024^8 needs no big floats.

`convert_double` is split into steps:
- `ConvertEntry`, with the roundlimit range check;
- one `ConvertScale` per loop iteration;
- `ConvertReturn`, which also prints for `sprintf_memory`.

A `"%.Nf"` conversion is modelled by the digits it prints: round half up,
with inputs chosen off the ties. `sprintf_percent` is one action.

## Runs

| Run | Config | Expect | What it shows |
|---|---|---|---|
| `lcterm_2x2` | `LCTerm_2x2.cfg` | pass | See below. Under `FairSpec` it also checks liveness. |
| `lcterm_1x4` | `LCTerm_1x4.cfg` | pass | See below. |
| `heart_bignum` | `LCTerm_heart_bignum.cfg` | violation | `GlyphCacheCoherent` fails when a heart icon follows a big number. |
| `early_return` | `LCTerm_early_return.cfg` | violation | `GlyphsAsDrawn` fails when a vbar and an hbar share a frame that follows a vbar frame. |
| `short_write` | `LCTerm_short_write.cfg` | violation | `EventuallyShown` fails when a frame's write is lost: under a weakly fair `lcterm_flush` the display never catches up. |
| `report_pass` | `Report_pass.cfg` | pass | Stored messages come out exactly once and in order (`ReportConservation`, `OutputInIssueOrder`). |
| `flush_overflow` | `LCTerm_flush_overflow.cfg` | violation | `FlushFitsBuffer` fails on a four-row display as soon as one cell holds a user-defined character. |
| `i2c_pass` | `HD44780NativeI2C_pass.cfg` | pass | See below. |
| `i2c_contrast_re` | `HD44780NativeI2C_contrast_re.cfg` | violation | `FundamentalSetRestored` fails after `set_contrast`, which leaves RE = 1. |
| `text_pass` | `TextDriver_pass.cfg` | pass | On the 20x4 display `text_init` sets up, every handler stays inside the buffer (`MemorySafe`). |
| `text_unsized` | `TextDriver_unsized.cfg` | violation | `MemorySafe` fails when `text_init` meets a structure with no geometry yet. |
| `unit_pass` | `UnitConvert_pass.cfg` | pass | See below. |

**`lcterm_2x2`** is a 2x2 display with bars, characters (including off-screen
ones), strings cut at the edge, small numbers and icons, over any number of
frames. It checks:
- the display shows exactly `last_framebuf`, and its parser is back in text
  mode after every handler (`DeviceShowsCommitted`);
- every slot holds the last bitmap sent to it (`DeviceGlyphsProgrammed`);
- the set named by `last_ccmode` is resident in CG RAM
  (`GlyphCacheCoherent`);
- no character set is sent that the display already holds, so draw-vbar,
  clear, draw-vbar programs the glyphs once (`NoRedundantUpload`, spec §8).
  The ghost flag `resent` is set when an upload finds its set already in
  CG RAM. Only this property catches a "work already done" test on
  `ccmode` instead of `last_ccmode` (mutant `AcquireModeRequested`). With
  that defect the display still shows the right glyphs, and every other
  property holds. The heart icon is outside this property: `lcterm_icon`
  re-sends slot 0 on every call, even when it already holds that heart.
- under `FairSpec`, the display shows exactly `framebuf` again and again,
  until close (`EventuallyShown`). Only this property catches a flush whose
  `memcmp` misses part of the frame (mutant `FlushSendFirstRow`): the
  safety properties all still hold with that defect.

**`lcterm_1x4`** is a four-row display, so `NumBig` and the bignum set are
reachable. Two drawing calls per frame let a frame request two modes, so the
refused branch runs too. It checks the two wire-level properties,
`DeviceShowsCommitted` and `DeviceGlyphsProgrammed`. `GlyphCacheCoherent` is left out here because it does not hold at this
height (see the findings).

**`i2c_pass`** uses a reliable bus. From every controller state, and every
garbage first byte, it checks:
- init leaves RE = 0, SD = 0, no argument pending and the display on
  (`InitLeavesFundamentalSet`, an action property);
- no call returns inside the OLED command set (`OLEDCommandSetExited`);
- the contrast register holds the last requested value, whatever the core
  sends in between (`ContrastAsRequested`).

**`unit_pass`** checks two things over byte counts from 0 to 5 Yi, and
every roundlimit inside (0, 1] and outside it on both sides:
- `convert_double` picks the smallest unit that brings the value below
  1000 * roundlimit (`UnitMinimal`);
- `sprintf_percent` prints at most five characters (`PercentWidth`).

`sprintf_memory` is modelled too, and `MemoryWidth` states the five
characters the comment at `util.c:82` counts on. It is not in the run
because it does not hold (see the variants and finding 7).

Every property of the passing runs has a mutant: a variant of a modelled
definition with a plausible defect, which TLC must catch.

| Mutant | Defect |
|---|---|
| `ChrSignedChar` | stores `char` as signed |
| `EscapeNone` | drops the 0x1B escape |
| `SetCharBytesNoMark` | drops bit 7 of the pixel rows |
| `ProgramTableShort` | programs one slot too few |
| `AcquireModeRequested` | "work already done" tested on `ccmode` |
| `FlushMessagesShort` | off-by-one in the replay loop |
| `FlushMessagesReversed` | replays in the wrong order |
| `SetReportingNoCheck` | drops the level check |
| `BacklightNoExit` | backlight without the closing 0x78 |
| `SetContrastValueFirst` | sends the value before 0x81 |
| `InitCommandsNoExit` | the init sequence without its last 0x78 |
| `HBarColsNoEdge` | the hbar loop without `x <= wid` |
| `ConvertEntryNoClamp` | drops the roundlimit range check |
| `PercentThresholdHigh` | puts the "100%" threshold at 99.99 |
| `FlushSendFirstRow` | the `memcmp` of `lcterm_flush` over the first row only |

### Variants that show the remaining hazards

Each of these is a one-line change to a pass config. TLC then reports the
property named:

| Variant | Property that fails |
|---|---|
| `WriteFails = TRUE` in `HD44780NativeI2C_pass.cfg` | `InitLeavesFundamentalSet`: a lost 0x78 leaves SD = 1, and init still returns 0. |
| `Nums = {10}` in `TextDriver_pass.cfg` | `MemorySafe`: a colon reads `num_icon[10]`, past the table. |
| a value of 600 * 1024^8 in `MC_Values` | `UnitMinimal`: the loop walks onto the NULL terminator of `units[]`. |
| `RPT_DEST_OTHER` in `NewDests` of `Report_pass.cfg` | `ReportConservation`: stored and later messages are lost. |
| `MAX_STORED_MSGS = 2`, `MaxReports = 3`, `Levels = {4}`, `NewLevels = {4}` in `Report_pass.cfg`, checking `StoreWithinBounds` | `StoreWithinBounds`: the third message before `set_reporting` is written past `stored_msgs[]`. The code has no check at any size. |
| `INVARIANT MemoryWidth` in `UnitConvert_pass.cfg` | `MemoryWidth`: 9.9995 prints as "10.000", six characters. |

### Bounds

- **Display sizes.** 2x2 has two columns and two rows. That is enough for a
  string cut at the right edge, a two-cell bar in each direction, and
  out-of-range `chr` calls on both axes. 1x4 is the smallest display where
  `lcterm_num` takes the big-digit path.
- **Drawing calls per frame (`MaxDraws`).** 1 on 2x2 and 2 on 1x4. Two is
  the least that lets one frame ask for two modes. The number of frames is
  unbounded.
- **Drawing inputs.**
  - The numbers are -1 (rejected) and 10. The colon draws slot 7 in one
    column, and init_num still programs all eight slots.
  - Fill levels 500 and 1000 produce partial, full and blank cells.
  - The bar anchors are bottom-left and top-right, so the two bars of one
    frame land on different cells.
- **Report.** Four messages at levels ERR and DEBUG, with set_reporting to
  every destination at levels ERR, INFO and the invalid 9. That is enough for
  a message to be stored, replayed, filtered at replay, and reported directly.
- **Flush buffer.** The frame is `1 + w*h + e + 2*h` bytes for `e` escaped
  cells; the buffer is `2*w*h + 5`. It overflows exactly when
  `e > w*h - 2*h + 4`. On two rows that can never happen. On 1x4 it needs
  one cell, so the 1x4 instance shows the defect with the least drawing.
  On 20x4 it needs 77 of the 80 cells.
- **I2C.**
  - The controller may start in every combination of RE, SD, pending argument
    and display bit.
  - The first byte ranges over all 256 values.
  - The core's commands include clear, home, display on/off, function set
    0x38 and both address commands.
  - The data bytes include 0x2A and 0x79, the codes that would switch modes
    if they were sent as commands.
- **Text.**
  - The default geometry is the code's own 20x4.
  - `Prior` adds 0x0 and Wx1 structures for the unsized run.
  - Bar lengths are 1 pixel, and more pixels than the screen has in either
    direction, so a bar stops at the edge.
- **Units.**
  - Values are exact, with `e` up to 8 (Yi).
  - Three values sit just below 10, 100 and 1000, where `%.3f`, `%.2f`
    and `%.1f` round up to the next power of ten.
  - Roundlimits are -1, 0, 0.1, 0.5, 1 and 1.5.
  - Percentages sit on both sides of 0, 9.99, 99.9 and 100.

### Fairness

`LCTerm.tla` defines `FairSpec == Spec /\ WF_vars(FlushSend)`. The server's
render loop (outside `src/`, spec §2) ends every frame with `lcterm_flush`.
So while the driver is open, a frame that differs from the last one sent
cannot stay unsent for ever. Weak fairness of the sending branch says
exactly that. Nothing else is fair: the server may stop drawing, close the
driver, or stop calling at all. Only `lcterm_2x2` uses `FairSpec`.

The other modules check safety only. The text driver, the I2C connection,
the report sink and the unit conversion have nothing that must eventually
happen beyond a call returning, and every call is a single step.

## Findings

1. **Heart icon over big numbers** (spec/code divergence, `lcterm.c:809`).
   `lcterm_icon` reprograms slot 0 and leaves `last_ccmode = bignum`. The next
   big number skips reprogramming and draws with the heart in slot 0. The
   spec (§4.5) says icons are programmed under an IconSet mode.
2. **Early return keeps `ccmode` standard** (code bug, `lcterm.c:431`, and
   likewise 513 and 651). After a clear, the "Work already done" return does
   not record the mode in `ccmode`. A second mode in the same frame is then
   granted with no warning, and it rewrites the glyphs of cells already
   drawn.
3. **Ignored `write()` result** (spec/code divergence, `lcterm.c:273`).
   `lcterm_flush` copies `framebuf` into `last_framebuf` whether or not the
   write sent anything. After a lost frame write the display keeps the old
   picture, and every later flush returns at the `memcmp`, so the frame is
   never resent: even with `lcterm_flush` weakly fair the display does not
   catch up. The spec (§3, §7) says committed equals transmitted and the
   next successful flush catches up.
4. **Flush buffer too small** (code bug, `lcterm.c:255`). The
   `alloca(width*height*2 + 5)` buffer of `lcterm_flush` is commented as
   the worst case of escaping every character. It forgets the `0x0A 0x0D`
   after each row. From three rows up, a frame with enough user-defined
   characters overflows the stack buffer. On 1x4, one half-filled vbar
   cell is enough.
5. **`set_contrast` leaves RE = 1** (code bug, `hd44780-native-i2c.c:341`).
   `set_contrast` closes its OLED block with 0x78 but never sends 0x28.
   `backlight` does send it. The next Display ON/OFF command from the core
   is then taken as an extended-set command.
6. **`text_init` allocates before setting the size** (code bug,
   `text.c:106`). The buffer is `malloc`ed with the structure's geometry on
   entry. The 20x4 defaults are set after it, so a structure whose
   geometry is smaller than 20x4 (none yet, say) gets a buffer too small
   for the `memset` that follows.
7. **`sprintf_memory` can print six characters** (code bug,
   `util.c:42`). The decimals are chosen from the value before `%.Nf`
   rounds it, so 9.9995, 99.996 and 999.96 print as "10.000", "100.00"
   and "1000.0", one more than the five the comment at `util.c:82`
   counts on. The `MemoryWidth` variant above shows it; it has no run of
   its own.

The report store has no bounds check either (`report.c:96`). That is kept
as a hazard with the variant above, not as a run.

## Not modelled yet, and the plan

- **Prefix writes.** A `write()` that sends only part of its bytes leaves the
  display's parser mid-escape or mid-CG-frame. A run with the glyph
  properties under `ShortWrites` comes with it.
- **Control characters in the frame.** Cells 0x08-0x1F are not escaped
  (`lcterm.c:266`). Planned as a run with such characters in `ChrChars`.
- **`lcterm_string` with a start outside the buffer** (`y` below the last
  row, or before cell 0). C leaves it undefined. The `ASSUME` on
  `StringCells` excludes it. The runs start strings on screen, as the
  server does.
- **Bar quantisation.** An abstract "bar length is monotone in promille"
  specification for `FilledUnits`/`BarCell`.
- **The connection-type table** in `hd44780-drivers.h`. It is a static
  array of initialisers. Its lookup code is not in this tree, and nothing
  in `src/` dispatches on the connection-type id, so there is no behaviour
  to model.
- **The FreeBSD branch** of `hd44780-native-i2c.c`. It differs only in how
  a write reaches the bus.
- **Size parsing** stays abstracted to `W` and `H`. Its range check and
  fallback make every accepted geometry valid by construction, so a
  property about it would only restate the guard.
- **Init failure paths** of `lcterm_init` (malloc or `open` failing) and
  the `fd >= 0` test in `lcterm_close`. They leave the device untouched
  and the context unusable; the server does not call the driver again.
- **Termios set-up, the `Device` configuration and syslog output.** Pure I/O,
  left out.
