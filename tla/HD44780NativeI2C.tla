-------------------------- MODULE HD44780NativeI2C --------------------------
(***************************************************************************)
(* The native I2C connection of the hd44780 driver for US2066/SSD1311 OLED *)
(* controllers, src/server/drivers/hd44780-native-i2c.c (Linux build).     *)
(* Every native_i2c_out sends a control byte (0x80 command, 0x40 data) and *)
(* one byte.  The controller interprets a command according to two mode    *)
(* bits the code's own comments name: RE (extended instruction set, set   *)
(* by function set 0x2A, cleared by 0x28) and SD (OLED characterisation,  *)
(* 0x79/0x78 while RE = 1), and some commands take the next byte as an     *)
(* argument.  The generic hd44780 core drives the display through         *)
(* senddata with fundamental-set commands (RE = 0, SD = 0).                *)
(***************************************************************************)
EXTENDS Integers, Sequences

CONSTANTS
    CtrlStart,      \* controller states init may meet (power-on, a previous run)
    Garbage,        \* values the uninitialised data[1] of the first write may hold
    InstrBytes,     \* commands the hd44780 core sends through senddata
    DataBytes,      \* characters the core sends through senddata
    ContrastValues, \* arguments of set_contrast
    WriteFails      \* TRUE: a write() on the I2C device may fail

RS_INSTR == 1
RS_DATA  == 0
CMD  == \h80   \* control byte: command follows
DATA == \h40   \* control byte: data follows

(***************************************************************************)
(* The controller, after the command tables the code's comments follow:    *)
(* the RE and SD mode bits, whether the next byte is the argument of a     *)
(* two-byte command (and whether that command is Set Contrast 0x81), the  *)
(* display-on bit of Display ON/OFF Control (0x08-0x0F, fundamental set    *)
(* only) and the contrast register.                                        *)
(***************************************************************************)
Pending == {"none", "contrast", "other"}
OLEDTwoByte == {\hD5, \hD9, \hDA, \hDB, \hDC}
ExtTwoByte  == {\h71, \h72}   \* function selection A / B

CtrlStep(d, ctl, b) ==
    CASE d.pend = "contrast"           -> [d EXCEPT !.pend = "none", !.contrast = b]
      [] d.pend = "other"              -> [d EXCEPT !.pend = "none"]
      [] ctl = DATA                    -> d
      [] d.sd = 1 /\ b \in {\h78, \h79} -> [d EXCEPT !.sd = b - \h78]
      [] d.sd = 1 /\ b = \h81        -> [d EXCEPT !.pend = "contrast"]
      [] d.sd = 1 /\ b \in OLEDTwoByte -> [d EXCEPT !.pend = "other"]
      [] d.sd = 1                      -> d
      [] b \in \h20..\h3F          -> [d EXCEPT !.re = (b \div 2) % 2]
      [] d.re = 1 /\ b \in {\h78, \h79} -> [d EXCEPT !.sd = b - \h78]
      [] d.re = 1 /\ b \in ExtTwoByte  -> [d EXCEPT !.pend = "other"]
      [] d.re = 0 /\ b \in \h08..\h0F -> [d EXCEPT !.on = ((b \div 4) % 2 = 1)]
      [] OTHER                         -> d

VARIABLES
    phase,              \* "down" (no driver), "failed" (init returned -1), "ready"
    ctrl,               \* the controller (see CtrlStep)
    no_more_errormsgs,  \* the static flag of native_i2c_out
    wanted              \* ghost: contrast of the last backlight/set_contrast
                        \* call since init, or NoContrast

vars == <<phase, ctrl, no_more_errormsgs, wanted>>

NoContrast == -1

(***************************************************************************)
(* native_i2c_out over a sequence of bytes with one control byte: each     *)
(* write either reaches the controller or fails; a failure is reported     *)
(* (at RPT_ERR the first time in the process) and otherwise ignored.       *)
(* Result: the set of [ctrl, failed] outcomes.                             *)
(***************************************************************************)
native_i2c_out(d, ctl, bytes) ==
    LET after[k \in 0..Len(bytes)] ==
            IF k = 0 THEN {[ctrl |-> d, failed |-> FALSE]}
            ELSE LET prev == after[k - 1]
                 IN  {[ctrl |-> CtrlStep(r.ctrl, ctl, bytes[k]), failed |-> r.failed] :
                          r \in prev}
                     \cup {[ctrl |-> r.ctrl, failed |-> TRUE] : r \in IF WriteFails THEN prev ELSE {}}
    IN  after[Len(bytes)]

\* Send a command sequence and record the outcome.
SendCommands(bytes) ==
    \E r \in native_i2c_out(ctrl, CMD, bytes) :
        /\ ctrl' = r.ctrl
        /\ no_more_errormsgs' = (no_more_errormsgs \/ r.failed)

\* Defect variant: the init sequence without the final 0x78 (SD = 0).
InitCommandsNoExit ==
    <<\h2A, \h71, \h5C, \h28, \h08, \h2A, \h79, \hD5, \h70,
      \h78, \h08, \h06, \h2A, \h79, \h72, \h00, \hDA, \h10,
      \hDB, \h30, \hDC, \h03, \h28, \h2A, \h06, \h08,
      \h28, \h28, \h01, \h80, \h0C>>

\* The display-init commands of hd_init_native_i2c after the first write.
InitCommands ==
    <<\h2A, \h71, \h5C, \h28, \h08, \h2A, \h79, \hD5, \h70,
      \h78, \h08, \h06, \h2A, \h79, \h72, \h00, \hDA, \h10,
      \hDB, \h30, \hDC, \h03, \h78, \h28, \h2A, \h06, \h08,
      \h28, \h28, \h01, \h80, \h0C>>

Init ==
    /\ phase = "down"
    /\ ctrl \in CtrlStart
    /\ no_more_errormsgs = FALSE
    /\ wanted = NoContrast

\* hd_init_native_i2c: open() of the device fails, or the I2C_SLAVE ioctl
\* fails: report, return -1.
InitFails ==
    /\ phase = "down"
    /\ phase' = "failed"
    /\ UNCHANGED <<ctrl, no_more_errormsgs, wanted>>

\* hd_init_native_i2c: install the functions and send the init sequence;
\* the first write's data[1] is not initialised.  Returns 0 whatever the
\* writes did.
hd_init_native_i2c ==
    /\ phase = "down"
    /\ phase' = "ready"
    /\ \E g \in Garbage : SendCommands(<<g>> \o InitCommands)
    /\ wanted' = NoContrast

native_i2c_HD44780_senddata(flags, ch) ==
    /\ phase = "ready"
    /\ \E r \in native_i2c_out(ctrl, IF flags = RS_INSTR THEN CMD ELSE DATA, <<ch>>) :
          /\ ctrl' = r.ctrl
          /\ no_more_errormsgs' = (no_more_errormsgs \/ r.failed)
    /\ UNCHANGED <<phase, wanted>>

\* Defect variant: backlight without leaving the OLED command set.
BacklightNoExit(state) ==
    /\ phase = "ready"
    /\ SendCommands(<<\h2A, \h79, \h81, IF state THEN 240 ELSE 50, \h28>>)
    /\ wanted' = IF state THEN 240 ELSE 50
    /\ UNCHANGED phase

\* backlight: RE = 1, SD = 1, contrast 240 or 50, SD = 0, RE = 0
native_i2c_HD44780_backlight(state) ==
    /\ phase = "ready"
    /\ SendCommands(<<\h2A, \h79, \h81, IF state THEN 240 ELSE 50,
                      \h78, \h28>>)
    /\ wanted' = IF state THEN 240 ELSE 50
    /\ UNCHANGED phase

\* Defect variant: set_contrast sending the value before the 0x81 command.
SetContrastValueFirst(value) ==
    /\ phase = "ready"
    /\ SendCommands(<<\h2A, \h79, value, \h81, \h78>>)
    /\ wanted' = value
    /\ UNCHANGED phase

\* set_contrast: RE = 1, SD = 1, contrast value, SD = 0
native_i2c_HD44780_set_contrast(value) ==
    /\ phase = "ready"
    /\ SendCommands(<<\h2A, \h79, \h81, value, \h78>>)
    /\ wanted' = value
    /\ UNCHANGED phase

\* close: the file descriptor is closed; the controller keeps its state,
\* and a later server start runs init against it.
native_i2c_HD44780_close ==
    /\ phase \in {"ready", "failed"}
    /\ phase' = "down"
    /\ UNCHANGED <<ctrl, no_more_errormsgs, wanted>>

Next ==
    \/ InitFails
    \/ hd_init_native_i2c
    \/ \E f \in {RS_INSTR}, ch \in InstrBytes : native_i2c_HD44780_senddata(f, ch)
    \/ \E f \in {RS_DATA}, ch \in DataBytes : native_i2c_HD44780_senddata(f, ch)
    \/ \E s \in BOOLEAN : native_i2c_HD44780_backlight(s)
    \/ \E v \in ContrastValues : native_i2c_HD44780_set_contrast(v)
    \/ native_i2c_HD44780_close

Spec == Init /\ [][Next]_vars

(***************************************************************************)
(* Properties.                                                             *)
(***************************************************************************)
\* Whatever state a previous run (or a kill in the middle of a command
\* sequence) left the controller in, and whatever the uninitialised first
\* byte holds, a successful hd_init_native_i2c leaves the controller in the
\* fundamental instruction set, with no argument pending and the display on.
InitLeavesFundamentalSet ==
    [][phase # "ready" /\ phase' = "ready" =>
          /\ ctrl'.re = 0 /\ ctrl'.sd = 0 /\ ctrl'.pend = "none"
          /\ ctrl'.on]_vars

\* Between calls, the controller is never left in the OLED
\* characterisation set or waiting for an argument: backlight and
\* set_contrast both close their "Set OLED Characterization" block.
OLEDCommandSetExited ==
    phase = "ready" => ctrl.sd = 0 /\ ctrl.pend = "none"

\* The contrast register holds the value of the last backlight or
\* set_contrast call, whatever the hd44780 core sent in between: the
\* argument of 0x81 lands in the register and no later command moves it.
ContrastAsRequested ==
    phase = "ready" /\ wanted # NoContrast => ctrl.contrast = wanted

\* Between calls, the controller is in the fundamental instruction set
\* (RE = 0) that the hd44780 core's senddata commands are written for, so
\* a Display ON/OFF command the core sends next is taken as one.
FundamentalSetRestored ==
    phase = "ready" => ctrl.re = 0

==============================================================================
