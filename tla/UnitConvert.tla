----------------------------- MODULE UnitConvert -----------------------------
(***************************************************************************)
(* The number formatting of the lcdproc client, src/clients/lcdproc/util.c:*)
(* convert_double scales a value by powers of base until it is below       *)
(* 1000 * roundlimit and names the unit; sprintf_memory prints the scaled  *)
(* value with 1, 2 or 3 decimals and the unit; sprintf_percent prints a    *)
(* percentage.  Each loop iteration of convert_double is one step.         *)
(*                                                                         *)
(* Numbers are exact rationals: a value is [n |-> n, d |-> d, e |-> e],    *)
(* meaning n/d * base^e, with n/d >= 1 whenever e > 0 (a value kept in    *)
(* that form is at least base >= 1000 >= 1000 * roundlimit while e > 0).  *)
(* A roundlimit or percentage is [n |-> n, d |-> d].  A "%.Nf" conversion  *)
(* is modelled by the number it prints: round(v * 10^N), half up (inputs   *)
(* are chosen off the exact ties).                                         *)
(***************************************************************************)
EXTENDS Integers, Sequences

CONSTANTS
    Values,       \* inputs of sprintf_memory / convert_double
    Bases,        \* base arguments of direct convert_double calls
    RoundLimits,  \* roundlimit arguments
    Percents      \* inputs of sprintf_percent

ASSUME \A b \in Bases : b >= 1000
ASSUME \A v \in Values : v.d > 0 /\ v.n >= 0 /\ (v.e > 0 => v.n >= v.d) /\ v.e <= 9

\* units[] of convert_double, without its NULL terminator (index off + 1)
units == <<"", "k", "M", "G", "T", "P", "E", "Z", "Y">>

VARIABLES
    pc,       \* "idle", or "loop" inside convert_double
    caller,   \* "memory" (sprintf_memory) or "convert" (a direct call)
    arg,      \* ghost: the roundlimit argument of the call
    value,    \* *value
    base,     \* base
    rlim,     \* roundlimit after the range check
    off,      \* off
    ret,      \* the last convert_double return, with its arguments, or NoRet
    dst       \* what the last sprintf_* printed: [num, decimals, suffix], or NoDst

vars == <<pc, caller, arg, value, base, rlim, off, ret, dst>>

\* nothing returned / printed yet
NoRet == [value |-> [n |-> 0, d |-> 1, e |-> 0], off |-> -1, base |-> 1024,
          arg |-> [n |-> 1, d |-> 2]]
NoDst == [num |-> -1, decimals |-> 0, suffix |-> ""]

RECURSIVE Digits(_)
\* the number of decimal digits printed for a natural number
Digits(k) == IF k < 10 THEN 1 ELSE 1 + Digits(k \div 10)

\* round(n/d * 10^decimals), the digits "%.<decimals>f" prints
Rounded(n, d, decimals) == (2 * n * 10^decimals + d) \div (2 * d)

\* the printed length of a dst record
Width(s) == Digits(s.num \div 10^s.decimals)
            + (IF s.decimals > 0 THEN 1 + s.decimals ELSE 0) + Len(s.suffix)

\* *value < 1000 * roundlimit
BelowLimit(v, rl) == v.e = 0 /\ v.n * rl.d < 1000 * rl.n * v.d

\* *value /= base
DivBase(v, b) == IF v.e > 0 THEN [v EXCEPT !.e = @ - 1] ELSE [v EXCEPT !.d = @ * b]

Init ==
    /\ pc = "idle" /\ caller = "memory" /\ arg = [n |-> 1, d |-> 2]
    /\ value = [n |-> 0, d |-> 1, e |-> 0] /\ base = 1024
    /\ rlim = [n |-> 1, d |-> 2] /\ off = 0
    /\ ret = NoRet /\ dst = NoDst

\* Defect variant: convert_double without the roundlimit range check.
ConvertEntryNoClamp(v, b, rl, who) ==
    /\ pc = "idle"
    /\ pc' = "loop" /\ caller' = who /\ arg' = rl
    /\ value' = v /\ base' = b /\ off' = 0 /\ rlim' = rl
    /\ UNCHANGED <<ret, dst>>

\* Entry of convert_double: roundlimit outside (0, 1] becomes 0.5.
ConvertEntry(v, b, rl, who) ==
    /\ pc = "idle"
    /\ pc' = "loop" /\ caller' = who /\ arg' = rl
    /\ value' = v /\ base' = b /\ off' = 0
    /\ rlim' = IF rl.n <= 0 \/ rl.n > rl.d THEN [n |-> 1, d |-> 2] ELSE rl
    /\ UNCHANGED <<ret, dst>>

\* sprintf_memory calls convert_double(&value, 1024, roundlimit).
sprintf_memory_call(v, rl) == ConvertEntry(v, 1024, rl, "memory")

convert_double_call(v, b, rl) == ConvertEntry(v, b, rl, "convert")

\* One loop iteration that does not break: units[off] is not NULL and the
\* value is not below the limit; off++ and *value /= base.
ConvertScale ==
    /\ pc = "loop"
    /\ off < Len(units)
    /\ ~BelowLimit(value, rlim)
    /\ off' = off + 1
    /\ value' = DivBase(value, base)
    /\ UNCHANGED <<pc, caller, arg, base, rlim, ret, dst>>

\* sprintf_memory's format: "%.1f", "%.2f" below 100, "%.3f" below 10.
MemoryDecimals(v) ==
    IF v.n < 10 * v.d THEN 3 ELSE IF v.n < 100 * v.d THEN 2 ELSE 1

\* The loop ends (break, or units[off] is NULL) and convert_double returns
\* units[off]; sprintf_memory then prints the value with its unit.
ConvertReturn ==
    /\ pc = "loop"
    /\ off = Len(units) \/ BelowLimit(value, rlim)
    /\ pc' = "idle"
    /\ ret' = [value |-> value, off |-> off, base |-> base, arg |-> arg]
    /\ dst' = IF caller = "memory"
              THEN LET dec == MemoryDecimals(value)
                   IN  [num |-> Rounded(value.n, value.d, dec),
                        decimals |-> dec,
                        suffix |-> IF off < Len(units) THEN units[off + 1]
                                   ELSE "(null)"]
              ELSE dst
    /\ UNCHANGED <<caller, arg, value, base, rlim, off>>

\* Defect variant: sprintf_percent with its threshold at 99.99.
PercentThresholdHigh(p) ==
    /\ pc = "idle"
    /\ dst' = IF 100 * p.n > 9999 * p.d
              THEN [num |-> 100, decimals |-> 0, suffix |-> "%"]
              ELSE [num |-> IF p.n >= 0 THEN Rounded(p.n, p.d, 1) ELSE 0,
                    decimals |-> 1, suffix |-> "%"]
    /\ UNCHANGED <<pc, caller, arg, value, base, rlim, off, ret>>

\* sprintf_percent: "100%" above 99.9, otherwise "%.1f%%" of max(p, 0).
sprintf_percent(p) ==
    /\ pc = "idle"
    /\ dst' = IF 10 * p.n > 999 * p.d
              THEN [num |-> 100, decimals |-> 0, suffix |-> "%"]
              ELSE [num |-> IF p.n >= 0 THEN Rounded(p.n, p.d, 1) ELSE 0,
                    decimals |-> 1, suffix |-> "%"]
    /\ UNCHANGED <<pc, caller, arg, value, base, rlim, off, ret>>

Next ==
    \/ \E v \in Values, rl \in RoundLimits : sprintf_memory_call(v, rl)
    \/ \E v \in Values, b \in Bases, rl \in RoundLimits : convert_double_call(v, b, rl)
    \/ ConvertScale
    \/ ConvertReturn
    \/ \E p \in Percents : sprintf_percent(p)

Spec == Init /\ [][Next]_vars

(***************************************************************************)
(* Properties.                                                             *)
(***************************************************************************)
\* The limit the comment at util.c:69 documents: a roundlimit in (0, 1],
\* and 0.5 for anything else.
Limit(rl) == IF rl.n > 0 /\ rl.n <= rl.d THEN rl ELSE [n |-> 1, d |-> 2]

\* convert_double picks the smallest unit that brings the value below
\* 1000 * roundlimit: the unit exists in units[] (is not the NULL
\* terminator), the scaled value is below the limit, and one unit fewer
\* would not have been.
UnitMinimal ==
    ret # NoRet =>
        LET v == ret.value  rl == Limit(ret.arg)
        IN  /\ ret.off < Len(units)
            /\ BelowLimit(v, rl)
            /\ ret.off > 0 => v.n * ret.base * rl.d >= 1000 * rl.n * v.d

\* The number sprintf_memory prints takes at most five characters ("9.999",
\* "99.99", "999.9"), as the comment at util.c:82 counts on.  Not checked
\* by a run: the decimals are chosen before "%.Nf" rounds, so 9.9995,
\* 99.996 and 999.96 print as "10.000", "100.00" and "1000.0".
MemoryWidth ==
    dst # NoDst /\ dst.suffix # "%" => Width(dst) - Len(dst.suffix) <= 5

\* sprintf_percent prints at most five characters: "100%" or "dd.d%".
PercentWidth ==
    dst # NoDst /\ dst.suffix = "%" => Width(dst) <= 5

==============================================================================
