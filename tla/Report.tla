------------------------------- MODULE Report -------------------------------
(***************************************************************************)
(* The server's reporting sink, src/shared/report.c.  Until set_reporting  *)
(* names a real destination, report() keeps every message, whatever its    *)
(* level, in the static array stored_msgs; set_reporting to stderr or      *)
(* syslog replays the stored messages through report(), which now filters  *)
(* them by the new level.  Messages are abstracted to their issue number   *)
(* and level; the text is irrelevant to what is checked.                   *)
(***************************************************************************)
EXTENDS Integers, Sequences, SequencesExt

CONSTANTS
    RPT_CRIT, RPT_ERR, RPT_INFO, RPT_DEBUG,  \* report.h levels
    STDERR, SYSLOG, STORE,          \* RPT_DEST_* (model values)
    MAX_STORED_MSGS,                \* size of stored_msgs[]
    Levels,                         \* levels the callers report at
    NewLevels,                      \* levels passed to set_reporting
    NewDests,                       \* destinations passed to set_reporting
    MaxReports                      \* bound: report() calls in a behaviour

ASSUME /\ RPT_CRIT < RPT_ERR /\ RPT_ERR < RPT_INFO /\ RPT_INFO < RPT_DEBUG
       /\ MAX_STORED_MSGS \in Nat /\ MaxReports \in Nat
       /\ Levels \subseteq RPT_CRIT..RPT_DEBUG /\ NewLevels \subseteq Int

Dests == {STDERR, SYSLOG, STORE}

VARIABLES
    report_level,   \* report_level
    report_dest,    \* report_dest
    stored,         \* stored_msgs[0..num_stored_msgs-1] with stored_levels
    syslog_open,    \* openlog called and not yet closelog
    out,            \* ghost: issue numbers of the messages written out
    dropped,        \* ghost: issue numbers filtered out by level
    issued          \* ghost: number of report() calls so far

vars == <<report_level, report_dest, stored, syslog_open, out, dropped, issued>>

Init ==
    /\ report_level = RPT_INFO
    /\ report_dest = STORE
    /\ stored = <<>>
    /\ syslog_open = FALSE
    /\ out = <<>>
    /\ dropped = {}
    /\ issued = 0

(***************************************************************************)
(* report(level, ...): issue number id.  Kept when the level passes or     *)
(* while the destination is the store; written to stderr/syslog, or        *)
(* appended by store_report_message with no check against the array size; *)
(* a destination the switch has no case for loses the message.             *)
(***************************************************************************)
ReportMsg(id, level) ==
    IF level <= report_level \/ report_dest = STORE
    THEN CASE report_dest = STORE ->
                 /\ stored' = Append(stored, [id |-> id, level |-> level])
                 /\ UNCHANGED <<out, dropped>>
           [] report_dest \in {STDERR, SYSLOG} ->
                 /\ out' = Append(out, id)
                 /\ UNCHANGED <<stored, dropped>>
           [] OTHER -> UNCHANGED <<stored, out, dropped>>
    ELSE /\ dropped' = dropped \cup {id}
         /\ UNCHANGED <<stored, out>>

Report(level) ==
    /\ issued < MaxReports
    /\ issued' = issued + 1
    /\ ReportMsg(issued + 1, level)
    /\ UNCHANGED <<report_level, report_dest, syslog_open>>

\* the issue numbers of a sequence of stored messages
Ids(msgs) == {msgs[k].id : k \in DOMAIN msgs}

\* Defect variant: the replay skips the last stored message.
FlushMessagesShort(newLevel, newDest) ==
    LET replay == SubSeq(stored, 1, Len(stored) - 1)
        shown  == SelectSeq(replay, LAMBDA m : m.level <= newLevel)
    IN  /\ out' = IF newDest \in {STDERR, SYSLOG}
                   THEN out \o [k \in DOMAIN shown |-> shown[k].id] ELSE out
        /\ dropped' = dropped \cup (Ids(replay) \ Ids(shown))
        /\ stored' = <<>>

\* Defect variant: the replay runs from the newest stored message back.
FlushMessagesReversed(newLevel, newDest) ==
    LET shown == SelectSeq(Reverse(stored), LAMBDA m : m.level <= newLevel)
    IN  /\ out' = IF newDest \in {STDERR, SYSLOG}
                   THEN out \o [k \in DOMAIN shown |-> shown[k].id] ELSE out
        /\ dropped' = dropped \cup (Ids(stored) \ Ids(shown))
        /\ stored' = <<>>

(***************************************************************************)
(* flush_messages, run after the destination left the store: every stored  *)
(* message goes through report() in storage order, where the new level     *)
(* filters it (and its switch drops it for an unknown destination); then  *)
(* num_stored_msgs = 0.                                                    *)
(***************************************************************************)
FlushMessages(newLevel, newDest) ==
    LET shown == SelectSeq(stored, LAMBDA m : m.level <= newLevel)
    IN  /\ out' = IF newDest \in {STDERR, SYSLOG}
                   THEN out \o [k \in DOMAIN shown |-> shown[k].id] ELSE out
        /\ dropped' = dropped \cup (Ids(stored) \ Ids(shown))
        /\ stored' = <<>>

\* set_reporting with a level outside RPT_CRIT..RPT_DEBUG: reports the
\* error (itself a report() call) and changes nothing else.
SetReportingInvalid(newLevel) ==
    /\ newLevel \notin RPT_CRIT..RPT_DEBUG
    /\ Report(RPT_ERR)

\* Defect variant: set_reporting without the level check.
SetReportingNoCheck(newLevel, newDest) ==
    /\ syslog_open' = IF report_dest # SYSLOG /\ newDest = SYSLOG THEN TRUE
                      ELSE IF report_dest = SYSLOG /\ newDest # SYSLOG THEN FALSE
                      ELSE syslog_open
    /\ report_level' = newLevel
    /\ report_dest' = newDest
    /\ IF newDest # STORE THEN FlushMessages(newLevel, newDest)
                          ELSE UNCHANGED <<stored, out, dropped>>
    /\ UNCHANGED issued

\* set_reporting: open or close syslog on entering or leaving it, take the
\* new level and destination, and replay the store unless it is the store.
SetReporting(newLevel, newDest) ==
    /\ newLevel \in RPT_CRIT..RPT_DEBUG
    /\ syslog_open' = IF report_dest # SYSLOG /\ newDest = SYSLOG THEN TRUE
                      ELSE IF report_dest = SYSLOG /\ newDest # SYSLOG THEN FALSE
                      ELSE syslog_open
    /\ report_level' = newLevel
    /\ report_dest' = newDest
    /\ IF newDest # STORE THEN FlushMessages(newLevel, newDest)
                          ELSE UNCHANGED <<stored, out, dropped>>
    /\ UNCHANGED issued

Next ==
    \/ \E level \in Levels : Report(level)
    \/ \E newLevel \in NewLevels :
          \/ SetReportingInvalid(newLevel)
          \/ \E newDest \in NewDests : SetReporting(newLevel, newDest)

Spec == Init /\ [][Next]_vars

(***************************************************************************)
(* Properties.                                                             *)
(***************************************************************************)
TypeOK ==
    /\ report_level \in RPT_CRIT..RPT_DEBUG
    /\ report_dest \in Dests \cup NewDests
    /\ stored \in Seq([id : 1..MaxReports, level : Levels \cup {RPT_ERR}])
    /\ syslog_open \in BOOLEAN
    /\ issued \in 0..MaxReports

StoredIds == Ids(stored)

\* No message is lost or shown twice: every report() call so far is, at
\* every moment, exactly one of: still in the store, written out once, or
\* filtered by level (when reported, or when flush_messages replayed it).
ReportConservation ==
    /\ IsInjective(out)
    /\ StoredIds \cap Range(out) = {} /\ StoredIds \cap dropped = {}
    /\ Range(out) \cap dropped = {}
    /\ StoredIds \cup Range(out) \cup dropped = 1..issued

\* Messages reach stderr/syslog in the order report() was called, including
\* the ones held back in the store and replayed by set_reporting.
OutputInIssueOrder ==
    \A i, j \in DOMAIN out : i < j => out[i] < out[j]

\* store_report_message never writes past the end of stored_msgs[].
StoreWithinBounds ==
    Len(stored) <= MAX_STORED_MSGS

==============================================================================
