----------------------------- MODULE JournalLog -----------------------------
(***************************************************************************)
(* What the local transaction journal promises its callers: a log of the   *)
(* records whose insert returned no error, replaced as a whole by a        *)
(* successful rotate, that survives a process crash and is read back by   *)
(* load.  An insert or a rotate may fail; a failed rotate leaves either    *)
(* the old or the new contents and no open writer.                         *)
(***************************************************************************)
EXTENDS Naturals, Sequences

CONSTANTS Records, MaxRecords

VARIABLES
    log,    \* the records a load would read back, in order
    open,   \* whether an insert can currently succeed
    last    \* the last call, its argument and its outcome: <<op, arg, "ok" or "err">>

logVars == <<log, open, last>>

LInit == log = << >> /\ ~open /\ last = <<"close", << >>, "ok">>

\* insert(tx): an acknowledged insert appends; any insert may fail.
LInsert(r) ==
    \/ /\ open /\ last' = <<"insert", r, "ok">> /\ log' = Append(log, r) /\ UNCHANGED open
    \/ /\ last' = <<"insert", r, "err">> /\ UNCHANGED <<log, open>>

\* rotate(contents): success replaces the log and opens it; a failure
\* closes it and leaves either the old or the new contents.
LRotate(c) ==
    \/ /\ log' = c /\ open' /\ last' = <<"rotate", c, "ok">>
    \/ /\ log' \in {log, c} /\ ~open' /\ last' = <<"rotate", c, "err">>

\* A crash, close() or the end of load(): no open writer, the log stays.
LClose == ~open' /\ last' = <<"close", << >>, "ok">> /\ UNCHANGED log

LNext ==
    \/ \E r \in Records : LInsert(r)
    \/ \E c \in UNION {[1..n -> Records] : n \in 0..MaxRecords} : LRotate(c)
    \/ LClose

LSpec == LInit /\ [][LNext]_logVars

=============================================================================
