------------------------------ MODULE TxJournal ------------------------------
(***************************************************************************)
(* The local transaction journal of tx_journal.go: a file of MessagePack   *)
(* records and the writer the pool appends to.  The file survives a crash; *)
(* the writer does not.  I/O faults are bounded choices: an insert that    *)
(* fails before writing or after writing part of a record (Torn), a       *)
(* rotate that fails before or after its rename, and a Close of the old   *)
(* writer that fails.                                                     *)
(***************************************************************************)
EXTENDS Integers, Sequences, SequencesExt

CONSTANTS
    Records,          \* the transactions that can be journaled
    Torn,             \* a partially written record
    MaxRecords,       \* bound on the length of the file
    MaxInsertFaults,  \* bound on failed inserts
    MaxRotateFaults,  \* bound on failed rotations
    MaxCloseFaults    \* bound on failed Close calls of the writer

ASSUME Torn \notin Records /\ MaxRecords \in Nat
ASSUME {MaxInsertFaults, MaxRotateFaults, MaxCloseFaults} \subseteq Nat

VARIABLES
    jfile,    \* the records at journal.path
    jwriter,  \* journal.writer: "none" (nil), "devnull", "sink" (the open
              \* file) or "closed" (a file whose Close has been called)
    jlast,    \* the last journal call, its argument and outcome (for the refinement)
    ifaults,  \* insert faults so far
    rfaults,  \* rotate faults so far
    cfaults   \* Close faults so far

jvars == <<jfile, jwriter, jlast, ifaults, rfaults, cfaults>>

Writers == {"none", "devnull", "sink", "closed"}

\* load's decode loop stops at the first record it cannot parse and keeps
\* what it read before it.
Readable(f) ==
    IF \E i \in 1..Len(f) : f[i] = Torn
    THEN SubSeq(f, 1, Min({i \in 1..Len(f) : f[i] = Torn}) - 1)
    ELSE f

Journal == [file |-> jfile, writer |-> jwriter, ifaults |-> ifaults, rfaults |-> rfaults,
            cfaults |-> cfaults]

\* insert(tx): the possible [j, err] outcomes.  A nil writer returns
\* errNoActiveJournal and a closed file refuses the write; devNull swallows
\* the record; msgp.Encode on the file may fail before writing or after
\* writing part of the record.
Insert(j, r) ==
    CASE j.writer \in {"none", "closed"} -> {[j |-> j, err |-> TRUE]}
      [] j.writer = "devnull" -> {[j |-> j, err |-> FALSE]}
      [] OTHER ->
           {[j |-> [j EXCEPT !.file = Append(@, r)], err |-> FALSE]}
           \cup (IF j.ifaults < MaxInsertFaults
                 THEN {[j |-> [j EXCEPT !.ifaults = @ + 1], err |-> TRUE],
                       [j |-> [j EXCEPT !.ifaults = @ + 1, !.file = Append(@, Torn)],
                        err |-> TRUE]}
                 ELSE {})

\* Mutant of Rotate: the rename of path.new is lost, so a rotate that
\* reports success reopens the old file.
RotateKeepFile(j, c) ==
    {[j |-> [j EXCEPT !.writer = "sink"], err |-> FALSE]}

\* rotate(all): close the writer and nil it, write path.new, rename it over
\* path, reopen path for appending.  A failure of OpenFile or Encode of
\* path.new, or of Rename, returns with the old file and no writer; a
\* failure of the final OpenFile returns with the new file and no writer.
\* A failed Close returns at once and leaves the closed file as the writer;
\* Close on an already closed *os.File fails again.
Rotate(j, c) ==
    IF j.writer = "closed" THEN {[j |-> j, err |-> TRUE]}
    ELSE {[j |-> [j EXCEPT !.file = c, !.writer = "sink"], err |-> FALSE]}
         \cup (IF j.rfaults < MaxRotateFaults
               THEN {[j |-> [j EXCEPT !.writer = "none", !.rfaults = @ + 1], err |-> TRUE],
                     [j |-> [j EXCEPT !.file = c, !.writer = "none", !.rfaults = @ + 1],
                      err |-> TRUE]}
               ELSE {})
         \cup (IF j.writer = "sink" /\ j.cfaults < MaxCloseFaults
               THEN {[j |-> [j EXCEPT !.writer = "closed", !.cfaults = @ + 1], err |-> TRUE]}
               ELSE {})

\* Apply a sequence of inserts (journalTx for each journaled tx of a step);
\* an error is only logged, so later inserts still run.
RECURSIVE InsertAll(_, _)
InsertAll(j, rs) ==
    IF rs = << >> THEN {[j |-> j, err |-> FALSE]}
    ELSE UNION {{[j |-> y.j, err |-> x.err \/ y.err] : y \in InsertAll(x.j, Tail(rs))}
                : x \in Insert(j, Head(rs))}

SetJournal(j) ==
    /\ jfile' = j.file /\ jwriter' = j.writer
    /\ ifaults' = j.ifaults /\ rfaults' = j.rfaults /\ cfaults' = j.cfaults

Outcome(op, arg, err) == <<op, arg, IF err THEN "err" ELSE "ok">>

-----------------------------------------------------------------------------
(* The journal on its own, called by an arbitrary client.                  *)

\* newTxJournal: no writer until the first rotate; the file may be empty.
JInit ==
    /\ jfile = << >> /\ jwriter = "none" /\ jlast = <<"close", << >>, "ok">>
    /\ ifaults = 0 /\ rfaults = 0 /\ cfaults = 0

JInsert(r) ==
    /\ Len(jfile) < MaxRecords
    /\ \E x \in Insert(Journal, r) : SetJournal(x.j) /\ jlast' = Outcome("insert", r, x.err)

JRotate(c) ==
    \E x \in Rotate(Journal, c) : SetJournal(x.j) /\ jlast' = Outcome("rotate", c, x.err)

\* close(), a crash, or load() (which points the writer at devNull while
\* it runs and nils it when done): the file stays, the writer is gone.
JClose ==
    /\ jwriter' = "none" /\ jlast' = <<"close", << >>, "ok">>
    /\ UNCHANGED <<jfile, ifaults, rfaults, cfaults>>

JNext ==
    \/ \E r \in Records : JInsert(r)
    \/ \E c \in SeqOf(Records, MaxRecords) : JRotate(c)
    \/ JClose

JSpec == JInit /\ [][JNext]_jvars

JournalTypeOK ==
    /\ jfile \in Seq(Records \cup {Torn}) /\ Len(jfile) <= MaxRecords + 1
    /\ jwriter \in Writers /\ jlast[1] \in {"insert", "rotate", "close"}
    /\ jlast[3] \in {"ok", "err"}
    /\ ifaults \in 0..MaxInsertFaults /\ rfaults \in 0..MaxRotateFaults
    /\ cfaults \in 0..MaxCloseFaults

\* The abstract journal, seen through what a load would read back.
JL == INSTANCE JournalLog WITH log <- Readable(jfile), open <- (jwriter = "sink"),
                               last <- jlast

\* Every record whose insert returned no error since the last successful
\* rotate is read back by load, in order, and a rotate that returned no
\* error leaves exactly its contents (insert and rotate of tx_journal.go).
JournalRefinesLog == JL!LSpec

=============================================================================
