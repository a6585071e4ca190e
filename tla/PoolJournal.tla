----------------------------- MODULE PoolJournal -----------------------------
(***************************************************************************)
(* The pool together with its local transaction journal, across process    *)
(* crashes.  add() hands the txs of local senders to journalTx, the        *)
(* journal tick of loop() rotates the journal to local(), and NewTxPool     *)
(* reloads the journal through AddLocal and rotates it.  A crash (or Stop) *)
(* loses the pool and the writer; the chain state and the file stay.  The *)
(* clock is left at `now`: it only decides the eviction of non-local       *)
(* queues, which TxPool's runs check and the journal never sees.          *)
(***************************************************************************)
EXTENDS TxPool, TxJournal

CONSTANT MaxCrashes   \* bound on process crashes in a behaviour

ASSUME ~NoLocals /\ MaxCrashes \in Nat

VARIABLES
    up,        \* the process runs: NewTxPool has returned and no crash since
    crashes,   \* crashes so far
    localTxs,  \* history: every tx the pool accepted from AddLocal(s) or load
    lost       \* history: the local txs the pool held under a local sender
               \* at the last crash

pjVars == <<vars, jvars, up, crashes, localTxs, lost>>

PoolTxs(s) == UNION {ListOf(s.pending, a) \cup ListOf(s.queue, a) : a \in Accounts}

\* The txs add() passes to journalTx, in batch order, that journalTx then
\* inserts: only the queue branch calls it (the pending branch does so only
\* when list.Add displaced nothing), and only for a sender in locals.
RECURSIVE Journaled(_, _, _)
Journaled(s, txs, local) ==
    IF txs = << >> THEN << >>
    ELSE LET tx == Head(txs)
             r == Add(s, tx, local)
             journaled == /\ r.ok
                          /\ AtNonce(ListOf(s.pending, tx.from), tx.nonce) = {}
                          /\ tx.from \in r.st.locals
         IN  (IF journaled THEN <<tx>> ELSE << >>) \o Journaled(r.st, Tail(txs), local)

\* The journalTx calls of one pool step; a failed insert is only logged.
JournalStep(rs) ==
    /\ Len(jfile) + Len(rs) <= MaxRecords
    /\ \E x \in InsertAll(Journal, rs) :
          /\ SetJournal(x.j)
          /\ jlast' = IF rs = << >> THEN jlast ELSE Outcome("insert", rs, x.err)

\* local(): the txs of every local sender, pending then queued, each list
\* by nonce; rotate writes the senders in map order.
ByNonce(l) == SetToSortSeq(l, LAMBDA x, y : x.nonce < y.nonce)

LocalOrders(s) ==
    LET accts == {a \in s.locals : ListOf(s.pending, a) \cup ListOf(s.queue, a) # {}}
    IN  {FlattenSeq([i \in 1..Len(o) |->
            ByNonce(ListOf(s.pending, o[i])) \o ByNonce(ListOf(s.queue, o[i]))])
         : o \in SetToSeqs(accts)}

\* Mutant of LoadAll: the loop breaks at the first record add rejects
\* instead of counting it as dropped and going on.
RECURSIVE LoadAllStopAtDrop(_, _, _)
LoadAllStopAtDrop(s, rs, t) ==
    IF rs = << >> \/ ~Add(s, Head(rs), TRUE).ok THEN {s}
    ELSE UNION {LoadAllStopAtDrop(x, Tail(rs), t) : x \in AddTxsLocked(s, <<Head(rs)>>, TRUE, t)}

\* load(pool.AddLocal): each readable record through addTx(tx, true); a
\* rejected one is counted as dropped.  The writer is devNull meanwhile, so
\* the file does not change.
RECURSIVE LoadAll(_, _, _)
LoadAll(s, rs, t) ==
    IF rs = << >> THEN {s}
    ELSE UNION {LoadAll(x, Tail(rs), t) : x \in AddTxsLocked(s, <<Head(rs)>>, TRUE, t)}

-----------------------------------------------------------------------------

\* The node has not started yet; the journal file does not exist.
PInit ==
    /\ Init /\ JInit
    /\ up = FALSE /\ crashes = 0 /\ localTxs = {} /\ lost = {}

\* AddLocal(s)/AddRemote(s), with the journalTx calls of their add()s.
PAddTxs(txs, isLocal) ==
    /\ up
    /\ AddTxs(txs, isLocal)
    /\ JournalStep(Journaled(Pool, txs, isLocal))
    /\ localTxs' = IF isLocal THEN localTxs \cup (Range(txs) \cap (PoolTxs(Pool') \ PoolTxs(Pool)))
                   ELSE localTxs
    /\ UNCHANGED <<up, crashes, lost>>

\* A chain head: reset's addTxsLocked(reinject, false) journals reinjected
\* txs of senders that are local.
PChainHead(nonces, balances, reinject) ==
    /\ up
    /\ ChainHead(nonces, balances, reinject)
    /\ JournalStep(Journaled(NewHeadState(Pool, nonces, balances), reinject, FALSE))
    /\ UNCHANGED <<up, crashes, localTxs, lost>>

PEvictTick ==
    /\ up
    /\ EvictTick
    /\ UNCHANGED <<jvars, up, crashes, localTxs, lost>>

\* The journal case of loop(): rotate(local()) under the lock.
JournalTick ==
    /\ up
    /\ \E c \in LocalOrders(Pool) : \E x \in Rotate(Journal, c) :
          SetJournal(x.j) /\ jlast' = Outcome("rotate", c, x.err)
    /\ UNCHANGED <<vars, up, crashes, localTxs, lost>>

\* The process dies between two locked steps: the pool's maps and the
\* writer are gone; the chain, the clock and the journal file remain.
Crash ==
    /\ up /\ crashes < MaxCrashes
    /\ up' = FALSE /\ crashes' = crashes + 1
    /\ lost' = {t \in PoolTxs(Pool) \cap localTxs : t.from \in locals}
    /\ pending' = << >> /\ queue' = << >> /\ all' = {} /\ beats' = << >>
    /\ locals' = {} /\ pendNonce' = curNonce /\ qcap' = NoQCap
    /\ jwriter' = "none" /\ jlast' = <<"close", << >>, "ok">>
    /\ UNCHANGED <<curNonce, curBalance, now, heads, jfile, ifaults, rfaults,
                   cfaults, localTxs>>

\* NewTxPool: reset(nil, head) on empty maps, load the journal through
\* AddLocal (the writer is nil again afterwards), then rotate(local()).
Restart ==
    /\ ~up
    /\ up' = TRUE
    /\ \E s \in LoadAll(Pool, Readable(jfile), now) :
          /\ Install(s)
          /\ \E c \in LocalOrders(s) :
                \E x \in Rotate([Journal EXCEPT !.writer = "none"], c) :
                    SetJournal(x.j) /\ jlast' = Outcome("rotate", c, x.err)
    /\ localTxs' = localTxs \cup PoolTxs(Pool')
    /\ UNCHANGED <<now, heads, crashes, lost>>

PNext ==
    \/ \E txs \in SeqOf(Tx, MaxBatch) \ {<< >>}, isLocal \in BOOLEAN : PAddTxs(txs, isLocal)
    \/ \E nonces \in [Accounts -> 0..MaxNonce], balances \in [Accounts -> Balances] :
          \E reinject \in Reinjections(nonces) : PChainHead(nonces, balances, reinject)
    \/ PEvictTick
    \/ JournalTick
    \/ Crash
    \/ Restart

PSpec == PInit /\ [][PNext]_pjVars

\* loop() selects on the journal ticker, which fires every Rejournal, so
\* while the process runs the rotation is not postponed for ever.
PFairSpec == PSpec /\ WF_pjVars(JournalTick)

-----------------------------------------------------------------------------

PoolJournalTypeOK ==
    /\ TypeOK /\ JournalTypeOK
    /\ up \in BOOLEAN /\ crashes \in 0..MaxCrashes
    /\ localTxs \subseteq Tx /\ lost \subseteq Tx

\* No journal call has failed so far (spec 6: journal I/O errors are only
\* logged, so what they lose is not promised back).
NoJournalFault == ifaults = 0 /\ rfaults = 0 /\ cfaults = 0

\* The journal's purpose (tx_journal.go: "allow non-executed ones to survive
\* node restarts"): every locally submitted tx the pool held for a sender
\* still marked local when the process died is in the pool again once
\* NewTxPool has loaded the journal, as long as no journal call has failed.
\* (A sender's local mark itself does not
\* survive a restart, so a tx reinjected later as remote is not covered.)
LocalTxsSurviveRestart ==
    [][~up /\ up' /\ NoJournalFault => lost \subseteq PoolTxs(Pool')]_pjVars

\* A journal left without a usable writer (a failed rotate, or the nil
\* writer between load and the first rotate) is reopened by a later journal
\* tick, unless the process stops first.
WriterRecovers ==
    (up /\ jwriter # "sink") ~> (~up \/ jwriter = "sink")

=============================================================================
