------------------------------- MODULE TxPool -------------------------------
(***************************************************************************)
(* The transaction pool of core/txprocessor/tx_pool.go.                     *)
(*                                                                          *)
(* Every public entry point of TxPool that changes state takes the write    *)
(* lock (pool.mu) for its whole run, and the event loop (loop()) handles    *)
(* one event at a time under the same lock, so each of them is one atomic   *)
(* action here.  An action computes the pool's next state with operators    *)
(* on a record `s` holding the pool's fields; operators whose outcome the   *)
(* code leaves to Go's map iteration order (the tie order of the spam       *)
(* priority queue, of sort.Sort on equal heartbeats) return the SET of      *)
(* possible next states.                                                    *)
(*                                                                          *)
(* A transaction is a record [from, nonce, amount]; two transactions of the *)
(* same sender and nonce with different amounts have different hashes, so   *)
(* the set `all` stands for the map hash -> transaction.  Sender recovery   *)
(* (signer.go) always succeeds on these records: a transaction with a bad   *)
(* signature, a nil or negative amount or a size over 32 KiB is rejected   *)
(* by validateTx before any state changes, exactly like one never offered.  *)
(***************************************************************************)
EXTENDS Integers, FiniteSets, Sequences, SequencesExt

CONSTANTS
    Accounts,       \* sender addresses
    MaxNonce,       \* highest transaction nonce offered
    Amounts,        \* transaction values (cost == amount in this system)
    Balances,       \* account balances a chain head may carry
    AccountSlots,   \* TxPoolConfig.AccountSlots
    GlobalSlots,    \* TxPoolConfig.GlobalSlots
    AccountQueue,   \* TxPoolConfig.AccountQueue
    GlobalQueue,    \* TxPoolConfig.GlobalQueue
    Lifetime,       \* TxPoolConfig.Lifetime, in ticks of the clock
    NoLocals,       \* TxPoolConfig.NoLocals
    MaxTime,        \* bound of the clock `now`
    MaxBatch,       \* longest batch offered to AddLocals/AddRemotes
    MaxReinject,    \* most transactions a reorg hands back to the pool
    MaxHeads        \* most chain-head events in a behaviour

ASSUME /\ MaxNonce \in Nat /\ MaxTime \in Nat /\ Lifetime \in Nat
       /\ Amounts \subseteq Nat /\ Balances \subseteq Nat
       /\ {AccountSlots, GlobalSlots, AccountQueue, GlobalQueue} \subseteq Nat
       /\ NoLocals \in BOOLEAN
       /\ MaxBatch \in Nat \ {0} /\ MaxReinject \in Nat /\ MaxHeads \in Nat

VARIABLES
    pending,     \* pool.pending: sender -> set of executable txs (strict txList)
    queue,       \* pool.queue: sender -> set of future txs (non-strict txList)
    all,         \* pool.all: every transaction the pool indexes by hash
    beats,       \* pool.beats: sender -> time of its last promotion
    locals,      \* pool.locals.accounts
    curNonce,    \* pool.currentState.GetNonce
    curBalance,  \* pool.currentState.GetBalance
    pendNonce,   \* pool.pendingState.GetNonce (ManagedState overlay)
    now,         \* time.Now(), a logical clock
    heads,       \* chain-head events handled so far (bounded by MaxHeads)
    qcap         \* history: the accounts the global queue cap visited in
                 \* the last step, with their heartbeats (for QueueCapOrder)

poolVars == <<pending, queue, all, beats, locals, curNonce, curBalance,
              pendNonce, qcap>>
vars == <<poolVars, now, heads>>

Tx == [from : Accounts, nonce : 0..MaxNonce, amount : Amounts]

\* time.Time{}: the heartbeat of an account absent from pool.beats, earlier
\* than every time the clock shows.
ZeroTime == -1

-----------------------------------------------------------------------------
(* Maps from address to list, with Go's nil for a missing key.             *)

Put(f, k, v) == [x \in DOMAIN f \cup {k} |-> IF x = k THEN v ELSE f[x]]
Del(f, k) == Restrict(f, DOMAIN f \ {k})
ListOf(f, a) == IF a \in DOMAIN f THEN f[a] ELSE {}
Nonces(l) == {t.nonce : t \in l}
AtNonce(l, n) == {t \in l : t.nonce = n}
MinNonce(l) == CHOOSE n \in Nonces(l) : \A m \in Nonces(l) : n <= m
MaxNonceOf(l) == CHOOSE n \in Nonces(l) : \A m \in Nonces(l) : n >= m
Size(f) == SumFunction([a \in DOMAIN f |-> Cardinality(f[a])])
Beat(s, a) == IF a \in DOMAIN s.beats THEN s.beats[a] ELSE ZeroTime

-----------------------------------------------------------------------------
(* txList (tx_list.go, described in the spec 4.2): a set of transactions   *)
(* with at most one per nonce.  Each operator returns the transactions the *)
(* list operation removes; the list keeps the rest.                        *)

\* Add(tx, 0): any transaction at the same nonce is replaced.
ListAdd(l, tx) == {t \in l : t.nonce # tx.nonce} \cup {tx}

\* Forward(threshold): every transaction below the threshold.
ListForward(l, threshold) == {t \in l : t.nonce < threshold}

\* Filter(balance, 0): the unpayable transactions, and for a strict list the
\* invalids, every transaction above the lowest unpayable nonce.
ListFilterDrops(l, balance) == {t \in l : t.amount > balance}
ListFilterInvalids(l, balance, strict) ==
    LET drops == ListFilterDrops(l, balance)
    IN  IF strict /\ drops # {}
        THEN {t \in l \ drops : t.nonce > MinNonce(drops)}
        ELSE {}

\* Ready(start): the gapless run that begins with the lowest nonce, provided
\* that nonce is not above start.
ListReady(l, start) ==
    IF l = {} \/ MinNonce(l) > start THEN {}
    ELSE LET run == {n \in MinNonce(l)..MaxNonce :
                        \A m \in MinNonce(l)..n : m \in Nonces(l)}
         IN  {t \in l : t.nonce \in run}

\* Cap(n): every transaction beyond the n lowest nonces.
ListCap(l, n) == {t \in l : Cardinality({u \in l : u.nonce < t.nonce}) >= n}

\* Remove(tx) on a strict list also takes out every higher nonce (invalids).
ListRemoveInvalids(l, tx, strict) ==
    IF strict THEN {t \in l : t.nonce > tx.nonce} ELSE {}

-----------------------------------------------------------------------------
(* Pool operations on a record s of the pool's fields.                     *)

\* enqueueTx: insert into the future queue; only a tx that displaced none is
\* entered into `all` (a displaced one keeps its entry).
EnqueueReplaces(s, tx) == AtNonce(ListOf(s.queue, tx.from), tx.nonce) # {}
EnqueueTx(s, tx) ==
    [s EXCEPT !.queue = Put(s.queue, tx.from, ListAdd(ListOf(s.queue, tx.from), tx)),
              !.all   = IF EnqueueReplaces(s, tx) THEN s.all ELSE s.all \cup {tx}]

RECURSIVE EnqueueAll(_, _)
EnqueueAll(s, txs) ==
    IF txs = {} THEN s
    ELSE LET tx == CHOOSE t \in txs : TRUE
         IN  EnqueueAll(EnqueueTx(s, tx), txs \ {tx})

\* validateTx: the nonce and balance checks against currentState.
ValidateTx(s, tx) ==
    /\ s.curNonce[tx.from] <= tx.nonce
    /\ s.curBalance[tx.from] >= tx.amount

\* add: returns the next state, whether it succeeded and whether it reported
\* a replacement.  A tx overlapping a pending nonce goes straight into the
\* pending list; `all`, the journal and the event feed only see it if it
\* displaced nothing.
Add(s, tx, local) ==
    LET from == tx.from
        plist == ListOf(s.pending, from)
        overlaps == AtNonce(plist, tx.nonce) # {}
        enq == EnqueueTx(s, tx)
    IN  CASE tx \in s.all \/ ~ValidateTx(s, tx)
               \/ Cardinality(s.all) >= GlobalSlots + GlobalQueue ->
                 [st |-> s, ok |-> FALSE, replace |-> FALSE]
          [] overlaps ->
                 [st |-> [s EXCEPT !.pending = Put(s.pending, from, ListAdd(plist, tx)),
                                   !.all = IF overlaps THEN s.all ELSE s.all \cup {tx},
                                   !.feed = IF overlaps THEN s.feed ELSE Append(s.feed, tx)],
                  ok |-> TRUE, replace |-> TRUE]
          [] OTHER ->
                 [st |-> [enq EXCEPT !.locals = IF local THEN s.locals \cup {from}
                                                         ELSE s.locals],
                  ok |-> TRUE, replace |-> EnqueueReplaces(s, tx)]

\* Mutant of PromoteTx: the virtual nonce is advanced one too far.
PromoteTxSkip(s, addr, tx, t) ==
    [s EXCEPT !.pending = Put(s.pending, addr, ListAdd(ListOf(s.pending, addr), tx)),
              !.all = s.all \cup {tx},
              !.beats = Put(s.beats, addr, t),
              !.pendNonce[addr] = tx.nonce + 2,
              !.feed = Append(s.feed, tx)]

\* promoteTx: move one tx into the pending list, stamp the heartbeat,
\* advance the virtual nonce past it and start the goroutine that sends its
\* TxPreEvent (`feed` lists the sends of the current step in order).
PromoteTx(s, addr, tx, t) ==
    [s EXCEPT !.pending = Put(s.pending, addr, ListAdd(ListOf(s.pending, addr), tx)),
              !.all = s.all \cup {tx},
              !.beats = Put(s.beats, addr, t),
              !.pendNonce[addr] = tx.nonce + 1,
              !.feed = Append(s.feed, tx)]

RECURSIVE PromoteAll(_, _, _, _)
PromoteAll(s, addr, txs, t) ==
    IF txs = {} THEN s
    ELSE LET tx == CHOOSE x \in txs : x.nonce = MinNonce(txs)
         IN  PromoteAll(PromoteTx(s, addr, tx, t), addr, txs \ {tx}, t)

\* Mutant of PromoteAccount: the promoted txs are left in the queue as well.
PromoteAccountKeepReady(s, addr, t) ==
    IF addr \notin DOMAIN s.queue THEN s
    ELSE
    LET l0 == s.queue[addr]
        old == ListForward(l0, s.curNonce[addr])
        l2 == (l0 \ old) \ ListFilterDrops(l0 \ old, s.curBalance[addr])
        ready == ListReady(l2, s.pendNonce[addr])
        s3 == PromoteAll([s EXCEPT !.all = @ \ (l0 \ l2)], addr, ready, t)
        l4 == l2 \ (IF addr \in s.locals THEN {} ELSE ListCap(l2, AccountQueue))
    IN  [s3 EXCEPT !.queue = IF l4 = {} THEN Del(s.queue, addr) ELSE Put(s.queue, addr, l4),
                   !.all = @ \ (l2 \ l4)]

\* Mutant of PromoteAccount: Ready starts from the chain's nonce
\* (currentState) instead of the virtual nonce (pendingState).
PromoteAccountCurNonce(s, addr, t) ==
    IF addr \notin DOMAIN s.queue THEN s
    ELSE
    LET l0 == s.queue[addr]
        old == ListForward(l0, s.curNonce[addr])
        unpayable == ListFilterDrops(l0 \ old, s.curBalance[addr])
        l2 == (l0 \ old) \ unpayable
        ready == ListReady(l2, s.curNonce[addr])
        l3 == l2 \ ready
        s3 == PromoteAll([s EXCEPT !.all = @ \ (old \cup unpayable)], addr, ready, t)
        capped == IF addr \in s.locals THEN {} ELSE ListCap(l3, AccountQueue)
        l4 == l3 \ capped
    IN  [s3 EXCEPT !.queue = IF l4 = {} THEN Del(s.queue, addr)
                                       ELSE Put(s.queue, addr, l4),
                   !.all = @ \ capped]

\* The per-account step of promoteExecutables: drop stale and unpayable
\* queued txs, promote the executable run, cap a non-local queue, and delete
\* an emptied queue entry.
PromoteAccount(s, addr, t) ==
    IF addr \notin DOMAIN s.queue THEN s
    ELSE
    LET l0 == s.queue[addr]
        old == ListForward(l0, s.curNonce[addr])
        l1 == l0 \ old
        unpayable == ListFilterDrops(l1, s.curBalance[addr])
        l2 == l1 \ unpayable
        ready == ListReady(l2, s.pendNonce[addr])
        l3 == l2 \ ready
        s3 == PromoteAll([s EXCEPT !.all = @ \ (old \cup unpayable)], addr, ready, t)
        capped == IF addr \in s.locals THEN {} ELSE ListCap(l3, AccountQueue)
        l4 == l3 \ capped
    IN  [s3 EXCEPT !.queue = IF l4 = {} THEN Del(s.queue, addr)
                                       ELSE Put(s.queue, addr, l4),
                   !.all = @ \ capped]

RECURSIVE PromoteAccounts(_, _, _)
PromoteAccounts(s, addrs, t) ==
    IF addrs = {} THEN s
    ELSE LET a == CHOOSE x \in addrs : TRUE
         IN  PromoteAccounts(PromoteAccount(s, a, t), addrs \ {a}, t)

-----------------------------------------------------------------------------
(* The global pending cap of promoteExecutables.                           *)

\* Drop the highest-nonce pending tx of addr (list.Cap(list.Len()-1)) and
\* pull the virtual nonce down to it.
DropTop(s, addr) ==
    LET l == s.pending[addr]
        top == CHOOSE x \in l : x.nonce = MaxNonceOf(l)
    IN  IF l = {} THEN s
        ELSE [s EXCEPT !.pending[addr] = l \ {top},
                       !.all = @ \ {top},
                       !.pendNonce[addr] = IF @ > top.nonce THEN top.nonce ELSE @]

\* One pass of the inner `for` over offenders[1..n]; `pending` drops by n.
RECURSIVE DropRound(_, _, _)
DropRound(s, offenders, n) ==
    IF n = 0 THEN s ELSE DropRound(DropTop(s, offenders[n]), offenders, n - 1)

PLen(s, a) == Cardinality(s.pending[a])

\* Reduce offenders[1..k-1] to the threshold of offenders[k].
RECURSIVE Equalize(_, _, _, _, _)
Equalize(s, p, offenders, k, threshold) ==
    IF p > GlobalSlots /\ PLen(s, offenders[k - 1]) > threshold
    THEN Equalize(DropRound(s, offenders, k - 1), p - (k - 1), offenders, k, threshold)
    ELSE [st |-> s, p |-> p]

\* Pop offenders while over budget; k of them have been popped.
RECURSIVE PopOffenders(_, _, _, _)
PopOffenders(s, p, spam, k) ==
    IF p > GlobalSlots /\ k < Len(spam)
    THEN IF k + 1 > 1
         THEN LET r == Equalize(s, p, spam, k + 1, PLen(s, spam[k + 1]))
              IN  PopOffenders(r.st, r.p, spam, k + 1)
         ELSE PopOffenders(s, p, spam, k + 1)
    ELSE [st |-> s, p |-> p, k |-> k]

\* Still over budget: reduce every offender until the last is at AccountSlots.
RECURSIVE ReduceToMin(_, _, _, _)
ReduceToMin(s, p, offenders, k) ==
    IF p > GlobalSlots /\ PLen(s, offenders[k]) > AccountSlots
    THEN ReduceToMin(DropRound(s, offenders, k), p - k, offenders, k)
    ELSE s

\* Mutant of SpamOrders: local accounts are not exempted.
SpamOrdersWithLocals(s) ==
    LET spammers == {a \in DOMAIN s.pending : PLen(s, a) > AccountSlots}
    IN  {o \in SetToSeqs(spammers) :
            \A i, j \in 1..Len(o) : i < j => PLen(s, o[i]) >= PLen(s, o[j])}

\* The spam order: non-local accounts over AccountSlots, longest list first;
\* the priority queue pops equal lengths in any order.
SpamOrders(s) ==
    LET spammers == {a \in DOMAIN s.pending :
                        a \notin s.locals /\ PLen(s, a) > AccountSlots}
    IN  {o \in SetToSeqs(spammers) :
            \A i, j \in 1..Len(o) : i < j => PLen(s, o[i]) >= PLen(s, o[j])}

\* Mutant of PendingCap: the second phase (reduce to AccountSlots) is missing.
PendingCapNoReduce(s) ==
    IF Size(s.pending) <= GlobalSlots THEN {s}
    ELSE {PopOffenders(s, Size(s.pending), spam, 0).st : spam \in SpamOrders(s)}

PendingCap(s) ==
    IF Size(s.pending) <= GlobalSlots THEN {s}
    ELSE { LET r == PopOffenders(s, Size(s.pending), spam, 0)
           IN  IF r.p > GlobalSlots /\ r.k > 0
               THEN ReduceToMin(r.st, r.p, spam, r.k)
               ELSE r.st
         : spam \in SpamOrders(s) }

-----------------------------------------------------------------------------
(* removeTx and the global queue cap.                                      *)

\* removeTx(hash): a tx the pool does not index is left alone.  A pending tx
\* takes its higher nonces out of the list; they are re-queued only if the
\* list is not left empty.
RemoveTx(s, tx) ==
    LET addr == tx.from
        plist == ListOf(s.pending, addr)
        invalids == ListRemoveInvalids(plist, tx, TRUE)
        rest == plist \ ({tx} \cup invalids)
        s1 == [s EXCEPT !.all = @ \ {tx}]
    IN  CASE tx \notin s.all -> s
          [] tx \in plist /\ rest = {} ->
                [s1 EXCEPT !.pending = Del(s.pending, addr),
                           !.beats = Del(s.beats, addr),
                           !.pendNonce[addr] = IF @ > tx.nonce THEN tx.nonce ELSE @]
          [] tx \in plist ->
                [EnqueueAll([s1 EXCEPT !.pending[addr] = rest], invalids)
                    EXCEPT !.pendNonce[addr] = IF @ > tx.nonce THEN tx.nonce ELSE @]
          [] addr \in DOMAIN s.queue ->
                LET q == s.queue[addr] \ {tx}
                IN  [s1 EXCEPT !.queue = IF q = {} THEN Del(s.queue, addr)
                                                   ELSE Put(s.queue, addr, q)]
          [] OTHER -> s1

RECURSIVE RemoveTxs(_, _)
RemoveTxs(s, txs) ==
    IF txs = {} THEN s
    ELSE LET tx == CHOOSE t \in txs : TRUE
         IN  RemoveTxs(RemoveTx(s, tx), txs \ {tx})

\* The highest n nonces of a list (the loop from len(txs)-1 downwards).
Highest(l, n) == {t \in l : Cardinality({u \in l : u.nonce > t.nonce}) < n}

\* Visit `order` from its END, as the code does with addresses[len-1].
RECURSIVE DropQueued(_, _, _)
DropQueued(s, order, drop) ==
    IF drop > 0 /\ order # <<>>
    THEN LET addr == order[Len(order)]
             list == ListOf(s.queue, addr)
             size == Cardinality(list)
             s1 == [s EXCEPT !.qcap.visited = @ \cup {[acct |-> addr, beat |-> Beat(s, addr)]}]
         IN  IF size <= drop
             THEN DropQueued(RemoveTxs(s1, list), SubSeq(order, 1, Len(order) - 1), drop - size)
             ELSE DropQueued(RemoveTxs(s1, Highest(list, drop)), SubSeq(order, 1, Len(order) - 1), 0)
    ELSE s

\* Non-local queued accounts sorted by heartbeat, oldest first; sort.Sort is
\* not stable and its input comes from map iteration, so ties in any order.
HeartbeatOrders(s) ==
    LET addrs == {a \in DOMAIN s.queue : a \notin s.locals}
    IN  {o \in SetToSeqs(addrs) :
            \A i, j \in 1..Len(o) : i < j => Beat(s, o[i]) <= Beat(s, o[j])}

QueueCap(s) ==
    LET queued == Size(s.queue)
        s1 == [s EXCEPT !.qcap = [visited |-> {},
                                  skipped |-> {[acct |-> a, beat |-> Beat(s, a)] :
                                                 a \in {b \in DOMAIN s.queue : b \notin s.locals}}]]
    IN  IF queued <= GlobalQueue THEN {s}
        ELSE {DropQueued(s1, o, queued - GlobalQueue) : o \in HeartbeatOrders(s)}

\* promoteExecutables(accounts)
PromoteExecutables(s, addrs, t) ==
    UNION {QueueCap(x) : x \in PendingCap(PromoteAccounts(s, addrs, t))}

-----------------------------------------------------------------------------
(* Batches, demotion and chain-head reset.                                 *)

\* The loop of addTxsLocked over the batch: `dirty` gathers the senders of
\* the transactions added without replacement.
RECURSIVE AddAll(_, _, _, _)
AddAll(s, txs, local, dirty) ==
    IF txs = <<>> THEN [st |-> s, dirty |-> dirty]
    ELSE LET r == Add(s, Head(txs), local)
         IN  AddAll(r.st, Tail(txs), local,
                    IF r.ok /\ ~r.replace THEN dirty \cup {Head(txs).from} ELSE dirty)

\* addTxsLocked (and addTx, which is the same for a batch of one).
AddTxsLocked(s, txs, local, t) ==
    LET r == AddAll(s, txs, local, {})
    IN  IF r.dirty = {} THEN {r.st} ELSE PromoteExecutables(r.st, r.dirty, t)

\* Mutant of DemoteAccount: the txs below the new chain nonce are kept.
DemoteAccountNoForward(s, addr) ==
    LET nonce == s.curNonce[addr]
        l1 == s.pending[addr]
        drops == ListFilterDrops(l1, s.curBalance[addr])
        invalids == ListFilterInvalids(l1, s.curBalance[addr], TRUE)
        l2 == l1 \ (drops \cup invalids)
        gapped == l2 # {} /\ AtNonce(l2, nonce) = {}
        s1 == EnqueueAll([s EXCEPT !.all = @ \ drops, !.pending[addr] = l2], invalids)
        s2 == IF gapped THEN EnqueueAll([s1 EXCEPT !.pending[addr] = {}], l2) ELSE s1
    IN  IF gapped \/ l2 = {}
        THEN [s2 EXCEPT !.pending = Del(@, addr), !.beats = Del(@, addr)]
        ELSE s2

\* Mutant of DemoteAccount: the mined txs leave the list but not `all`.
DemoteAccountKeepOld(s, addr) ==
    LET nonce == s.curNonce[addr]
        l0 == s.pending[addr]
        l1 == l0 \ ListForward(l0, nonce)
        drops == ListFilterDrops(l1, s.curBalance[addr])
        invalids == ListFilterInvalids(l1, s.curBalance[addr], TRUE)
        l2 == l1 \ (drops \cup invalids)
        gapped == l2 # {} /\ AtNonce(l2, nonce) = {}
        s1 == EnqueueAll([s EXCEPT !.all = @ \ drops, !.pending[addr] = l2], invalids)
        s2 == IF gapped THEN EnqueueAll([s1 EXCEPT !.pending[addr] = {}], l2) ELSE s1
    IN  IF gapped \/ l2 = {}
        THEN [s2 EXCEPT !.pending = Del(@, addr), !.beats = Del(@, addr)]
        ELSE s2

\* The per-account step of demoteUnexecutables.
DemoteAccount(s, addr) ==
    LET nonce == s.curNonce[addr]
        l0 == s.pending[addr]
        old == ListForward(l0, nonce)
        l1 == l0 \ old
        drops == ListFilterDrops(l1, s.curBalance[addr])
        invalids == ListFilterInvalids(l1, s.curBalance[addr], TRUE)
        l2 == l1 \ (drops \cup invalids)
        gapped == l2 # {} /\ AtNonce(l2, nonce) = {}
        l3 == IF gapped THEN {} ELSE l2
        s1 == EnqueueAll([s EXCEPT !.all = @ \ (old \cup drops),
                                   !.pending[addr] = l2], invalids)
        s2 == IF gapped THEN EnqueueAll([s1 EXCEPT !.pending[addr] = {}], l2) ELSE s1
    IN  IF l3 = {}
        THEN [s2 EXCEPT !.pending = Del(@, addr), !.beats = Del(@, addr)]
        ELSE s2

RECURSIVE DemoteAccounts(_, _)
DemoteAccounts(s, addrs) ==
    IF addrs = {} THEN s
    ELSE LET a == CHOOSE x \in addrs : TRUE
         IN  DemoteAccounts(DemoteAccount(s, a), addrs \ {a})

DemoteUnexecutables(s) == DemoteAccounts(s, DOMAIN s.pending)

\* reset, from the point where the new state has been loaded: install it,
\* reinject the reorged-out txs as remote ones, demote, move every pending
\* account's virtual nonce past its highest pending tx, and promote.
\* reset installs currentState and a fresh pendingState over it.
NewHeadState(s, nonces, balances) ==
    [s EXCEPT !.curNonce = nonces, !.curBalance = balances, !.pendNonce = nonces]

Reset(s, nonces, balances, reinject, t) ==
    LET s1 == NewHeadState(s, nonces, balances)
        fixNonces(x) ==
            [x EXCEPT !.pendNonce = [a \in DOMAIN @ |->
                        IF a \in DOMAIN x.pending THEN MaxNonceOf(x.pending[a]) + 1
                        ELSE @[a]]]
    IN  UNION { PromoteExecutables(fixNonces(DemoteUnexecutables(x)),
                                   DOMAIN fixNonces(DemoteUnexecutables(x)).queue, t)
              : x \in AddTxsLocked(s1, reinject, FALSE, t) }

\* The evict case of loop(): every non-local queue whose heartbeat is older
\* than Lifetime is emptied with removeTx.
Evictable(s, t) ==
    {a \in DOMAIN s.queue : a \notin s.locals /\ t - Beat(s, a) > Lifetime}

RECURSIVE EvictAll(_, _)
EvictAll(s, addrs) ==
    IF addrs = {} THEN s
    ELSE LET a == CHOOSE x \in addrs : TRUE
         IN  EvictAll(RemoveTxs(s, ListOf(s.queue, a)), addrs \ {a})

-----------------------------------------------------------------------------
(* The read-only queries.  They take pool.mu (Content and Pending even the  *)
(* write lock), so each sees one state between two actions.                *)

\* txList.Flatten: the list's transactions sorted by nonce.
Flatten(l) == SetToSortSeq(l, LAMBDA x, y : x.nonce < y.nonce)

\* stats(): the number of pending and of queued transactions.
Stats(s) == [pending |-> Size(s.pending), queued |-> Size(s.queue)]

\* Content(): every pending and every queued list, flattened.
Content(s) == [pending |-> [a \in DOMAIN s.pending |-> Flatten(s.pending[a])],
               queued  |-> [a \in DOMAIN s.queue |-> Flatten(s.queue[a])]]

\* Pending(): the pending lists the miner takes, flattened.
PendingLists(s) == Content(s).pending

\* Get(hash): the transaction if `all` indexes it.
Get(s, tx) == tx \in s.all

\* Status(hashes), for one hash: unknown unless `all` indexes the tx; then
\* pending if the sender's pending list holds SOME tx at its nonce, else
\* queued.
Status(s, tx) ==
    IF ~Get(s, tx) THEN "unknown"
    ELSE IF AtNonce(ListOf(s.pending, tx.from), tx.nonce) # {} THEN "pending"
    ELSE "queued"

-----------------------------------------------------------------------------
(* The specification.                                                      *)

NoQCap == [visited |-> {}, skipped |-> {}]

Pool == [pending |-> pending, queue |-> queue, all |-> all, beats |-> beats,
         locals |-> locals, curNonce |-> curNonce, curBalance |-> curBalance,
         pendNonce |-> pendNonce, qcap |-> NoQCap, feed |-> << >>]

Install(r) ==
    /\ pending' = r.pending /\ queue' = r.queue /\ all' = r.all
    /\ beats' = r.beats /\ locals' = r.locals /\ curNonce' = r.curNonce
    /\ curBalance' = r.curBalance /\ pendNonce' = r.pendNonce /\ qcap' = r.qcap

\* NewTxPool: empty maps, reset(nil, head) installs the head's state.
Init ==
    /\ pending = << >> /\ queue = << >> /\ all = {} /\ beats = << >>
    /\ locals = {}
    /\ curNonce = [a \in Accounts |-> 0]
    /\ curBalance \in [Accounts -> Balances]
    /\ pendNonce = curNonce
    /\ now = 0
    /\ heads = 0
    /\ qcap = NoQCap

\* AddLocal/AddLocals (isLocal) and AddRemote/AddRemotes.
AddTxs(txs, isLocal) ==
    /\ \E r \in AddTxsLocked(Pool, txs, isLocal /\ ~NoLocals, now) : Install(r)
    /\ UNCHANGED <<now, heads>>

\* A ChainHeadEvent.  When the new head lowers an account's nonce from o to
\* n, the abandoned branch executed that account's nonces n..o-1 and the new
\* branch does not hold them, so `reinject` (TxDifference(discarded,
\* included)) holds one tx for each of them, with any amount.  The discarded
\* list is collected block by block from the old head backwards, so one
\* account's nonces appear as ascending gapless runs, each run below the one
\* before it.  A reorg deeper than 64 blocks reinjects nothing; one handing
\* back more than MaxReinject txs is only taken as such a deep reorg.  An
\* unrooted chain or a failed StateAt returns before any change: a stutter.
ReorgSlots(nonces) == {<<a, n>> \in Accounts \X (0..MaxNonce) :
                          nonces[a] <= n /\ n < curNonce[a]}

BlockOrder(seq) ==
    \A i, j \in DOMAIN seq :
        (i < j /\ seq[i].from = seq[j].from /\ seq[i].nonce < seq[j].nonce) =>
            \A k \in i..j - 1 : seq[k].from = seq[i].from
                                /\ seq[k + 1].nonce = seq[k].nonce + 1

Reinjections(nonces) ==
    LET slots == ReorgSlots(nonces)
    IN  {<< >>} \cup
        IF Cardinality(slots) > MaxReinject THEN {}
        ELSE UNION { {seq \in SetToSeqs({[from |-> sl[1], nonce |-> sl[2], amount |-> amt[sl]]
                                           : sl \in slots}) : BlockOrder(seq)}
                   : amt \in [slots -> Amounts] }

ChainHead(nonces, balances, reinject) ==
    /\ heads < MaxHeads
    /\ \E r \in Reset(Pool, nonces, balances, reinject, now) : Install(r)
    /\ heads' = heads + 1
    /\ UNCHANGED now

\* The evict ticker.
EvictTick ==
    /\ Install(EvictAll(Pool, Evictable(Pool, now)))
    /\ UNCHANGED <<now, heads>>

\* Time passes.
Tick ==
    /\ now < MaxTime
    /\ now' = now + 1
    /\ UNCHANGED <<poolVars, heads>>

Next ==
    \/ \E txs \in SeqOf(Tx, MaxBatch) \ {<<>>}, isLocal \in BOOLEAN : AddTxs(txs, isLocal)
    \/ \E nonces \in [Accounts -> 0..MaxNonce], balances \in [Accounts -> Balances] :
          \E reinject \in Reinjections(nonces) : ChainHead(nonces, balances, reinject)
    \/ EvictTick
    \/ Tick

Spec == Init /\ [][Next]_vars

-----------------------------------------------------------------------------
(* Properties.                                                             *)

TypeOK ==
    /\ DOMAIN pending \subseteq Accounts /\ DOMAIN queue \subseteq Accounts
    /\ \A a \in DOMAIN pending : pending[a] \subseteq [from : {a}, nonce : 0..MaxNonce, amount : Amounts]
    /\ \A a \in DOMAIN queue : queue[a] \subseteq [from : {a}, nonce : 0..MaxNonce, amount : Amounts]
    /\ all \subseteq Tx
    /\ DOMAIN beats \subseteq Accounts /\ \A a \in DOMAIN beats : beats[a] \in 0..MaxTime
    /\ locals \subseteq Accounts
    /\ curNonce \in [Accounts -> 0..MaxNonce] /\ curBalance \in [Accounts -> Balances]
    /\ pendNonce \in [Accounts -> 0..MaxNonce + 1]
    /\ now \in 0..MaxTime /\ heads \in 0..MaxHeads

\* Spec 8.2: no two transactions of one sender with the same nonce are held
\* at once, across the pending and the queued lists (add() sends a tx whose
\* nonce is pending into the pending list and every other into the queue).
NoDuplicateNonce ==
    \A a \in Accounts : Nonces(ListOf(pending, a)) \cap Nonces(ListOf(queue, a)) = {}

\* Spec 8.3: the nonces of a pending list are contiguous (demoteUnexecutables
\* only repairs a gap at the chain's nonce, the head of the list).
PendingContiguous ==
    \A a \in DOMAIN pending :
        pending[a] # {} => Nonces(pending[a]) = MinNonce(pending[a]) .. MaxNonceOf(pending[a])

\* A pending list starts at the chain's nonce: its head is executable now.
\* demoteUnexecutables drops what the new head made stale and re-queues a
\* list whose head went missing; adds never touch the chain's nonce.
PendingHeadExecutable ==
    \A a \in DOMAIN pending :
        pending[a] # {} => MinNonce(pending[a]) = curNonce[a]

\* NextNonce(a): the nonce the account's next executable tx must carry.
NextNonce(a) ==
    IF ListOf(pending, a) = {} THEN curNonce[a] ELSE MaxNonceOf(pending[a]) + 1

\* No queued tx is executable: one at the account's next nonce is promoted
\* by the same call that made it so, and not left stranded in the queue.
QueuedNotExecutable ==
    \A a \in DOMAIN queue : AtNonce(queue[a], NextNonce(a)) = {}

\* Spec 8.4: the pending lists hold at most GlobalSlots txs, unless every
\* non-local account is within its AccountSlots allowance.
PendingCapRespected ==
    Size(pending) <= GlobalSlots
    \/ \A a \in DOMAIN pending : a \notin locals => Cardinality(pending[a]) <= AccountSlots

\* Spec 8.5: the queues hold at most GlobalQueue txs, unless only local
\* accounts have queued txs.
QueueCapRespected ==
    Size(queue) <= GlobalQueue \/ DOMAIN queue \subseteq locals

\* Spec 8.1: `all` indexes exactly the transactions of the pending and the
\* queued lists.
AllIndexesLists ==
    all = UNION {pending[a] : a \in DOMAIN pending} \cup UNION {queue[a] : a \in DOMAIN queue}

\* Listed(f, tx): tx is in the flattened list of its sender in f.
Listed(f, tx) == tx.from \in DOMAIN f /\ tx \in Range(f[tx.from])

\* Spec "Status query": the status Status and Get report for a transaction
\* (read from `all` and the pending list's nonce slot) is where Content and
\* Pending list it: pending, queued, or nowhere and unknown; and Stats counts
\* exactly the transactions Status reports pending and queued.  Every path
\* that takes a tx out of a list (removeTx, the caps, promotion's and
\* demotion's drops) must delete it from `all` in the same step.
StatusAgreesWithContent ==
    LET c == Content(Pool)
        st(tx) == Status(Pool, tx)
    IN  /\ \A tx \in Tx :
              st(tx) = IF Listed(PendingLists(Pool), tx) THEN "pending"
                       ELSE IF Listed(c.queued, tx) THEN "queued" ELSE "unknown"
        /\ Stats(Pool) = [pending |-> Cardinality({tx \in Tx : st(tx) = "pending"}),
                          queued  |-> Cardinality({tx \in Tx : st(tx) = "queued"})]

\* Spec 4.5 and scenario S5: the global queue cap drops the txs of the
\* account with the OLDEST heartbeat first, so no account it spared is
\* older than one it dropped from.
QueueCapOrder ==
    \A v \in qcap.visited, k \in qcap.skipped :
        k.acct \notin {w.acct : w \in qcap.visited} => k.beat >= v.beat

\* LocalSlots: the (sender, nonce) slots held by accounts marked local.
LocalSlots ==
    {<<tx.from, tx.nonce>> : tx \in UNION {ListOf(pending, a) \cup ListOf(queue, a) : a \in locals}}

\* Local transactions are exempt from every cap and from eviction (the
\* locals.contains checks of promoteExecutables and of the evict loop): a
\* step other than a chain head never takes a slot from a local account.
LocalsKept ==
    [][heads' = heads => LocalSlots \subseteq LocalSlots']_vars

=============================================================================
