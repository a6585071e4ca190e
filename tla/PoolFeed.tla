------------------------------ MODULE PoolFeed ------------------------------
(***************************************************************************)
(* The pool with its TxPreEvent feed.  promoteTx (and add's direct        *)
(* replacement, when it displaced nothing) end with                        *)
(* `go pool.txFeed.Send(TxPreEvent{tx})`: every event gets a goroutine of  *)
(* its own, started under the pool lock in the order the pool emits, and   *)
(* Send blocks until the subscriber has taken the event.  The goroutines   *)
(* are not ordered among themselves, so the subscriber takes the in-flight *)
(* events in any order.  One subscriber (SubscribeTxPreEvent) is present    *)
(* from the start, as the node subscribes right after NewTxPool.           *)
(***************************************************************************)
EXTENDS TxPool

CONSTANT MaxInFlight   \* bound on the Send goroutines alive at once

ASSUME MaxInFlight \in Nat

VARIABLES
    inflight    \* the events whose Send goroutine has not delivered, in the
                \* order the pool started the goroutines

feedVars == <<inflight>>
fVars == <<vars, feedVars>>

\* The goroutines a pool step started, in order; `r` is the pool state the
\* step installs, and its `feed` the sends of that step.
Emit(r) ==
    /\ Len(inflight) + Len(r.feed) <= MaxInFlight
    /\ inflight' = inflight \o r.feed

-----------------------------------------------------------------------------

FInit ==
    /\ Init
    /\ inflight = << >>

FAddTxs(txs, isLocal) ==
    /\ \E r \in AddTxsLocked(Pool, txs, isLocal /\ ~NoLocals, now) :
          Install(r) /\ Emit(r)
    /\ UNCHANGED <<now, heads>>

FChainHead(nonces, balances, reinject) ==
    /\ heads < MaxHeads
    /\ \E r \in Reset(Pool, nonces, balances, reinject, now) :
          Install(r) /\ Emit(r)
    /\ heads' = heads + 1
    /\ UNCHANGED now

\* Eviction only removes queued txs: no event, but an evicted tx is no
\* longer pending.
FEvictTick ==
    /\ EvictTick
    /\ UNCHANGED feedVars

FTick ==
    /\ Tick
    /\ UNCHANGED feedVars

\* One Send goroutine hands its event to the subscriber's channel.
Deliver(i) ==
    /\ inflight' = RemoveAt(inflight, i)
    /\ UNCHANGED vars

FNext ==
    \/ \E txs \in SeqOf(Tx, MaxBatch) \ {<<>>}, isLocal \in BOOLEAN : FAddTxs(txs, isLocal)
    \/ \E nonces \in [Accounts -> 0..MaxNonce], balances \in [Accounts -> Balances] :
          \E reinject \in Reinjections(nonces) : FChainHead(nonces, balances, reinject)
    \/ FEvictTick
    \/ FTick
    \/ \E i \in DOMAIN inflight : Deliver(i)

FSpec == FInit /\ [][FNext]_fVars

-----------------------------------------------------------------------------

FeedTypeOK ==
    /\ TypeOK
    /\ inflight \in Seq(Tx) /\ Len(inflight) <= MaxInFlight

\* Spec 5: "Subscribers receive events in the order the pool emitted
\* them".  Whenever a Send goroutine delivers, no event of the same sender
\* that the pool emitted earlier is still in flight.
EventsInEmitOrder ==
    [][Len(inflight') < Len(inflight) =>
          \E i \in DOMAIN inflight :
             /\ inflight' = RemoveAt(inflight, i)
             /\ \A j \in 1..i - 1 : inflight[j].from # inflight[i].from]_fVars

=============================================================================
