------------------------------- MODULE Signer -------------------------------
(***************************************************************************)
(* MSigner of transaction/transaction_signing.go (src/unnamed/part_000):    *)
(* the V value SignatureValues puts on the wire, deriveChainId, the        *)
(* recovery in MSigner.Sender/recoverPlain, and the sender cache of the    *)
(* package-level Sender.  The elliptic curve is abstracted: a signature     *)
(* carries the recovery id of its key, and recovery with recovery id v     *)
(* yields the address of key v, so a wrong v means a wrong sender.  r and s *)
(* are always in range.  Word arithmetic keeps the width `Width` (64 in    *)
(* the code).                                                              *)
(***************************************************************************)
EXTENDS Integers

CONSTANTS
    ChainIds,   \* the chain ids of the signers (NewMSigner(nil) is chain 0)
    Width       \* the width of uint64

ASSUME ChainIds \subseteq Nat /\ Width \in Nat \ {0}

RecoveryIds == {0, 1}
Errors == {"ErrInvalidChainId", "ErrInvalidSig"}
ZeroAddress == -1   \* types.Address{}, returned with every error

\* The (address, error) pair Sender and recoverPlain return.
Fail(e) == [from |-> ZeroAddress, err |-> e]
Ok(a) == [from |-> a, err |-> "nil"]

Word == 2^Width

Abs(x) == IF x < 0 THEN -x ELSE x

\* big.Int.BitLen: the bit length of |x|.
BitLen(x) == CHOOSE n \in 0..Width + 8 : Abs(x) < 2^n /\ (n = 0 \/ 2^(n - 1) <= Abs(x))

\* SignatureValues: V = sig[64] + 27, or sig[64] + 35 + chainIdMul when the
\* chain id is not 0.
SignatureV(c, rid) == IF c # 0 THEN rid + 35 + 2 * c ELSE rid + 27

\* deriveChainId: the uint64 branch subtracts in uint64.
DeriveChainId(v) ==
    IF BitLen(v) <= Width
    THEN IF v \in {27, 28} THEN 0 ELSE ((v - 35) % Word) \div 2
    ELSE (v - 35) \div 2

\* recoverPlain: V := byte(Vb.Uint64() - 27) (Uint64 reads |Vb|), then
\* ValidateSignatureValues accepts only V in {0, 1}; Ecrecover then yields
\* the key of recovery id V.
RecoverPlain(vb) ==
    LET v == ((Abs(vb) - 27) % Word) % 256
    IN  IF BitLen(vb) > 8 \/ v \notin RecoveryIds THEN Fail("ErrInvalidSig") ELSE Ok(v)

\* MSigner.Sender with chain id c, on a tx whose V is v.
MSignerSender(c, v) ==
    IF DeriveChainId(v) # c THEN Fail("ErrInvalidChainId")
    ELSE RecoverPlain(v - 2 * c - 8)

\* MSigner.Equal: same chain id.
Equal(c1, c2) == c1 = c2

-----------------------------------------------------------------------------

NoChain == -1
NoCache == [chain |-> NoChain, from |-> ZeroAddress]
NoCall == [chain |-> NoChain, out |-> Ok(ZeroAddress)]

VARIABLES
    tx,     \* the signed tx: its V, and (history) the chain and key used
    cache,  \* tx.from: the sigCache of the last successful Sender
    res     \* the last Sender call: its signer's chain id and its outcome

sVars == <<tx, cache, res>>

SInit ==
    /\ tx = [v |-> 0, chain |-> NoChain, rid |-> ZeroAddress]
    /\ cache = NoCache
    /\ res = NoCall

\* SignTx(tx, NewMSigner(c), prv): a fresh tx signed with key rid.
SignTx(c, rid) ==
    /\ tx' = [v |-> SignatureV(c, rid), chain |-> c, rid |-> rid]
    /\ cache' = NoCache
    /\ res' = NoCall

\* Sender(NewMSigner(c), tx): the cached address if the cached signer is
\* Equal, else recovery; only a success is cached.
Sender(c) ==
    /\ tx.chain # NoChain
    /\ IF cache # NoCache /\ Equal(cache.chain, c)
       THEN res' = [chain |-> c, out |-> Ok(cache.from)] /\ UNCHANGED cache
       ELSE LET o == MSignerSender(c, tx.v)
            IN  /\ res' = [chain |-> c, out |-> o]
                /\ cache' = IF o.err # "nil" THEN cache ELSE [chain |-> c, from |-> o.from]
    /\ UNCHANGED tx

SNext ==
    \/ \E c \in ChainIds, rid \in RecoveryIds : SignTx(c, rid)
    \/ \E c \in ChainIds : Sender(c)

SSpec == SInit /\ [][SNext]_sVars

-----------------------------------------------------------------------------

\* Spec 8.7, signature round-trip: Sender with a signer of the chain a tx
\* was signed for returns the address of the key that signed it.
SignerRoundTrip ==
    res.chain = tx.chain /\ res.chain # NoChain => res.out = Ok(tx.rid)

=============================================================================
