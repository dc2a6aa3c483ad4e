------------------------------ MODULE DevNode ------------------------------
(***************************************************************************)
(* The development node of src/node/src/service/dev.rs as seen by one      *)
(* signing account: a transaction pool, instant sealing and delayed        *)
(* finality, wired together by new_full.  The pool, the proposer and the   *)
(* two sealing tasks are Substrate library code, modelled from the way     *)
(* dev.rs starts them: the chain never forks (one author, no peers), every *)
(* block is imported as it is sealed, and finality is only ever given to   *)
(* blocks on that chain.                                                   *)
(*                                                                         *)
(* A transaction is a record with an id, the nonce it was signed with, the *)
(* height of the chain when it was signed and the call it carries.  Nonces *)
(* count from the account's nonce at the start of the behaviour.           *)
(***************************************************************************)
EXTENDS Naturals, FiniteSets, SequencesExt

CONSTANTS
  TxIds,     \* identities of transactions; each is signed at most once
  Calls,     \* what a transaction can carry
  MaxNonce,  \* bound: largest nonce a transaction is signed with
  Era,       \* number of blocks for which a signed transaction stays valid
  BlockCapacity  \* the account's transactions that fit into any one block

ASSUME MaxNonceIsNatural == MaxNonce \in Nat
ASSUME EraIsPositive == Era \in Nat \ {0}
ASSUME BlockCapacityIsPositive == BlockCapacity \in Nat \ {0}

Txs == [id : TxIds, nonce : Nat, born : Nat, call : Calls]

VARIABLES
  ready,          \* the ready queue: consecutive nonces from the account's nonce on
  future,         \* accepted transactions whose nonce is still ahead of the queue
  notifications,  \* import notifications instant sealing has not consumed
  chain,          \* the transactions of the sealed blocks, in the order they ran
  blocks,         \* the account's nonce after each sealed block
  finalized,      \* number of finalized blocks
  watched         \* what a submitter can observe of each transaction

pool == <<ready, future, notifications>>
ledger == <<chain, blocks, finalized>>
nodeVars == <<ready, future, notifications, chain, blocks, finalized, watched>>

\* A transaction is unsent, accepted into the pool (and from there in a block
\* and finalized, which the chain tells), rejected at submission, or has been
\* reported usurped, dropped or invalid after having been accepted.
Watch == {"unsent", "accepted", "rejected", "error"}

\* system.account(...).nonce at the best block and at the n-th one: one per
\* transaction included so far.
AccountNonce == Len(chain)
NonceAt(n) == IF n = 0 THEN 0 ELSE blocks[n]

\* system_accountNextIndex: the account's nonce moved past the ready queue.
NextNonce == AccountNonce + Len(ready)

IsIncluded(id)  == \E i \in 1..AccountNonce : chain[i].id = id
IsFinalized(id) == \E i \in 1..NonceAt(finalized) : chain[i].id = id

NodeInit ==
  /\ ready = <<>>
  /\ future = {}
  /\ notifications = 0
  /\ chain = <<>> /\ blocks = <<>>
  /\ finalized = 0
  /\ watched = [i \in TxIds |-> "unsent"]

-----------------------------------------------------------------------------
(* Submission *)

\* A stale nonce, or one the queue already holds with at least this priority.
SubmitRejected(t) ==
  /\ watched[t.id] = "unsent"
  /\ t.nonce < NextNonce
  /\ watched' = [watched EXCEPT ![t.id] = "rejected"]
  /\ UNCHANGED <<pool, ledger>>

\* Mutated: the replaced transaction's submitter is not told.
SubmitUsurpingSilently(t) ==
  LET k == t.nonce - AccountNonce + 1 IN
    /\ watched[t.id] = "unsent"
    /\ t.nonce \in AccountNonce..(NextNonce - 1)
    /\ ready' = [ready EXCEPT ![k] = t]
    /\ notifications' = notifications + 1
    /\ watched' = [watched EXCEPT ![t.id] = "accepted"]
    /\ UNCHANGED <<future, ledger>>

\* The queue holds a transaction with this nonce and a lower priority (tip):
\* the newcomer takes its place.
SubmitUsurping(t) ==
  LET k == t.nonce - AccountNonce + 1 IN
    /\ watched[t.id] = "unsent"
    /\ t.nonce \in AccountNonce..(NextNonce - 1)
    /\ ready' = [ready EXCEPT ![k] = t]
    /\ notifications' = notifications + 1
    /\ watched' = [watched EXCEPT ![t.id] = "accepted", ![ready[k].id] = "error"]
    /\ UNCHANGED <<future, ledger>>

\* How many nonces follow n without a gap among the future transactions.
Run(n) ==
  LET nonces == {t.nonce : t \in future} IN
    {k \in 0..Cardinality(future) : (n + 1)..(n + k) \subseteq nonces /\ n + k + 1 \notin nonces}

\* The future transactions of such a run, one chosen for each nonce.
Promotions(n) ==
  UNION {{s \in [1..k -> future] : \A i \in 1..k : s[i].nonce = n + i} : k \in Run(n)}

\* The nonce is the next one: the transaction is ready, and so is every future
\* transaction it was holding back.  Of future transactions with the same
\* nonce one is promoted and the others are reported invalid.
SubmitReady(t) ==
  /\ watched[t.id] = "unsent"
  /\ t.nonce = NextNonce
  /\ \E promoted \in Promotions(t.nonce) :
       LET passed == {f \in future : f.nonce <= t.nonce + Len(promoted)} IN
         /\ ready' = ready \o <<t>> \o promoted
         /\ future' = future \ passed
         /\ watched' = [i \in TxIds |->
                          IF i = t.id THEN "accepted"
                          ELSE IF \E f \in passed \ ToSet(promoted) : f.id = i THEN "error"
                          ELSE watched[i]]
  /\ notifications' = notifications + 1
  /\ UNCHANGED ledger

\* Mutated: the next nonce may be parked too.
SubmitFutureOrNext(t) ==
  /\ watched[t.id] = "unsent"
  /\ t.nonce >= NextNonce
  /\ future' = future \cup {t}
  /\ watched' = [watched EXCEPT ![t.id] = "accepted"]
  /\ UNCHANGED <<ready, notifications, ledger>>

\* A nonce ahead of the queue: parked until the gap is filled.
SubmitFuture(t) ==
  /\ watched[t.id] = "unsent"
  /\ t.nonce > NextNonce
  /\ future' = future \cup {t}
  /\ watched' = [watched EXCEPT ![t.id] = "accepted"]
  /\ UNCHANGED <<ready, notifications, ledger>>

\* A transaction, signed against the block at the head of the chain.
Signed(id, nonce, call) ==
  [id |-> id, nonce |-> nonce, born |-> Len(blocks), call |-> call]

Submit(t) == SubmitRejected(t) \/ SubmitUsurping(t) \/ SubmitReady(t) \/ SubmitFuture(t)

\* A transaction is mortal: one that stays parked for the length of its era
\* becomes invalid and leaves the pool.
Expire(t) ==
  /\ t \in future
  /\ Len(blocks) >= t.born + Era
  /\ future' = future \ {t}
  /\ watched' = [watched EXCEPT ![t.id] = "error"]
  /\ UNCHANGED <<ready, notifications, ledger>>

-----------------------------------------------------------------------------
(* Sealing and finality *)

\* The lengths of the queue's prefixes a block may take.  A block's normal
\* extrinsics have 75% of its weight (NORMAL_DISPATCH_RATIO), and how many of
\* them that is depends on the weight each declares: whatever they carry,
\* BlockCapacity of the account's transactions fit, and one that does not fit
\* keeps those with the later nonces out as well.
BlockLengths == {k \in 0..Len(ready) : k >= BlockCapacity \/ k = Len(ready)}

\* The next block takes the first k transactions of the queue; nothing is sealed
\* when there are none.
SealFirst(k) ==
  /\ notifications > 0
  /\ notifications' = notifications - 1
  /\ chain' = chain \o SubSeq(ready, 1, k)
  /\ blocks' = IF ready = <<>> THEN blocks ELSE Append(blocks, AccountNonce + k)
  /\ ready' = SubSeq(ready, k + 1, Len(ready))
  /\ UNCHANGED <<future, finalized, watched>>

\* Mutated: a block takes one transaction.
SealOne == \E k \in 0..1 : k <= Len(ready) /\ (k = 1 \/ ready = <<>>) /\ SealFirst(k)

\* Mutated: a block uses up the notifications of all its transactions.
SealUsingUp ==
  \E k \in BlockLengths :
    /\ notifications > 0
    /\ notifications' = notifications - k
    /\ chain' = chain \o SubSeq(ready, 1, k)
    /\ blocks' = IF ready = <<>> THEN blocks ELSE Append(blocks, AccountNonce + k)
    /\ ready' = SubSeq(ready, k + 1, Len(ready))
    /\ UNCHANGED <<future, finalized, watched>>

\* Instant sealing turns every import notification into a request to seal: one
\* notification, one block, whether or not it takes all that is ready.
Seal == \E k \in BlockLengths : SealFirst(k)

\* Each imported block starts a timer of its own; when one runs out its block
\* is finalized, and every ancestor with it.
Finalize(n) ==
  /\ n \in (finalized + 1)..Len(blocks)
  /\ finalized' = n
  /\ UNCHANGED <<pool, chain, blocks, watched>>

FinalizeSome == \E n \in 1..Len(blocks) : Finalize(n)

-----------------------------------------------------------------------------
(* The node on its own, with any client: each transaction is signed once,  *)
(* with any nonce.                                                         *)

NodeNext ==
  \/ \E id \in TxIds, n \in 0..MaxNonce, c \in Calls : Submit(Signed(id, n, c))
  \/ \E t \in future : Expire(t)
  \/ Seal
  \/ FinalizeSome

\* The two sealing tasks are essential tasks of the node and keep running.
NodeFairness == WF_nodeVars(Seal) /\ WF_nodeVars(FinalizeSome)

NodeSpec == NodeInit /\ [][NodeNext]_nodeVars /\ NodeFairness

-----------------------------------------------------------------------------
(* Properties *)

NodeTypeOK ==
  /\ ready \in Seq(Txs)
  /\ future \subseteq Txs
  /\ notifications \in Nat
  /\ chain \in Seq(Txs)
  /\ blocks \in Seq(0..AccountNonce)
  /\ finalized \in 0..Len(blocks)
  /\ watched \in [TxIds -> Watch]

\* The chain, followed by the ready queue, carries the nonces 0, 1, 2, ...
\* without gap or repetition, and nothing parked could already run: an
\* account's transactions execute once each and in nonce order.
NoncesAreConsecutive ==
  LET line == chain \o ready IN
    /\ \A i \in DOMAIN line : line[i].nonce = i - 1
    /\ \A t \in future : t.nonce > NextNonce

\* Every accepted transaction is in exactly one place (a block, the queue or
\* the parking area) and every other transaction is nowhere.
AcceptedIsHeld ==
  LET line == chain \o ready IN
    /\ \A i, j \in DOMAIN line : line[i].id = line[j].id => i = j
    /\ \A t \in future : \A u \in (future \cup ToSet(line)) \ {t} : u.id # t.id
    /\ \A id \in TxIds :
         watched[id] = "accepted"
           <=> \E t \in future \cup ToSet(line) : t.id = id

\* The notifications to come seal at least so many of the queue.
Covered(id) ==
  \E i \in DOMAIN ready : ready[i].id = id /\ i <= notifications * BlockCapacity

\* Sealing is driven by the notifications alone, and one brings one block: every
\* transaction of the queue that the notifications to come reach is finalized,
\* unless another one with its nonce and a higher priority takes its place
\* first.  What stands further back has no such promise, since promoted
\* transactions bring no notification of their own.
CoveredIsFinalized ==
  \A id \in TxIds : Covered(id) ~> (IsFinalized(id) \/ watched[id] = "error")
=============================================================================
