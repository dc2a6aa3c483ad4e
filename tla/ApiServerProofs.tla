-------------------------- MODULE ApiServerProofs --------------------------
(***************************************************************************)
(* Theorems about ApiServer and ApiQueries, for every set of requests,     *)
(* bodies and foreign transactions, any number of crashes and any era.     *)
(*                                                                         *)
(* ServerInv says what the place a request has reached tells of its        *)
(* transactions; the node's part of it is DevNodeProofs' NodeInv, since    *)
(* the server's node is driven by submissions of its own kind only.        *)
(* ExclusiveInv adds the ledger of nonces of a server with a key of its    *)
(* own, ContractInv what the extrinsics of every block leave in the        *)
(* contract, by way of the folds of FoldLemmas.                            *)
(***************************************************************************)
EXTENDS ApiQueries, FoldLemmas, FiniteSetTheorems, TLAPS

NodeP == INSTANCE DevNodeProofs

\* The names under which the lemmas about the node speak of it.
LEMMA SameNode ==
  /\ Node!NodeInit <=> NodeP!NodeInit
  /\ \A t : Node!Submit(t) <=> NodeP!Submit(t)
  /\ \A t : Node!Expire(t) <=> NodeP!Expire(t)
  /\ Node!Seal <=> NodeP!Seal
  /\ Node!FinalizeSome <=> NodeP!FinalizeSome
  /\ \A id : Node!IsFinalized(id) <=> NodeP!IsFinalized(id)
  /\ \A id : Node!IsIncluded(id) <=> NodeP!IsIncluded(id)
  /\ Node!Txs = NodeP!Txs
<1>1. Node!NodeInit <=> NodeP!NodeInit
  BY DEF Node!NodeInit, NodeP!NodeInit
<1>2. ASSUME NEW t PROVE Node!Submit(t) <=> NodeP!Submit(t)
  <2>1. Node!SubmitRejected(t) <=> NodeP!SubmitRejected(t)
    BY DEF Node!SubmitRejected, NodeP!SubmitRejected, Node!NextNonce, NodeP!NextNonce,
      Node!AccountNonce, NodeP!AccountNonce, Node!pool, NodeP!pool, Node!ledger, NodeP!ledger
  <2>2. Node!SubmitUsurping(t) <=> NodeP!SubmitUsurping(t)
    BY DEF Node!SubmitUsurping, NodeP!SubmitUsurping, Node!NextNonce, NodeP!NextNonce,
      Node!AccountNonce, NodeP!AccountNonce, Node!ledger, NodeP!ledger
  <2>3. Node!SubmitReady(t) <=> NodeP!SubmitReady(t)
    <3>1. Node!Promotions(t.nonce) = NodeP!Promotions(t.nonce)
      BY DEF Node!Promotions, NodeP!Promotions, Node!Run, NodeP!Run,
        Node!Cardinality, NodeP!Cardinality
    <3> QED
      BY <3>1 DEF Node!SubmitReady, NodeP!SubmitReady, Node!NextNonce, NodeP!NextNonce,
        Node!AccountNonce, NodeP!AccountNonce, Node!ledger, NodeP!ledger,
        Node!ToSet, NodeP!ToSet
  <2>4. Node!SubmitFuture(t) <=> NodeP!SubmitFuture(t)
    BY DEF Node!SubmitFuture, NodeP!SubmitFuture, Node!NextNonce, NodeP!NextNonce,
      Node!AccountNonce, NodeP!AccountNonce, Node!ledger, NodeP!ledger
  <2> QED
    BY <2>1, <2>2, <2>3, <2>4 DEF Node!Submit, NodeP!Submit
<1>3. \A t : Node!Expire(t) <=> NodeP!Expire(t)
  BY DEF Node!Expire, NodeP!Expire, Node!ledger, NodeP!ledger
<1>4. Node!Seal <=> NodeP!Seal
  BY DEF Node!Seal, NodeP!Seal, Node!BlockLengths, NodeP!BlockLengths,
    Node!SealFirst, NodeP!SealFirst, Node!AccountNonce, NodeP!AccountNonce
<1>5. Node!FinalizeSome <=> NodeP!FinalizeSome
  BY DEF Node!FinalizeSome, NodeP!FinalizeSome, Node!Finalize, NodeP!Finalize, Node!pool, NodeP!pool
<1>6. /\ \A id : Node!IsFinalized(id) <=> NodeP!IsFinalized(id)
      /\ \A id : Node!IsIncluded(id) <=> NodeP!IsIncluded(id)
  BY DEF Node!IsFinalized, NodeP!IsFinalized, Node!IsIncluded, NodeP!IsIncluded,
    Node!NonceAt, NodeP!NonceAt, Node!AccountNonce, NodeP!AccountNonce
<1>7. Node!Txs = NodeP!Txs
  BY DEF Node!Txs, NodeP!Txs
<1> QED
  BY <1>1, <1>2, <1>3, <1>4, <1>5, <1>6, <1>7

LEMMA SameFinality ==
  /\ \A id : Node!IsFinalized(id) <=> NodeP!IsFinalized(id)
  /\ \A id : Node!IsFinalized(id)' <=> NodeP!IsFinalized(id)'
BY DEF Node!IsFinalized, NodeP!IsFinalized, Node!NonceAt, NodeP!NonceAt

-----------------------------------------------------------------------------
(* What a step does to the node *)

\* The node keeps its invariant, final transactions stay final, and only the
\* transactions in S can be seen for the first time.
NodeMoves(S) ==
  /\ NodeP!NodeInv'
  /\ \A id : Node!IsFinalized(id) => Node!IsFinalized(id)'
  /\ \A id \in TxIds \ S : watched'[id] = "unsent" <=> watched[id] = "unsent"

LEMMA RestMoves ==
  ASSUME NodeP!NodeInv, UNCHANGED nodeVars
  PROVE  NodeMoves({})
<1>1. UNCHANGED NodeP!nodeVars
  BY DEF nodeVars, poolVars, NodeP!nodeVars
<1>2. NodeP!NodeInv'
  BY <1>1, NodeP!NodeStutter, EraIsPositive, BlockCapacityIsPositive DEF MaxNonce
<1> QED
  BY <1>2 DEF NodeMoves, nodeVars, poolVars, Node!IsFinalized, Node!NonceAt

LEMMA SubmitMoves ==
  ASSUME NodeP!NodeInv, NEW t \in Node!Txs, Node!Submit(t)
  PROVE  NodeMoves({t.id}) /\ watched[t.id] = "unsent"
<1>1. t \in NodeP!Txs /\ NodeP!Submit(t)
  BY SameNode
<1>2. NodeP!NodeInv'
  BY <1>1, NodeP!SubmitStep, EraIsPositive, BlockCapacityIsPositive DEF MaxNonce
<1>3. /\ UNCHANGED <<chain, blocks, finalized>>
      /\ watched[t.id] = "unsent"
      /\ \A id \in TxIds : id # t.id => (watched'[id] = "unsent" <=> watched[id] = "unsent")
  BY <1>1, NodeP!SubmitTells, EraIsPositive, BlockCapacityIsPositive DEF MaxNonce
<1>4. \A id : Node!IsFinalized(id) => Node!IsFinalized(id)'
  BY <1>3 DEF Node!IsFinalized, Node!NonceAt
<1> QED
  BY <1>2, <1>3, <1>4 DEF NodeMoves

LEMMA SealMoves ==
  ASSUME NodeP!NodeInv, Node!Seal
  PROVE  NodeMoves({}) /\ UNCHANGED watched /\ NodeP!HeldTxs' = NodeP!HeldTxs
<1>1. NodeP!Seal
  BY SameNode
<1>2. NodeP!NodeInv' /\ NodeP!HeldTxs' = NodeP!HeldTxs
  BY <1>1, NodeP!SealStep, EraIsPositive, BlockCapacityIsPositive DEF MaxNonce
<1>3. \A id : NodeP!IsFinalized(id) => NodeP!IsFinalized(id)'
  BY <1>1, NodeP!FinalityGrows, EraIsPositive, BlockCapacityIsPositive DEF MaxNonce
<1>4. \A id : Node!IsFinalized(id) => Node!IsFinalized(id)'
  BY <1>3, SameFinality
<1>5. UNCHANGED watched
  BY DEF Node!Seal, Node!SealFirst
<1> QED
  BY <1>2, <1>4, <1>5 DEF NodeMoves

\* What a block of the server's node takes.
LEMMA BlockIsSeal ==
  ASSUME NEW k \in Node!BlockLengths, Node!SealFirst(k)
  PROVE  Node!Seal
BY DEF Node!Seal

LEMMA FinalizeMoves ==
  ASSUME NodeP!NodeInv, Node!FinalizeSome
  PROVE  NodeMoves({}) /\ UNCHANGED watched /\ NodeP!HeldTxs' = NodeP!HeldTxs
<1>1. NodeP!FinalizeSome
  BY SameNode
<1>2. NodeP!NodeInv'
  BY <1>1, NodeP!FinalizeStep, EraIsPositive, BlockCapacityIsPositive DEF MaxNonce
<1>3. \A id : NodeP!IsFinalized(id) => NodeP!IsFinalized(id)'
  BY <1>1, NodeP!FinalityGrows, EraIsPositive, BlockCapacityIsPositive DEF MaxNonce
<1>4. \A id : Node!IsFinalized(id) => Node!IsFinalized(id)'
  BY <1>3, SameFinality
<1>5. UNCHANGED <<ready, future, chain, watched>>
  BY DEF Node!FinalizeSome, Node!Finalize, Node!pool
<1>6. NodeP!HeldTxs' = NodeP!HeldTxs
  BY <1>5 DEF NodeP!HeldTxs
<1> QED
  BY <1>2, <1>4, <1>5, <1>6 DEF NodeMoves

LEMMA ExpireMoves ==
  ASSUME NodeP!NodeInv, NEW t, Node!Expire(t)
  PROVE  NodeMoves({})
<1>1. NodeP!Expire(t)
  BY SameNode
<1>2. NodeP!NodeInv'
  BY <1>1, NodeP!ExpireStep, EraIsPositive, BlockCapacityIsPositive DEF MaxNonce
<1>3. t \in future /\ watched' = [watched EXCEPT ![t.id] = "error"] /\ UNCHANGED <<chain, blocks, finalized>>
  BY DEF Node!Expire, Node!ledger
<1>4. watched[t.id] = "accepted" /\ t.id \in TxIds /\ watched \in [TxIds -> NodeP!Watch]
  BY <1>3 DEF NodeP!NodeInv, NodeP!NodeTypeOK, NodeP!Agree, NodeP!HeldTxs, NodeP!Txs
<1>5. \A id : Node!IsFinalized(id) => Node!IsFinalized(id)'
  BY <1>3 DEF Node!IsFinalized, Node!NonceAt
<1> QED
  BY <1>2, <1>3, <1>4, <1>5 DEF NodeMoves

-----------------------------------------------------------------------------
(* The requests and their transactions *)

Places == {"idle", "sleeping", "transferSigned", "transferSent",
           "addUserSigned", "addUserSent", "done", "stuck", "cut"}

\* The type of the server's own state.
ServerTypeOK ==
  /\ aliceNonce \in Nat
  /\ up \in BOOLEAN
  /\ crashes \in Nat
  /\ pc \in [Requests -> Places]
  /\ body \in [Requests -> Bodies \cup {NoBody}]
  /\ nonceOf \in [TxIds -> Nat \cup {NoNonce}]
  /\ answer \in [Requests -> {0, 200, 400, 500}]
  /\ account_ids \in Seq(Accounts)

\* Where a request stands before its add_user is sent.
BeforeAddUser == {"idle", "sleeping", "transferSigned", "transferSent", "addUserSigned"}

\* What the place a request has reached tells of its body, its nonces and its
\* transactions; the last conjunct is what the promise of the transfer is for.
ProgressOf(r) ==
  /\ pc[r] = "idle" => body[r] = NoBody /\ answer[r] = 0
  /\ pc[r] # "idle" => body[r] \in Bodies
  /\ pc[r] = "sleeping" => body[r].kind = CreateUser
  /\ pc[r] = "transferSigned" => nonceOf[TransferOf(r)] \in Nat
  /\ pc[r] = "addUserSigned" => nonceOf[AddUserOf(r)] \in Nat /\ body[r].role # Unencodable
  /\ pc[r] \in BeforeAddUser => watched[AddUserOf(r)] = "unsent"
  /\ pc[r] = "addUserSigned" \/ watched[AddUserOf(r)] # "unsent"
       => body[r].kind = CreateUser \/ Node!IsFinalized(TransferOf(r))

SuccessOf(r) ==
  answer[r] = 200 /\ body[r].kind \in Creating => Node!IsFinalized(AddUserOf(r))

\* Only requests that are through have a line in account_ids.txt.
HasLine(r) == \E i \in DOMAIN account_ids : account_ids[i] = r

FileOfTheDone ==
  /\ \A i \in DOMAIN account_ids : account_ids[i] \in Requests
  /\ \A i, j \in DOMAIN account_ids : account_ids[i] = account_ids[j] => i = j
  /\ \A r \in Requests : HasLine(r) => pc[r] = "done" /\ Node!IsFinalized(AddUserOf(r))

ServerInv ==
  /\ NodeP!NodeInv
  /\ ServerTypeOK
  /\ \A r \in Requests : ProgressOf(r) /\ SuccessOf(r)
  /\ FileOfTheDone

\* The state of a request.
LEMMA RequestTypes ==
  ASSUME ServerInv, NEW r \in Requests
  PROVE  /\ TransferOf(r) \in TxIds /\ AddUserOf(r) \in TxIds
         /\ pc[r] \in Places
         /\ body[r] \in Bodies \cup {NoBody}
         /\ answer[r] \in {0, 200, 400, 500}
         /\ ProgressOf(r) /\ SuccessOf(r)
BY DEF ServerInv, ServerTypeOK, TransferOf, AddUserOf, TxIds

-----------------------------------------------------------------------------
(* Steps of one request *)

\* A step of request r, as the other requests and the file see it.
Turn(r) ==
  /\ NodeMoves({TransferOf(r), AddUserOf(r)})
  /\ pc[r] # "done"
  /\ \A q \in Requests \ {r} :
       pc'[q] = pc[q] /\ body'[q] = body[q] /\ answer'[q] = answer[q]
  /\ \A id \in TxIds \ {TransferOf(r), AddUserOf(r)} : nonceOf'[id] = nonceOf[id]

LEMMA OthersKeep ==
  ASSUME ServerInv, NEW r \in Requests, Turn(r), NEW q \in Requests, q # r
  PROVE  ProgressOf(q)' /\ SuccessOf(q)'
<1>1. /\ TransferOf(q) \in TxIds \ {TransferOf(r), AddUserOf(r)}
      /\ AddUserOf(q) \in TxIds \ {TransferOf(r), AddUserOf(r)}
  BY RequestTypes DEF TransferOf, AddUserOf
<1>2. /\ nonceOf'[TransferOf(q)] = nonceOf[TransferOf(q)]
      /\ nonceOf'[AddUserOf(q)] = nonceOf[AddUserOf(q)]
      /\ pc'[q] = pc[q] /\ body'[q] = body[q] /\ answer'[q] = answer[q]
  BY <1>1 DEF Turn
<1>3. /\ watched'[AddUserOf(q)] = "unsent" <=> watched[AddUserOf(q)] = "unsent"
      /\ Node!IsFinalized(TransferOf(q)) => Node!IsFinalized(TransferOf(q))'
      /\ Node!IsFinalized(AddUserOf(q)) => Node!IsFinalized(AddUserOf(q))'
  BY <1>1 DEF Turn, NodeMoves
<1>4. UNCHANGED <<TransferOf(q), AddUserOf(q)>>
  BY DEF TransferOf, AddUserOf
<1>5. ProgressOf(q) /\ SuccessOf(q)
  BY RequestTypes
<1>6. ProgressOf(q)'
  BY <1>2, <1>3, <1>4, <1>5 DEF ProgressOf
<1>7. SuccessOf(q)'
  BY <1>2, <1>3, <1>4, <1>5 DEF SuccessOf
<1> QED
  BY <1>6, <1>7

LEMMA FileKept ==
  ASSUME FileOfTheDone, UNCHANGED account_ids,
         \A id : Node!IsFinalized(id) => Node!IsFinalized(id)',
         \A q \in Requests : pc[q] = "done" => pc'[q] = "done"
  PROVE  FileOfTheDone'
BY DEF FileOfTheDone, HasLine, AddUserOf

\* What is left to show of a step of r that leaves the file alone.
LEMMA TurnKeeps ==
  ASSUME ServerInv, NEW r \in Requests, Turn(r), UNCHANGED account_ids,
         ServerTypeOK', ProgressOf(r)', SuccessOf(r)'
  PROVE  ServerInv'
<1>1. FileOfTheDone'
  BY FileKept DEF Turn, NodeMoves, ServerInv
<1>2. NodeP!NodeInv'
  BY DEF Turn, NodeMoves
<1> QED
  BY <1>1, <1>2, OthersKeep DEF ServerInv

LEMMA ArriveStep ==
  ASSUME ServerInv, NEW r \in Requests, pc[r] = "idle", UNCHANGED nodeVars,
         \E b \in Bodies :
           /\ body' = [body EXCEPT ![r] = b]
           /\ \/ PostDynamicGas(r, b) \/ PostMnemonic(r, b) \/ PostExisting(r, b)
              \/ PostCreateUser(r, b) \/ PostGrant(r, b)
           /\ UNCHANGED <<up, crashes, account_ids>>
  PROVE  ServerInv'
<1>1. PICK b \in Bodies :
        /\ body' = [body EXCEPT ![r] = b]
        /\ \/ PostDynamicGas(r, b) \/ PostMnemonic(r, b) \/ PostExisting(r, b)
           \/ PostCreateUser(r, b) \/ PostGrant(r, b)
        /\ UNCHANGED <<up, crashes, account_ids>>
  OBVIOUS
<1>2. /\ pc[r] = "idle" /\ UNCHANGED <<up, crashes, account_ids, nodeVars>>
      /\ watched[AddUserOf(r)] = "unsent" /\ UNCHANGED watched
  BY <1>1, RequestTypes DEF ProgressOf, BeforeAddUser, nodeVars, poolVars
<1>3. NodeMoves({})
  BY <1>2, RestMoves DEF ServerInv
<1>4. \/ /\ pc' = [pc EXCEPT ![r] = "transferSigned"] /\ UNCHANGED answer
         /\ nonceOf' = [nonceOf EXCEPT ![TransferOf(r)] = aliceNonce]
         /\ aliceNonce' = aliceNonce + 1
      \/ /\ pc' = [pc EXCEPT ![r] = "sleeping"] /\ b.kind = CreateUser
         /\ UNCHANGED <<aliceNonce, nonceOf, answer>>
      \/ /\ pc' = [pc EXCEPT ![r] = "done"] /\ UNCHANGED <<aliceNonce, nonceOf>>
         /\ \/ answer' = [answer EXCEPT ![r] = 400]
            \/ b.kind = Grant /\ answer' = [answer EXCEPT ![r] = 200]
  BY <1>1 DEF PostDynamicGas, PostMnemonic, PostExisting, PostCreateUser, PostGrant,
       BeginTransfer, TakeNonce, Reply
<1>5. ServerTypeOK'
  <2>1. ServerTypeOK /\ TransferOf(r) \in TxIds
    BY RequestTypes DEF ServerInv
  <2>2. aliceNonce' \in Nat /\ nonceOf' \in [TxIds -> Nat \cup {NoNonce}]
    BY <1>4, <2>1 DEF ServerTypeOK
  <2>3. answer' \in [Requests -> {0, 200, 400, 500}]
    BY <1>4, <2>1 DEF ServerTypeOK
  <2>4. pc' \in [Requests -> Places]
    BY <1>4, <2>1 DEF ServerTypeOK, Places
  <2> QED
    BY <1>1, <1>2, <2>1, <2>2, <2>3, <2>4 DEF ServerTypeOK
<1>6. Turn(r)
  BY <1>1, <1>2, <1>3, <1>4 DEF Turn, NodeMoves, ServerInv, ServerTypeOK
<1>7. /\ pc'[r] \in {"transferSigned", "sleeping", "done"} /\ body'[r] = b
      /\ pc'[r] = "sleeping" => b.kind = CreateUser
      /\ pc'[r] = "transferSigned" => nonceOf'[TransferOf(r)] \in Nat
      /\ answer'[r] = 200 => b.kind = Grant
  <2>1. answer[r] = 0
    BY <1>2, RequestTypes DEF ProgressOf
  <2> QED
    BY <1>1, <1>4, <2>1, RequestTypes DEF ServerInv, ServerTypeOK
<1>8. ProgressOf(r)'
  BY <1>2, <1>7 DEF ProgressOf, AddUserOf, TransferOf
<1>9. SuccessOf(r)'
  BY <1>7 DEF SuccessOf, Creating, Grant, DynamicGas, CreateUser, Mnemonic, Existing
<1> QED
  BY <1>2, <1>5, <1>6, <1>8, <1>9, TurnKeeps

\* The second signature: at the end of the sleep, or at the finality of the
\* transfer.
LEMMA BeginAddUserStep ==
  ASSUME ServerInv, NEW r \in Requests, BeginAddUser(r),
         UNCHANGED <<up, crashes, body, account_ids, nodeVars>>,
         \/ pc[r] = "sleeping"
         \/ pc[r] = "transferSent" /\ Node!IsFinalized(TransferOf(r))
  PROVE  ServerInv'
<1>1. /\ nonceOf' = [nonceOf EXCEPT ![AddUserOf(r)] = aliceNonce]
      /\ aliceNonce' = aliceNonce + 1
      /\ \/ /\ pc' = [pc EXCEPT ![r] = "done"] /\ answer' = [answer EXCEPT ![r] = 500]
         \/ /\ pc' = [pc EXCEPT ![r] = "addUserSigned"] /\ UNCHANGED answer
            /\ body[r].role # Unencodable
  BY DEF BeginAddUser, TakeNonce, Reply
<1>2. UNCHANGED watched /\ NodeMoves({})
  BY RestMoves DEF ServerInv, nodeVars, poolVars
<1>3. ServerTypeOK'
  <2>1. ServerTypeOK /\ AddUserOf(r) \in TxIds
    BY RequestTypes DEF ServerInv
  <2>2. aliceNonce' \in Nat /\ nonceOf' \in [TxIds -> Nat \cup {NoNonce}]
    BY <1>1, <2>1 DEF ServerTypeOK
  <2>3. answer' \in [Requests -> {0, 200, 400, 500}]
    BY <1>1, <2>1 DEF ServerTypeOK
  <2>4. pc' \in [Requests -> Places]
    BY <1>1, <2>1 DEF ServerTypeOK, Places
  <2> QED
    BY <2>1, <2>2, <2>3, <2>4 DEF ServerTypeOK
<1>4. Turn(r)
  BY <1>1, <1>2 DEF Turn, NodeMoves, ServerInv, ServerTypeOK
<1>5. /\ pc'[r] \in {"done", "addUserSigned"} /\ body'[r] = body[r] /\ body[r] \in Bodies
      /\ pc'[r] = "addUserSigned" => nonceOf'[AddUserOf(r)] \in Nat /\ body[r].role # Unencodable
      /\ answer'[r] = 500 \/ answer'[r] = answer[r]
  BY <1>1, RequestTypes DEF ServerInv, ServerTypeOK, ProgressOf
<1>6. /\ watched'[AddUserOf(r)] = "unsent" 
      /\ body[r].kind = CreateUser \/ Node!IsFinalized(TransferOf(r))'
  BY <1>2, RequestTypes DEF ProgressOf, BeforeAddUser, NodeMoves
<1>7. ProgressOf(r)'
  BY <1>5, <1>6 DEF ProgressOf, AddUserOf, TransferOf
<1>8. SuccessOf(r)'
  <2>1. SuccessOf(r) /\ (Node!IsFinalized(AddUserOf(r)) => Node!IsFinalized(AddUserOf(r))')
    BY <1>2, RequestTypes DEF NodeMoves
  <2> QED
    BY <1>5, <2>1 DEF SuccessOf, AddUserOf
<1> QED
  BY <1>3, <1>4, <1>7, <1>8, TurnKeeps

LEMMA TransferErrorStep ==
  ASSUME ServerInv, NEW r \in Requests, TransferError(r)
  PROVE  ServerInv'
<1>1. /\ pc[r] = "transferSent" /\ pc' = [pc EXCEPT ![r] = "done"]
      /\ answer' = [answer EXCEPT ![r] = 500]
      /\ UNCHANGED <<aliceNonce, up, crashes, body, nonceOf, account_ids, nodeVars>>
  BY DEF TransferError, Reply
<1>2. UNCHANGED watched /\ NodeMoves({})
  BY <1>1, RestMoves DEF ServerInv, nodeVars, poolVars
<1>3. ServerTypeOK'
  BY <1>1 DEF ServerInv, ServerTypeOK, Places
<1>4. Turn(r)
  BY <1>1, <1>2 DEF Turn, NodeMoves, ServerInv, ServerTypeOK
<1>5. pc'[r] = "done" /\ answer'[r] = 500
  BY <1>1 DEF ServerInv, ServerTypeOK
<1>6. ProgressOf(r)' /\ SuccessOf(r)'
  BY <1>1, <1>2, <1>5, RequestTypes DEF ProgressOf, SuccessOf, BeforeAddUser, AddUserOf, TransferOf
<1> QED
  BY <1>1, <1>3, <1>4, <1>6, TurnKeeps

LEMMA NeverSettlesStep ==
  ASSUME ServerInv, NEW r \in Requests, AddUserNeverSettles(r)
  PROVE  ServerInv'
<1>1. /\ pc[r] = "addUserSent" /\ pc' = [pc EXCEPT ![r] = "stuck"]
      /\ UNCHANGED <<aliceNonce, up, crashes, body, nonceOf, answer, account_ids, nodeVars>>
  BY DEF AddUserNeverSettles
<1>2. UNCHANGED watched /\ NodeMoves({})
  BY <1>1, RestMoves DEF ServerInv, nodeVars, poolVars
<1>3. ServerTypeOK'
  BY <1>1 DEF ServerInv, ServerTypeOK, Places
<1>4. Turn(r)
  BY <1>1, <1>2 DEF Turn, NodeMoves, ServerInv, ServerTypeOK
<1>5. /\ pc'[r] = "stuck" /\ answer'[r] = answer[r] /\ body'[r] = body[r]
      /\ \A id : Node!IsFinalized(id) => Node!IsFinalized(id)'
  BY <1>1, <1>2 DEF ServerInv, ServerTypeOK, NodeMoves
<1>6. ProgressOf(r)' /\ SuccessOf(r)'
  BY <1>1, <1>2, <1>5, RequestTypes DEF ProgressOf, SuccessOf, BeforeAddUser, AddUserOf, TransferOf
<1> QED
  BY <1>1, <1>3, <1>4, <1>6, TurnKeeps

\* The answer at the finality of add_user, and the line it may leave in the
\* file: r is not through yet, so it has no line there.
LEMMA AddUserFinalizedStep ==
  ASSUME ServerInv, NEW r \in Requests, AddUserFinalized(r)
  PROVE  ServerInv'
<1>1. /\ pc[r] = "addUserSent" /\ pc' = [pc EXCEPT ![r] = "done"]
      /\ Node!IsFinalized(AddUserOf(r))
      /\ answer' = [answer EXCEPT ![r] = 200] \/ answer' = [answer EXCEPT ![r] = 500]
      /\ \/ UNCHANGED account_ids
         \/ body[r].kind = DynamicGas /\ account_ids' = Append(account_ids, AccountOf(r, body[r]))
      /\ UNCHANGED <<aliceNonce, up, crashes, body, nonceOf, nodeVars>>
  BY DEF AddUserFinalized, Reply
<1>2. body[r].kind = DynamicGas => AccountOf(r, body[r]) = r
  BY DEF AccountOf, DynamicGas, Mnemonic, Existing
<1>3. UNCHANGED account_ids \/ account_ids' = Append(account_ids, r)
  BY <1>1, <1>2
<1>4. UNCHANGED watched /\ NodeMoves({})
  BY <1>1, RestMoves DEF ServerInv, nodeVars, poolVars
<1>5. ServerTypeOK'
  <2>1. account_ids' \in Seq(Accounts)
    BY <1>3 DEF ServerInv, ServerTypeOK, Accounts
  <2> QED
    BY <1>1, <2>1 DEF ServerInv, ServerTypeOK, Places
<1>6. Turn(r)
  BY <1>1, <1>4 DEF Turn, NodeMoves, ServerInv, ServerTypeOK
<1>7. /\ pc'[r] = "done" /\ body'[r] = body[r]
      /\ \A id : Node!IsFinalized(id) => Node!IsFinalized(id)'
  BY <1>1, <1>4 DEF ServerInv, ServerTypeOK, NodeMoves
<1>8. ProgressOf(r)' /\ SuccessOf(r)'
  <2>1. SuccessOf(r)'
    BY <1>1, <1>7 DEF SuccessOf, AddUserOf
  <2>2. ProgressOf(r)'
    BY <1>1, <1>4, <1>7, RequestTypes DEF ProgressOf, BeforeAddUser, AddUserOf, TransferOf
  <2> QED
    BY <2>1, <2>2
<1>9. FileOfTheDone'
  <2>1. \A q \in Requests : pc[q] = "done" => pc'[q] = "done"
    BY <1>1 DEF ServerInv, ServerTypeOK
  <2>2. CASE UNCHANGED account_ids
    BY <1>7, <2>1, <2>2, FileKept DEF ServerInv
  <2>3. CASE account_ids' = Append(account_ids, r)
    <3>1. \A i \in DOMAIN account_ids : account_ids[i] # r
      BY <1>1 DEF ServerInv, FileOfTheDone, HasLine
    <3>2. /\ DOMAIN account_ids' = DOMAIN account_ids \cup {Len(account_ids) + 1}
          /\ \A i \in DOMAIN account_ids : account_ids'[i] = account_ids[i]
          /\ account_ids'[Len(account_ids) + 1] = r
      BY <2>3 DEF ServerInv, ServerTypeOK
    <3>3. /\ \A i \in DOMAIN account_ids' : account_ids'[i] \in Requests
          /\ \A i, j \in DOMAIN account_ids' : account_ids'[i] = account_ids'[j] => i = j
      BY <3>1, <3>2 DEF ServerInv, FileOfTheDone
    <3>4. ASSUME NEW q \in Requests, HasLine(q)'
          PROVE  pc'[q] = "done" /\ Node!IsFinalized(AddUserOf(q))'
      <4>1. q = r \/ HasLine(q)
        BY <3>2, <3>4 DEF HasLine
      <4>2. (pc[q] = "done" /\ Node!IsFinalized(AddUserOf(q))) \/ q = r
        BY <4>1 DEF ServerInv, FileOfTheDone
      <4> QED
        BY <1>1, <1>7, <2>1, <4>2 DEF AddUserOf
    <3> QED
      BY <3>3, <3>4 DEF FileOfTheDone, AddUserOf
  <2> QED
    BY <1>3, <2>2, <2>3
<1>10. NodeP!NodeInv'
  BY <1>4 DEF NodeMoves
<1> QED
  BY <1>5, <1>6, <1>8, <1>9, <1>10, OthersKeep DEF ServerInv

-----------------------------------------------------------------------------
(* Submissions by the server *)

\* The calls a request signs are calls.
LEMMA SignedIsTx ==
  ASSUME ServerInv, NEW id \in TxIds, NEW n \in Nat, NEW call \in Calls
  PROVE  Node!Signed(id, n, call) \in Node!Txs /\ Node!Signed(id, n, call).id = id
<1>1. Len(blocks) \in Nat
  BY DEF ServerInv, NodeP!NodeInv, NodeP!NodeTypeOK
<1> QED
  BY <1>1 DEF Node!Signed, Node!Txs

LEMMA TransferIsCall == [method |-> "transfer"] \in Calls
BY DEF Calls

LEMMA AddUserIsCall ==
  ASSUME ServerInv, NEW r \in Requests, pc[r] = "addUserSigned"
  PROVE  [method |-> "add_user", account |-> AccountOf(r, body[r]),
          info |-> InfoOf(body[r]), role |-> body[r].role] \in Calls
<1>1. body[r] \in Bodies /\ body[r].role # Unencodable
  BY RequestTypes DEF ProgressOf
<1>2. body[r].role \in Roles /\ body[r].account \in NamedAccounts
  BY <1>1, BodiesHaveShape DEF BodyShape
<1>3. AccountOf(r, body[r]) \in Accounts
  BY <1>2 DEF AccountOf, Accounts
<1>4. InfoOf(body[r]) \in Infos
  BY <1>1, BodiesHaveShape DEF BodyShape, InfoOf, Infos, NameLengths
<1> QED
  BY <1>1, <1>2, <1>3, <1>4 DEF Calls

LEMMA SubmissionMoves ==
  ASSUME ServerInv, NEW id \in TxIds, NEW n \in Nat, NEW call \in Calls,
         Node!Submit(Node!Signed(id, n, call))
  PROVE  NodeMoves({id}) /\ watched[id] = "unsent"
<1>1. PICK t \in Node!Txs : t = Node!Signed(id, n, call) /\ t.id = id
  BY SignedIsTx
<1> QED
  BY <1>1, SubmitMoves DEF ServerInv

LEMMA SendTransferStep ==
  ASSUME ServerInv, NEW r \in Requests, SendTransfer(r)
  PROVE  ServerInv'
<1>1. /\ pc[r] = "transferSigned"
      /\ Node!Submit(Node!Signed(TransferOf(r), nonceOf[TransferOf(r)], [method |-> "transfer"]))
      /\ \/ pc' = [pc EXCEPT ![r] = "done"] /\ answer' = [answer EXCEPT ![r] = 500]
         \/ pc' = [pc EXCEPT ![r] = "transferSent"] /\ UNCHANGED answer
      /\ UNCHANGED <<aliceNonce, up, crashes, body, nonceOf, account_ids>>
  BY DEF SendTransfer, Reply
<1>2. NodeMoves({TransferOf(r)})
  <2>1. PICK id \in TxIds, n \in Nat, call \in Calls :
          id = TransferOf(r) /\ n = nonceOf[TransferOf(r)] /\ call = [method |-> "transfer"]
    BY <1>1, RequestTypes, TransferIsCall DEF ProgressOf
  <2> QED
    BY <1>1, <2>1, SubmissionMoves
<1>3. ServerTypeOK'
  BY <1>1 DEF ServerInv, ServerTypeOK, Places
<1>4. Turn(r)
  BY <1>1, <1>2 DEF Turn, NodeMoves, ServerInv, ServerTypeOK
<1>5. /\ pc'[r] \in {"done", "transferSent"} /\ body'[r] = body[r] /\ body[r] \in Bodies
      /\ answer'[r] = 500 \/ answer'[r] = answer[r]
      /\ watched[AddUserOf(r)] = "unsent"
  BY <1>1, RequestTypes DEF ServerInv, ServerTypeOK, ProgressOf, BeforeAddUser
<1>6. /\ watched'[AddUserOf(r)] = "unsent"
      /\ Node!IsFinalized(AddUserOf(r)) => Node!IsFinalized(AddUserOf(r))'
  <2>1. AddUserOf(r) \in TxIds \ {TransferOf(r)}
    BY RequestTypes DEF AddUserOf, TransferOf
  <2> QED
    BY <1>2, <1>5, <2>1 DEF NodeMoves
<1>7. ProgressOf(r)'
  BY <1>5, <1>6 DEF ProgressOf, AddUserOf
<1>8. SuccessOf(r)'
  BY <1>5, <1>6, RequestTypes DEF SuccessOf, AddUserOf
<1> QED
  BY <1>1, <1>3, <1>4, <1>7, <1>8, TurnKeeps

\* A step in which no request goes on: the node moves, or the process dies and
\* cuts its requests off.  An add_user seen for the first time in it is one of
\* a request that got past its transfer.
LEMMA ServerStays ==
  ASSUME ServerInv, ServerTypeOK', UNCHANGED <<body, nonceOf, answer, account_ids>>,
         NEW S, NodeMoves(S),
         \A q \in Requests :
           \/ pc'[q] = pc[q]
           \/ pc[q] \notin {"idle", "done"} /\ pc'[q] = "cut",
         \A q \in Requests : AddUserOf(q) \in S =>
           /\ pc'[q] \notin BeforeAddUser
           /\ body[q].kind = CreateUser \/ Node!IsFinalized(TransferOf(q))
  PROVE  ServerInv'
<1>1. ASSUME NEW q \in Requests PROVE ProgressOf(q)' /\ SuccessOf(q)'
  <2>1. AddUserOf(q) \in TxIds /\ ProgressOf(q) /\ SuccessOf(q)
    BY RequestTypes
  <2>2. /\ Node!IsFinalized(TransferOf(q)) => Node!IsFinalized(TransferOf(q))'
        /\ Node!IsFinalized(AddUserOf(q)) => Node!IsFinalized(AddUserOf(q))'
    BY DEF NodeMoves
  <2>3. SuccessOf(q)'
    BY <2>1, <2>2 DEF SuccessOf, AddUserOf
  <2>4. ASSUME AddUserOf(q) \in S PROVE ProgressOf(q)'
    <3>1. /\ pc'[q] \notin BeforeAddUser
          /\ body[q].kind = CreateUser \/ Node!IsFinalized(TransferOf(q))'
      BY <2>2, <2>4
    <3>2. pc[q] # "idle"
      BY <3>1 DEF BeforeAddUser
    <3> QED
      BY <2>1, <3>1, <3>2 DEF ProgressOf, BeforeAddUser, TransferOf, AddUserOf
  <2>5. ASSUME AddUserOf(q) \notin S PROVE ProgressOf(q)'
    <3>1. watched'[AddUserOf(q)] = "unsent" <=> watched[AddUserOf(q)] = "unsent"
      BY <2>1, <2>5 DEF NodeMoves
    <3>2. CASE pc'[q] = pc[q]
      BY <2>1, <2>2, <3>1, <3>2 DEF ProgressOf, BeforeAddUser, TransferOf, AddUserOf
    <3>3. CASE pc[q] \notin {"idle", "done"} /\ pc'[q] = "cut"
      BY <2>1, <2>2, <3>1, <3>3 DEF ProgressOf, BeforeAddUser, TransferOf, AddUserOf
    <3> QED
      BY <3>2, <3>3
  <2> QED
    BY <2>3, <2>4, <2>5
<1>2. FileOfTheDone'
  BY FileKept DEF NodeMoves, ServerInv
<1>3. NodeP!NodeInv'
  BY DEF NodeMoves
<1> QED
  BY <1>1, <1>2, <1>3 DEF ServerInv

LEMMA DieCuts ==
  ASSUME ServerInv, Die({}), UNCHANGED body
  PROVE  /\ ServerTypeOK' /\ UNCHANGED <<body, nonceOf, answer, account_ids>>
         /\ \A q \in Requests :
              \/ pc'[q] = pc[q]
              \/ pc[q] \notin {"idle", "done"} /\ pc'[q] = "cut"
<1>1. /\ UNCHANGED <<aliceNonce, nonceOf, answer, account_ids>>
      /\ up' = FALSE /\ crashes' = crashes + 1
      /\ pc' = [r \in Requests |-> IF pc[r] \in {"idle", "done"} THEN pc[r] ELSE "cut"]
  BY DEF Die
<1>2. pc' \in [Requests -> Places]
  BY <1>1 DEF ServerInv, ServerTypeOK, Places
<1>3. ServerTypeOK'
  <2>1. ServerTypeOK
    BY DEF ServerInv
  <2>2. up' \in BOOLEAN
    BY <1>1
  <2>3. crashes \in Nat
    BY <2>1 DEF ServerTypeOK
  <2>4. crashes' \in Nat
    BY <1>1, <2>3
  <2> QED
    BY <1>1, <1>2, <2>1, <2>2, <2>4 DEF ServerTypeOK
<1>4. ASSUME NEW q \in Requests
      PROVE  \/ pc'[q] = pc[q]
             \/ pc[q] \notin {"idle", "done"} /\ pc'[q] = "cut"
  <2>1. pc'[q] = IF pc[q] \in {"idle", "done"} THEN pc[q] ELSE "cut"
    BY <1>1
  <2> QED
    BY <2>1
<1> QED
  BY <1>1, <1>3, <1>4

LEMMA SendAddUserStep ==
  ASSUME ServerInv, NEW r \in Requests, SendAddUser(r)
  PROVE  ServerInv'
<1>1. /\ pc[r] = "addUserSigned"
      /\ \/ /\ pc' = [pc EXCEPT ![r] = "addUserSent"]
            /\ UNCHANGED <<aliceNonce, up, crashes, body, nonceOf, answer, account_ids>>
         \/ /\ pc' = [pc EXCEPT ![r] = "done"] /\ answer' = [answer EXCEPT ![r] = 500]
            /\ UNCHANGED <<aliceNonce, up, crashes, body, nonceOf, account_ids>>
         \/ Die({}) /\ UNCHANGED body
  BY DEF SendAddUser, Reply
<1>2. NodeMoves({AddUserOf(r)})
  <2>1. PICK id \in TxIds, n \in Nat, call \in Calls :
          /\ id = AddUserOf(r) /\ n = nonceOf[AddUserOf(r)]
          /\ call = [method |-> "add_user", account |-> AccountOf(r, body[r]),
                     info |-> InfoOf(body[r]), role |-> body[r].role]
    <3>1. nonceOf[AddUserOf(r)] \in Nat /\ AddUserOf(r) \in TxIds
      BY <1>1, RequestTypes DEF ProgressOf
    <3> QED
      BY <1>1, <3>1, AddUserIsCall, Zenon
  <2>2. Node!Submit(Node!Signed(id, n, call))
    BY <2>1 DEF SendAddUser
  <2> QED
    BY <2>1, <2>2, SubmissionMoves
<1>3. body[r] \in Bodies /\ (body[r].kind = CreateUser \/ Node!IsFinalized(TransferOf(r)))
  BY <1>1, RequestTypes DEF ProgressOf
<1>4. CASE Die({}) /\ UNCHANGED body
  <2>1. \A q \in Requests : AddUserOf(q) \in {AddUserOf(r)} => q = r
    BY DEF AddUserOf
  <2>2. pc'[r] = "cut"
    BY <1>1, <1>4 DEF Die
  <2>3. pc'[r] \notin BeforeAddUser
    BY <2>2 DEF BeforeAddUser
  <2> QED
    BY <1>2, <1>3, <1>4, <2>1, <2>3, DieCuts, ServerStays
<1>5. CASE ~(Die({}) /\ UNCHANGED body)
  <2>1. /\ UNCHANGED <<aliceNonce, up, crashes, body, nonceOf, account_ids>>
        /\ \/ pc' = [pc EXCEPT ![r] = "addUserSent"] /\ UNCHANGED answer
           \/ pc' = [pc EXCEPT ![r] = "done"] /\ answer' = [answer EXCEPT ![r] = 500]
    BY <1>1, <1>5
  <2>2. ServerTypeOK'
    BY <2>1 DEF ServerInv, ServerTypeOK, Places
  <2>3. Turn(r)
    BY <1>1, <1>2, <2>1 DEF Turn, NodeMoves, ServerInv, ServerTypeOK
  <2>4. /\ pc'[r] \in {"done", "addUserSent"} /\ body'[r] = body[r]
        /\ answer'[r] = 500 \/ answer'[r] = answer[r]
    BY <2>1, RequestTypes DEF ServerInv, ServerTypeOK
  <2>5. /\ Node!IsFinalized(TransferOf(r)) => Node!IsFinalized(TransferOf(r))'
        /\ Node!IsFinalized(AddUserOf(r)) => Node!IsFinalized(AddUserOf(r))'
    BY <1>2 DEF NodeMoves
  <2>6. ProgressOf(r)'
    BY <1>3, <2>4, <2>5 DEF ProgressOf, BeforeAddUser, TransferOf
  <2>7. SuccessOf(r)'
    BY <2>4, <2>5, RequestTypes DEF SuccessOf, AddUserOf
  <2> QED
    BY <2>1, <2>2, <2>3, <2>6, <2>7, TurnKeeps
<1> QED
  BY <1>4, <1>5

-----------------------------------------------------------------------------
(* The process and the node *)

LEMMA CrashStep ==
  ASSUME ServerInv, Crash
  PROVE  ServerInv'
<1>1. NodeMoves({})
  BY RestMoves DEF Crash, ServerInv
<1> QED
  BY <1>1, DieCuts, ServerStays DEF Crash

LEMMA RestartStep ==
  ASSUME ServerInv, Restart
  PROVE  ServerInv'
<1>1. NodeMoves({})
  BY RestMoves DEF Restart, ServerInv
<1>2. Node!NextNonce \in Nat
  BY DEF ServerInv, NodeP!NodeInv, NodeP!NodeTypeOK, Node!NextNonce, Node!AccountNonce
<1>3. /\ UNCHANGED <<pc, body, nonceOf, answer, account_ids, crashes>>
      /\ aliceNonce' = Node!NextNonce /\ up' = TRUE
  BY DEF Restart
<1>4. ServerTypeOK'
  BY <1>2, <1>3 DEF ServerInv, ServerTypeOK
<1> QED
  BY <1>1, <1>3, <1>4, ServerStays

\* A mnemonic that is none ends the process: the request that brought it is cut
\* off as well, before it took a nonce.
LEMMA NoMnemonicStep ==
  ASSUME ServerInv, NEW r \in Requests, pc[r] = "idle", UNCHANGED nodeVars,
         NEW b \in Bodies, body' = [body EXCEPT ![r] = b], PostNoMnemonic(r, b)
  PROVE  ServerInv'
<1>1. /\ UNCHANGED <<aliceNonce, nonceOf, answer, account_ids>>
      /\ up' = FALSE /\ crashes' = crashes + 1
      /\ pc' = [q \in Requests |->
                 IF pc[q] = "done" \/ (pc[q] = "idle" /\ q \notin {r}) THEN pc[q] ELSE "cut"]
  BY DEF PostNoMnemonic, Die
<1>2. ServerTypeOK
  BY DEF ServerInv
<1>3. ServerTypeOK'
  <2>1. pc' \in [Requests -> Places] /\ body' \in [Requests -> Bodies \cup {NoBody}]
    BY <1>1, <1>2 DEF ServerTypeOK, Places
  <2>2. crashes' \in Nat
    <3>1. crashes \in Nat
      BY <1>2 DEF ServerTypeOK
    <3> QED
      BY <1>1, <3>1
  <2>3. up' \in BOOLEAN
    BY <1>1, Zenon
  <2> QED
    BY <1>1, <1>2, <2>1, <2>2, <2>3 DEF ServerTypeOK
<1>4. NodeMoves({})
  BY RestMoves DEF ServerInv
<1>5. ASSUME NEW q \in Requests PROVE ProgressOf(q)' /\ SuccessOf(q)'
  <2>1. AddUserOf(q) \in TxIds /\ ProgressOf(q) /\ SuccessOf(q)
    BY RequestTypes
  <2>2. /\ Node!IsFinalized(TransferOf(q)) => Node!IsFinalized(TransferOf(q))'
        /\ Node!IsFinalized(AddUserOf(q)) => Node!IsFinalized(AddUserOf(q))'
        /\ watched'[AddUserOf(q)] = watched[AddUserOf(q)]
    BY <1>4 DEF NodeMoves, nodeVars, poolVars
  <2>3. CASE q = r
    <3>1. pc'[q] = "cut" /\ body'[q] \in Bodies /\ answer'[q] = 0
      BY <1>1, <1>2, <2>1, <2>3 DEF ServerTypeOK, ProgressOf
    <3>2. watched'[AddUserOf(q)] = "unsent"
      BY <2>1, <2>2, <2>3 DEF ProgressOf, BeforeAddUser
    <3> QED
      BY <3>1, <3>2 DEF ProgressOf, SuccessOf, BeforeAddUser, AddUserOf
  <2>4. CASE q # r
    <3>1. body'[q] = body[q] /\ (pc'[q] = pc[q] \/ (pc[q] # "idle" /\ pc'[q] = "cut"))
      BY <1>1, <1>2, <2>4 DEF ServerTypeOK
    <3>2. ProgressOf(q)'
      BY <1>1, <2>1, <2>2, <3>1 DEF ProgressOf, BeforeAddUser, TransferOf, AddUserOf
    <3>3. SuccessOf(q)'
      BY <1>1, <2>1, <2>2, <3>1 DEF SuccessOf, AddUserOf
    <3> QED
      BY <3>2, <3>3
  <2> QED
    BY <2>3, <2>4
<1>6. FileOfTheDone'
  <2>1. \A q \in Requests : pc[q] = "done" => pc'[q] = "done"
    BY <1>1
  <2> QED
    BY <1>1, <1>4, <2>1, FileKept DEF NodeMoves, ServerInv
<1> QED
  BY <1>3, <1>4, <1>5, <1>6 DEF ServerInv, NodeMoves

\* A step of the node alone in which no add_user is seen for the first time.
LEMMA NodeAlone ==
  ASSUME ServerInv, UNCHANGED apiVars, NEW S, NodeMoves(S),
         \A q \in Requests : AddUserOf(q) \notin S
  PROVE  ServerInv'
<1>1. UNCHANGED <<aliceNonce, up, crashes, pc, body, nonceOf, answer, account_ids>>
  BY DEF apiVars
<1>2. ServerTypeOK'
  BY <1>1 DEF ServerInv, ServerTypeOK
<1> QED
  BY <1>1, <1>2, ServerStays

\* What another wallet submits is a transaction of its own.
LEMMA ForeignSubmits ==
  ASSUME ServerInv, NEW i \in ForeignTxs, ForeignSubmit(i)
  PROVE  \E id \in TxIds, n \in Nat, call \in Calls :
           id = <<i, "foreign">> /\ Node!Submit(Node!Signed(id, n, call))
<1>1. <<i, "foreign">> \in TxIds
  BY DEF TxIds
<1>2. Node!NextNonce \in Nat
  BY DEF ServerInv, NodeP!NodeInv, NodeP!NodeTypeOK, Node!NextNonce, Node!AccountNonce
<1>3. PICK call \in ForeignCalls :
        Node!Submit(Node!Signed(<<i, "foreign">>, Node!NextNonce, call))
  BY DEF ForeignSubmit
<1>4. call \in Calls
  BY ForeignCallsAreCalls
<1> QED
  BY <1>1, <1>2, <1>3, <1>4, Zenon

LEMMA ForeignSubmitStep ==
  ASSUME ServerInv, NEW i \in ForeignTxs, ForeignSubmit(i)
  PROVE  ServerInv'
<1>1. PICK id \in TxIds, n \in Nat, call \in Calls :
        id = <<i, "foreign">> /\ Node!Submit(Node!Signed(id, n, call))
  BY ForeignSubmits
<1>2. NodeMoves({id})
  BY <1>1, SubmissionMoves
<1> QED
  BY <1>1, <1>2, NodeAlone DEF ForeignSubmit, AddUserOf

LEMMA ServerStep ==
  ASSUME ServerInv, [Next]_vars
  PROVE  ServerInv'
<1>1. ASSUME NEW r \in Requests, Step(r) PROVE ServerInv'
  BY <1>1, BeginAddUserStep, SendTransferStep, TransferErrorStep, SendAddUserStep,
     AddUserFinalizedStep, NeverSettlesStep DEF Step, WakeUp, TransferFinalized
<1>2. CASE SealBlock
  BY <1>2, BlockIsSeal, SealMoves, NodeAlone DEF SealBlock, ServerInv
<1>3. CASE FinalizeBlock
  BY <1>3, FinalizeMoves, NodeAlone DEF FinalizeBlock, ServerInv
<1>4. CASE ExpireTx
  BY <1>4, ExpireMoves, NodeAlone DEF ExpireTx, ServerInv
<1>5. CASE UNCHANGED vars
  BY <1>5, RestMoves, NodeAlone DEF vars, ServerInv
<1>6. ASSUME NEW r \in Requests, Arrive(r) PROVE ServerInv'
  BY <1>6, ArriveStep, NoMnemonicStep DEF Arrive
<1> QED
  BY <1>1, <1>2, <1>3, <1>4, <1>5, <1>6, CrashStep, RestartStep, ForeignSubmitStep DEF Next

LEMMA ServerInit == Init => ServerInv
<1> SUFFICES ASSUME Init PROVE ServerInv
  OBVIOUS
<1>1. NodeP!NodeInv
  <2>1. NodeP!NodeInit
    BY SameNode DEF Init
  <2> QED
    BY <2>1, NodeP!NodeInitInv, EraIsPositive, BlockCapacityIsPositive DEF MaxNonce
<1>2. ServerTypeOK
  BY DEF Init, ServerTypeOK, Places
<1>3. \A r \in Requests : ProgressOf(r) /\ SuccessOf(r)
  <2>1. watched = [i \in TxIds |-> "unsent"]
    BY DEF Init, Node!NodeInit
  <2> QED
    BY <2>1 DEF Init, ProgressOf, SuccessOf, AddUserOf, TxIds
<1>4. FileOfTheDone
  BY DEF Init, FileOfTheDone, HasLine
<1> QED
  BY <1>1, <1>2, <1>3, <1>4 DEF ServerInv

LEMMA ServerInvariant == Spec => []ServerInv
BY ServerInit, ServerStep, PTL DEF Spec

-----------------------------------------------------------------------------
(* What the invariant says to the clients *)

\* server.js:613: the account is funded for good before its user is created.
\* Whatever crashes, arrives late or is refused, no add_user is in the chain
\* unless the transfer of its request is in a finalized block.
THEOREM ServerFundsFirst == Spec => []FundedFirst
<1>1. ServerInv => FundedFirst
  <2> SUFFICES ASSUME ServerInv, NEW r \in Requests,
                      Node!IsIncluded(AddUserOf(r)), body[r].kind # CreateUser
               PROVE  Node!IsFinalized(TransferOf(r))
    BY DEF FundedFirst
  <2>1. watched[AddUserOf(r)] = "accepted"
    <3>1. NodeP!IsIncluded(AddUserOf(r)) /\ AddUserOf(r) \in TxIds
      BY SameNode, RequestTypes
    <3> QED
      BY <3>1, NodeP!IncludedWasAccepted, EraIsPositive, BlockCapacityIsPositive DEF ServerInv, MaxNonce
  <2> QED
    BY <2>1, RequestTypes DEF ProgressOf
<1> QED
  BY <1>1, ServerInvariant, PTL

\* A client that was told 200 by an endpoint that creates users has its
\* add_user in a finalized block, and no later step takes that back.
THEOREM ServerSuccessIsFinal == Spec => []SuccessIsFinal
<1>1. ServerInv => SuccessIsFinal
  BY DEF ServerInv, SuccessIsFinal, SuccessOf
<1> QED
  BY <1>1, ServerInvariant, PTL

\* account_ids.txt has no line twice, and each line is an account generated by
\* a request whose add_user is final.
THEOREM ServerFileIsSound == Spec => []FileIsSound
<1>1. ServerInv => FileIsSound
  BY DEF ServerInv, FileOfTheDone, HasLine, FileIsSound
<1> QED
  BY <1>1, ServerInvariant, PTL

-----------------------------------------------------------------------------
(* A server with a key of its own                                          *)

\* The server keeps running, nobody else signs with its key, what it is asked
\* for can be encoded, and an era is longer than the transactions there are.
Exclusive ==
  /\ MaxCrashes = 0
  /\ ForeignTxs = {}
  /\ \A b \in Bodies : b.role # Unencodable /\ b.decodes
  /\ IsFiniteSet(TxIds) /\ Era > Cardinality(TxIds)

\* The transactions that were given a nonce.
Taken == {id \in TxIds : nonceOf[id] # NoNonce}

\* The server gave out the nonces below its counter, once each; what the node
\* holds it holds under the nonce given, and what was given one is either on
\* its way or held.
Ledger ==
  /\ \A id \in Taken : nonceOf[id] \in 0..(aliceNonce - 1)
  /\ \A i, j \in Taken : nonceOf[i] = nonceOf[j] => i = j
  /\ \A n \in 0..(aliceNonce - 1) : \E id \in Taken : nonceOf[id] = n
  /\ aliceNonce = Cardinality(Taken)
  /\ \A t \in NodeP!HeldTxs : t.id \in Taken /\ t.nonce = nonceOf[t.id]
  /\ \A id \in TxIds : watched[id] \in {"unsent", "accepted"}
  /\ \A id \in Taken : id \in OnTheWay \/ watched[id] = "accepted"
  /\ \A id \in OnTheWay : id \in Taken /\ watched[id] = "unsent"
  /\ Len(blocks) <= Len(chain)

\* Nothing was cut off, and a request that has not come yet took no nonce.
Undisturbed ==
  /\ up
  /\ \A r \in Requests : pc[r] = "idle" => TransferOf(r) \notin Taken

ExclusiveInv == ServerInv /\ Ledger /\ Undisturbed

LEMMA OnTheWayByPlace ==
  ASSUME NEW r \in Requests
  PROVE  /\ TransferOf(r) \in OnTheWay <=> pc[r] = "transferSigned"
         /\ AddUserOf(r) \in OnTheWay <=> pc[r] = "addUserSigned"
BY DEF OnTheWay, TransferOf, AddUserOf

LEMMA OnTheWayIsTx ==
  \A id \in OnTheWay : id \in TxIds
BY DEF OnTheWay, TransferOf, AddUserOf, TxIds

\* A signature: a transaction without a nonce gets the next one.
LEMMA TakeKeepsLedger ==
  ASSUME Exclusive, ServerInv, Ledger, NEW id \in TxIds, id \notin Taken,
         nonceOf' = [nonceOf EXCEPT ![id] = aliceNonce], aliceNonce' = aliceNonce + 1,
         OnTheWay' = OnTheWay \cup {id}, UNCHANGED nodeVars
  PROVE  Ledger' /\ Taken' = Taken \cup {id}
<1>1. aliceNonce \in Nat /\ nonceOf \in [TxIds -> Nat \cup {NoNonce}] /\ NoNonce \notin Nat
  BY DEF ServerInv, ServerTypeOK, NoNonce
<1>2. Taken' = Taken \cup {id}
  BY <1>1 DEF Taken
<1>3. nonceOf'[id] = aliceNonce /\ \A i \in Taken : nonceOf'[i] = nonceOf[i]
  BY <1>1 DEF Taken
<1>4. UNCHANGED <<ready, future, chain, blocks, watched>>
  BY DEF nodeVars, poolVars
<1>5. NodeP!HeldTxs' = NodeP!HeldTxs
  BY <1>4 DEF NodeP!HeldTxs
<1>6. \A i \in Taken' : nonceOf'[i] \in 0..(aliceNonce' - 1)
  BY <1>1, <1>2, <1>3 DEF Ledger
<1>7. \A i, j \in Taken' : nonceOf'[i] = nonceOf'[j] => i = j
  BY <1>1, <1>2, <1>3 DEF Ledger
<1>8. ASSUME NEW n \in 0..(aliceNonce' - 1) PROVE \E i \in Taken' : nonceOf'[i] = n
  <2>1. n \in 0..(aliceNonce - 1) \/ n = aliceNonce
    BY <1>1
  <2> QED
    BY <1>2, <1>3, <2>1 DEF Ledger
<1>9. aliceNonce' = Cardinality(Taken')
  <2>1. IsFiniteSet(Taken)
    BY FS_Subset DEF Exclusive, Taken
  <2> QED
    BY <1>2, <2>1, FS_AddElement DEF Ledger
<1>10. \A t \in NodeP!HeldTxs' : t.id \in Taken' /\ t.nonce = nonceOf'[t.id]
  BY <1>2, <1>3, <1>5 DEF Ledger
<1>11. watched[id] = "unsent"
  <2>1. watched[id] # "accepted"
    BY DEF Ledger, ServerInv, NodeP!NodeInv, NodeP!Agree
  <2> QED
    BY <2>1 DEF Ledger
<1>12. /\ \A i \in Taken' : i \in OnTheWay' \/ watched'[i] = "accepted"
       /\ \A i \in OnTheWay' : i \in Taken' /\ watched'[i] = "unsent"
  BY <1>2, <1>4, <1>11 DEF Ledger
<1>13. (\A i \in TxIds : watched'[i] \in {"unsent", "accepted"}) /\ Len(blocks') <= Len(chain')
  BY <1>4 DEF Ledger
<1> QED
  BY <1>2, <1>6, <1>7, <1>8, <1>9, <1>10, <1>12, <1>13 DEF Ledger

\* An arrival at the node: the nonce is the transaction's own, so that it is
\* accepted and displaces nothing.
LEMMA SendIsAccepted ==
  ASSUME ServerInv, Ledger, NEW id \in TxIds, id \in OnTheWay,
         NEW n \in Nat, n = nonceOf[id], NEW call \in Calls,
         Node!Submit(Node!Signed(id, n, call))
  PROVE  /\ UNCHANGED <<chain, blocks, finalized>>
         /\ \E t \in Node!Txs : /\ t.id = id /\ t.nonce = n
                                /\ NodeP!HeldTxs' = NodeP!HeldTxs \cup {t}
         /\ watched' = [watched EXCEPT ![id] = "accepted"]
<1>1. PICK t \in Node!Txs : t = Node!Signed(id, n, call) /\ t.id = id /\ t.nonce = n
  BY SignedIsTx DEF Node!Signed
<1>2. t \in NodeP!Txs /\ NodeP!Submit(t)
  BY <1>1, SameNode
<1>3. NodeP!Agree(NodeP!HeldTxs, watched) /\ NodeP!NodeInv
  BY DEF ServerInv, NodeP!NodeInv
<1>4. id \in Taken /\ watched[id] = "unsent" /\ Taken \subseteq TxIds
  BY DEF Ledger, Taken
<1>5. \A u \in NodeP!HeldTxs : u.id \in Taken /\ u.nonce = nonceOf[u.id] /\ watched[u.id] = "accepted"
  BY <1>3, <1>4 DEF Ledger, NodeP!Agree
<1>6. \A u \in NodeP!HeldTxs : u.nonce # t.nonce
  BY <1>1, <1>4, <1>5 DEF Ledger
<1>7. \A u, v \in NodeP!HeldTxs : u.nonce = v.nonce => u = v
  BY <1>3, <1>5 DEF Ledger, NodeP!Agree
<1>8. /\ UNCHANGED <<chain, blocks, finalized>>
      /\ NodeP!HeldTxs' = NodeP!HeldTxs \cup {t}
      /\ watched' = [watched EXCEPT ![id] = "accepted"]
  BY <1>1, <1>2, <1>3, <1>6, <1>7, NodeP!OwnNonceIsAccepted, EraIsPositive, BlockCapacityIsPositive DEF MaxNonce
<1> QED
  BY <1>1, <1>8

LEMMA SendKeepsLedger ==
  ASSUME ServerInv, Ledger, NEW id \in TxIds, id \in OnTheWay,
         NEW n \in Nat, n = nonceOf[id], NEW call \in Calls,
         Node!Submit(Node!Signed(id, n, call)),
         OnTheWay' = OnTheWay \ {id}, UNCHANGED <<nonceOf, aliceNonce>>
  PROVE  Ledger'
<1>1. /\ UNCHANGED <<chain, blocks, finalized>>
      /\ watched' = [watched EXCEPT ![id] = "accepted"]
  BY SendIsAccepted
<1>2. PICK t \in Node!Txs : t.id = id /\ t.nonce = n /\ NodeP!HeldTxs' = NodeP!HeldTxs \cup {t}
  BY SendIsAccepted
<1>3. id \in Taken /\ watched \in [TxIds -> NodeP!Watch] /\ Taken \subseteq TxIds
  BY DEF Ledger, Taken, ServerInv, NodeP!NodeInv, NodeP!NodeTypeOK
<1>4. watched'[id] = "accepted" /\ \A i \in TxIds : i # id => watched'[i] = watched[i]
  BY <1>1, <1>3
<1>5. Taken' = Taken
  BY DEF Taken
<1>6. \A u \in NodeP!HeldTxs' : u.id \in Taken /\ u.nonce = nonceOf[u.id]
  BY <1>2, <1>3 DEF Ledger
<1>7. /\ \A i \in TxIds : watched'[i] \in {"unsent", "accepted"}
      /\ \A i \in Taken : i \in OnTheWay' \/ watched'[i] = "accepted"
      /\ \A i \in OnTheWay' : i \in Taken /\ watched'[i] = "unsent"
  BY <1>3, <1>4 DEF Ledger
<1> QED
  BY <1>1, <1>5, <1>6, <1>7 DEF Ledger

LEMMA StayKeepsLedger ==
  ASSUME Ledger, UNCHANGED <<nonceOf, aliceNonce, watched>>, OnTheWay' = OnTheWay,
         NodeP!HeldTxs' = NodeP!HeldTxs, Len(blocks') <= Len(chain')
  PROVE  Ledger'
<1>1. Taken' = Taken
  BY DEF Taken
<1> QED
  BY <1>1 DEF Ledger

\* Without a nonce nothing was accepted, and with one an add_user that was not
\* sent is on its way.
LEMMA NotTakenYet ==
  ASSUME ServerInv, Ledger, NEW r \in Requests
  PROVE  /\ pc[r] \in {"idle", "sleeping", "transferSigned", "transferSent"}
              => AddUserOf(r) \notin Taken
         /\ watched[TransferOf(r)] # "error" /\ watched[AddUserOf(r)] # "error"
<1>1. AddUserOf(r) \in TxIds /\ TransferOf(r) \in TxIds
  BY RequestTypes
<1>2. pc[r] \in {"idle", "sleeping", "transferSigned", "transferSent"}
        => watched[AddUserOf(r)] = "unsent" /\ AddUserOf(r) \notin OnTheWay
  BY RequestTypes, OnTheWayByPlace DEF ProgressOf, BeforeAddUser
<1> QED
  BY <1>1, <1>2 DEF Ledger

\* How the transactions on their way change with the place of one request.
LEMMA OnTheWayMoves ==
  ASSUME NEW r \in Requests, \A q \in Requests : q # r => pc'[q] = pc[q]
  PROVE  /\ pc[r] \notin {"transferSigned", "addUserSigned"} /\ pc'[r] = "transferSigned"
              => OnTheWay' = OnTheWay \cup {TransferOf(r)}
         /\ pc[r] \notin {"transferSigned", "addUserSigned"} /\ pc'[r] = "addUserSigned"
              => OnTheWay' = OnTheWay \cup {AddUserOf(r)}
         /\ pc[r] = "transferSigned" /\ pc'[r] \notin {"transferSigned", "addUserSigned"}
              => OnTheWay' = OnTheWay \ {TransferOf(r)}
         /\ pc[r] = "addUserSigned" /\ pc'[r] \notin {"transferSigned", "addUserSigned"}
              => OnTheWay' = OnTheWay \ {AddUserOf(r)}
         /\ pc[r] \notin {"transferSigned", "addUserSigned"}
              => (pc'[r] \notin {"transferSigned", "addUserSigned"} => OnTheWay' = OnTheWay)
<1>1. \A x : x \in OnTheWay <=>
        \/ \E q \in Requests : pc[q] = "transferSigned" /\ x = <<q, "transfer">>
        \/ \E q \in Requests : pc[q] = "addUserSigned" /\ x = <<q, "addUser">>
  BY DEF OnTheWay, TransferOf, AddUserOf
<1>2. \A x : x \in OnTheWay' <=>
        \/ \E q \in Requests : pc'[q] = "transferSigned" /\ x = <<q, "transfer">>
        \/ \E q \in Requests : pc'[q] = "addUserSigned" /\ x = <<q, "addUser">>
  BY DEF OnTheWay, TransferOf, AddUserOf
<1> DEFINE still == pc[r] \notin {"transferSigned", "addUserSigned"}
           gone  == pc'[r] \notin {"transferSigned", "addUserSigned"}
<1>3. still /\ pc'[r] = "transferSigned" => OnTheWay' = OnTheWay \cup {<<r, "transfer">>}
  BY <1>1, <1>2
<1>4. still /\ pc'[r] = "addUserSigned" => OnTheWay' = OnTheWay \cup {<<r, "addUser">>}
  BY <1>1, <1>2
<1>5. pc[r] = "transferSigned" /\ gone => OnTheWay' = OnTheWay \ {<<r, "transfer">>}
  BY <1>1, <1>2
<1>6. pc[r] = "addUserSigned" /\ gone => OnTheWay' = OnTheWay \ {<<r, "addUser">>}
  BY <1>1, <1>2
<1>7. still => (gone => OnTheWay' = OnTheWay)
  BY <1>1, <1>2
<1>8. TransferOf(r) = <<r, "transfer">> /\ AddUserOf(r) = <<r, "addUser">>
  BY DEF TransferOf, AddUserOf
<1> QED
  BY <1>3, <1>4, <1>5, <1>6, <1>7, <1>8, Zenon

LEMMA ExclusiveArrive ==
  ASSUME Exclusive, ExclusiveInv, NEW r \in Requests, Arrive(r)
  PROVE  Ledger' /\ Undisturbed'
<1>1. pc[r] = "idle" /\ UNCHANGED <<up, nodeVars>>
  BY DEF Arrive, PostNoMnemonic, Exclusive
<1>2. \/ /\ pc' = [pc EXCEPT ![r] = "transferSigned"]
         /\ nonceOf' = [nonceOf EXCEPT ![TransferOf(r)] = aliceNonce]
         /\ aliceNonce' = aliceNonce + 1
      \/ /\ \/ pc' = [pc EXCEPT ![r] = "sleeping"]
            \/ pc' = [pc EXCEPT ![r] = "done"]
         /\ UNCHANGED <<aliceNonce, nonceOf>>
  BY DEF Arrive, PostDynamicGas, PostMnemonic, PostExisting, PostCreateUser, PostGrant,
       PostNoMnemonic, Exclusive, BeginTransfer, TakeNonce, Reply
<1>3. TransferOf(r) \in TxIds \ Taken
  BY <1>1, RequestTypes DEF ExclusiveInv, Undisturbed
<1>4. Ledger' /\ Taken' \subseteq Taken \cup {TransferOf(r)}
  <2>1. CASE nonceOf' = [nonceOf EXCEPT ![TransferOf(r)] = aliceNonce] /\ aliceNonce' = aliceNonce + 1
             /\ pc' = [pc EXCEPT ![r] = "transferSigned"]
    <3>0. pc'[r] = "transferSigned" /\ \A q \in Requests : q # r => pc'[q] = pc[q]
      BY <2>1 DEF ExclusiveInv, ServerInv, ServerTypeOK
    <3>1. OnTheWay' = OnTheWay \cup {TransferOf(r)}
      BY <1>1, <3>0, OnTheWayMoves
    <3> QED
      BY <1>1, <1>3, <2>1, <3>1, TakeKeepsLedger DEF ExclusiveInv
  <2>2. CASE UNCHANGED <<aliceNonce, nonceOf>>
             /\ (pc' = [pc EXCEPT ![r] = "sleeping"] \/ pc' = [pc EXCEPT ![r] = "done"])
    <3>0. pc'[r] \in {"sleeping", "done"} /\ \A q \in Requests : q # r => pc'[q] = pc[q]
      BY <2>2 DEF ExclusiveInv, ServerInv, ServerTypeOK
    <3>1. OnTheWay' = OnTheWay
      BY <1>1, <3>0, OnTheWayMoves
    <3>2. UNCHANGED <<watched, blocks, chain>> /\ NodeP!HeldTxs' = NodeP!HeldTxs
      BY <1>1 DEF nodeVars, poolVars, NodeP!HeldTxs
    <3>3. Taken' = Taken
      BY <2>2 DEF Taken
    <3> QED
      BY <2>2, <3>1, <3>2, <3>3, StayKeepsLedger DEF ExclusiveInv, Ledger
  <2> QED
    BY <1>2, <2>1, <2>2
<1>5. \A q \in Requests : pc'[q] = "idle" => q # r /\ pc[q] = "idle"
  BY <1>2 DEF ExclusiveInv, ServerInv, ServerTypeOK
<1> QED
  BY <1>1, <1>4, <1>5 DEF ExclusiveInv, Undisturbed, TransferOf

LEMMA ExclusiveBegin ==
  ASSUME Exclusive, ExclusiveInv, NEW r \in Requests, BeginAddUser(r),
         UNCHANGED <<up, body, nodeVars>>, pc[r] \in {"sleeping", "transferSent"}
  PROVE  Ledger' /\ Undisturbed'
<1>1. body[r].role # Unencodable
  BY RequestTypes DEF ExclusiveInv, ProgressOf, Exclusive
<1>2. /\ nonceOf' = [nonceOf EXCEPT ![AddUserOf(r)] = aliceNonce]
      /\ aliceNonce' = aliceNonce + 1
      /\ pc' = [pc EXCEPT ![r] = "addUserSigned"]
  BY <1>1 DEF BeginAddUser, TakeNonce
<1>3. AddUserOf(r) \in TxIds \ Taken
  BY RequestTypes, NotTakenYet DEF ExclusiveInv
<1>4. OnTheWay' = OnTheWay \cup {AddUserOf(r)}
  <2>1. pc'[r] = "addUserSigned" /\ \A q \in Requests : q # r => pc'[q] = pc[q]
    BY <1>2 DEF ExclusiveInv, ServerInv, ServerTypeOK
  <2> QED
    BY <2>1, OnTheWayMoves
<1>5. Ledger' /\ Taken' = Taken \cup {AddUserOf(r)}
  BY <1>2, <1>3, <1>4, TakeKeepsLedger DEF ExclusiveInv
<1>6. \A q \in Requests : pc'[q] = "idle" => pc[q] = "idle"
  BY <1>2 DEF ExclusiveInv, ServerInv, ServerTypeOK
<1> QED
  BY <1>5, <1>6 DEF ExclusiveInv, Undisturbed, TransferOf, AddUserOf

LEMMA ExclusiveSendTransfer ==
  ASSUME Exclusive, ExclusiveInv, NEW r \in Requests, SendTransfer(r)
  PROVE  Ledger' /\ Undisturbed'
<1>1. /\ pc[r] = "transferSigned"
      /\ \/ pc' = [pc EXCEPT ![r] = "done"]
         \/ pc' = [pc EXCEPT ![r] = "transferSent"]
      /\ UNCHANGED <<aliceNonce, up, nonceOf>>
  BY DEF SendTransfer, Reply
<1>2. PICK id \in TxIds, n \in Nat, call \in Calls :
        id = TransferOf(r) /\ n = nonceOf[TransferOf(r)] /\ call = [method |-> "transfer"]
  BY <1>1, RequestTypes, TransferIsCall DEF ProgressOf, ExclusiveInv
<1>3. Node!Submit(Node!Signed(id, n, call))
  BY <1>2 DEF SendTransfer
<1>4. OnTheWay' = OnTheWay \ {id} /\ id \in OnTheWay
  <2>1. pc'[r] \in {"done", "transferSent"} /\ \A q \in Requests : q # r => pc'[q] = pc[q]
    BY <1>1 DEF ExclusiveInv, ServerInv, ServerTypeOK
  <2>2. OnTheWay' = OnTheWay \ {TransferOf(r)} /\ TransferOf(r) \in OnTheWay
    BY <1>1, <2>1, OnTheWayMoves, OnTheWayByPlace
  <2> QED
    BY <1>2, <2>2
<1>5. Ledger'
  BY <1>1, <1>2, <1>3, <1>4, SendKeepsLedger DEF ExclusiveInv
<1>6. \A q \in Requests : pc'[q] = "idle" => pc[q] = "idle"
  BY <1>1 DEF ExclusiveInv, ServerInv, ServerTypeOK
<1>7. Taken' = Taken
  BY <1>1 DEF Taken
<1> QED
  BY <1>1, <1>5, <1>6, <1>7 DEF ExclusiveInv, Undisturbed, TransferOf

\* The submission is accepted, so the process does not end.
LEMMA ExclusiveSendAddUser ==
  ASSUME Exclusive, ExclusiveInv, NEW r \in Requests, SendAddUser(r)
  PROVE  Ledger' /\ Undisturbed'
<1>1. pc[r] = "addUserSigned"
  BY DEF SendAddUser
<1>2. PICK id \in TxIds, n \in Nat, call \in Calls :
        /\ id = AddUserOf(r) /\ n = nonceOf[AddUserOf(r)]
        /\ call = [method |-> "add_user", account |-> AccountOf(r, body[r]),
                   info |-> InfoOf(body[r]), role |-> body[r].role]
  <2>1. nonceOf[AddUserOf(r)] \in Nat /\ AddUserOf(r) \in TxIds
    BY <1>1, RequestTypes DEF ProgressOf, ExclusiveInv
  <2>2. ServerInv
    BY DEF ExclusiveInv
  <2> QED
    BY <1>1, <2>1, <2>2, AddUserIsCall, Zenon
<1>3. Node!Submit(Node!Signed(id, n, call))
  BY <1>2 DEF SendAddUser
<1>4. id \in OnTheWay
  BY <1>1, <1>2, OnTheWayByPlace
<1>5. watched'[id] = "accepted"
  <2>1. watched' = [watched EXCEPT ![id] = "accepted"]
    BY <1>2, <1>3, <1>4, SendIsAccepted DEF ExclusiveInv
  <2> QED
    BY <2>1 DEF ExclusiveInv, ServerInv, NodeP!NodeInv, NodeP!NodeTypeOK
<1>6. pc' = [pc EXCEPT ![r] = "addUserSent"] /\ UNCHANGED <<aliceNonce, up, nonceOf>>
  BY <1>2, <1>5 DEF SendAddUser
<1>7. OnTheWay' = OnTheWay \ {id}
  <2>1. pc'[r] = "addUserSent" /\ \A q \in Requests : q # r => pc'[q] = pc[q]
    BY <1>6 DEF ExclusiveInv, ServerInv, ServerTypeOK
  <2>2. OnTheWay' = OnTheWay \ {AddUserOf(r)}
    BY <1>1, <2>1, OnTheWayMoves
  <2> QED
    BY <1>2, <2>2
<1>8. Ledger'
  BY <1>2, <1>3, <1>4, <1>6, <1>7, SendKeepsLedger DEF ExclusiveInv
<1>9. \A q \in Requests : pc'[q] = "idle" => pc[q] = "idle"
  BY <1>6 DEF ExclusiveInv, ServerInv, ServerTypeOK
<1>10. Taken' = Taken
  BY <1>6 DEF Taken
<1> QED
  BY <1>6, <1>8, <1>9, <1>10 DEF ExclusiveInv, Undisturbed, TransferOf

\* The callbacks at the end of a request touch no nonce and no transaction.
LEMMA ExclusiveCallback ==
  ASSUME Exclusive, ExclusiveInv, NEW r \in Requests,
         TransferError(r) \/ AddUserFinalized(r) \/ AddUserNeverSettles(r)
  PROVE  Ledger' /\ Undisturbed'
<1>1. /\ pc[r] \in {"transferSent", "addUserSent"}
      /\ pc' = [pc EXCEPT ![r] = "done"] \/ pc' = [pc EXCEPT ![r] = "stuck"]
      /\ UNCHANGED <<aliceNonce, up, nonceOf, nodeVars>>
  BY DEF TransferError, AddUserFinalized, AddUserNeverSettles, Reply
<1>2. OnTheWay' = OnTheWay
  <2>1. pc'[r] \in {"done", "stuck"} /\ \A q \in Requests : q # r => pc'[q] = pc[q]
    BY <1>1 DEF ExclusiveInv, ServerInv, ServerTypeOK
  <2> QED
    BY <1>1, <2>1, OnTheWayMoves
<1>3. UNCHANGED <<watched, blocks, chain>> /\ NodeP!HeldTxs' = NodeP!HeldTxs
  BY <1>1 DEF nodeVars, poolVars, NodeP!HeldTxs
<1>4. Ledger'
  BY <1>1, <1>2, <1>3, StayKeepsLedger DEF ExclusiveInv, Ledger
<1>5. \A q \in Requests : pc'[q] = "idle" => pc[q] = "idle"
  BY <1>1 DEF ExclusiveInv, ServerInv, ServerTypeOK
<1>6. Taken' = Taken
  BY <1>1 DEF Taken
<1> QED
  BY <1>1, <1>4, <1>5, <1>6 DEF ExclusiveInv, Undisturbed, TransferOf

\* There are fewer blocks than an era has, so nothing parked expires.
LEMMA NothingExpires ==
  ASSUME Exclusive, ExclusiveInv
  PROVE  ~ ExpireTx
<1> SUFFICES ASSUME NEW t \in future, Node!Expire(t) PROVE FALSE
  BY DEF ExpireTx
<1>1. /\ chain \in Seq(NodeP!Txs) /\ blocks \in Seq(0..Len(chain)) /\ t.born \in Nat
      /\ Len(chain) \in Nat /\ Len(blocks) \in Nat
  BY DEF ExclusiveInv, ServerInv, NodeP!NodeInv, NodeP!NodeTypeOK, NodeP!AccountNonce, NodeP!Txs
<1>2. aliceNonce \in Nat /\ aliceNonce = Cardinality(Taken) /\ Len(blocks) <= Len(chain)
  BY DEF ExclusiveInv, ServerInv, ServerTypeOK, Ledger
<1>3. aliceNonce <= Cardinality(TxIds) /\ Cardinality(TxIds) \in Nat
  <2>1. Taken \subseteq TxIds
    BY DEF Taken
  <2> QED
    BY <1>2, <2>1, FS_Subset, FS_CardinalityType DEF Exclusive
<1>4. Len(chain) <= aliceNonce
  <2> SUFFICES ASSUME Len(chain) # 0 PROVE Len(chain) <= aliceNonce
    BY <1>1, <1>2
  <2>1. Len(chain) \in 1..Len(chain)
    BY <1>1
  <2>2. chain[Len(chain)] \in NodeP!HeldTxs
    BY <1>1, <2>1 DEF NodeP!HeldTxs, NodeP!ToSet
  <2>3. chain[Len(chain)].nonce = Len(chain) - 1
    BY <2>1 DEF ExclusiveInv, ServerInv, NodeP!NodeInv, NodeP!NonceOrder
  <2>4. chain[Len(chain)].nonce \in 0..(aliceNonce - 1)
    BY <2>2 DEF ExclusiveInv, Ledger
  <2> QED
    BY <1>1, <1>2, <2>3, <2>4
<1>5. Len(blocks) >= t.born + Era
  BY DEF Node!Expire
<1> QED
  BY <1>1, <1>2, <1>3, <1>4, <1>5, EraIsPositive DEF Exclusive

LEMMA ExclusiveNode ==
  ASSUME Exclusive, ExclusiveInv, SealBlock \/ FinalizeBlock \/ UNCHANGED vars
  PROVE  Ledger' /\ Undisturbed'
<1>1. UNCHANGED <<aliceNonce, up, pc, nonceOf>>
  BY DEF SealBlock, FinalizeBlock, vars, apiVars
<1>2. UNCHANGED watched /\ NodeP!HeldTxs' = NodeP!HeldTxs
  <2>1. CASE UNCHANGED vars
    BY <2>1 DEF vars, nodeVars, poolVars, NodeP!HeldTxs
  <2> QED
    BY <2>1, BlockIsSeal, SealMoves, FinalizeMoves DEF SealBlock, FinalizeBlock, ExclusiveInv, ServerInv
<1>3. Len(blocks') <= Len(chain')
  <2>1. /\ ready \in Seq(NodeP!Txs) /\ chain \in Seq(NodeP!Txs)
        /\ blocks \in Seq(0..Len(chain)) /\ Len(blocks) <= Len(chain)
    BY DEF ExclusiveInv, ServerInv, NodeP!NodeInv, NodeP!NodeTypeOK, NodeP!AccountNonce, Ledger
  <2>2. ASSUME NEW k \in Node!BlockLengths, Node!SealFirst(k)
        PROVE  Len(blocks') <= Len(chain')
    <3>1. /\ chain' = chain \o SubSeq(ready, 1, k)
          /\ blocks' = IF ready = <<>> THEN blocks ELSE Append(blocks, Node!AccountNonce + k)
      BY <2>2 DEF Node!SealFirst
    <3>2. k \in 0..Len(ready) /\ (ready # <<>> => k > 0) /\ Len(ready) \in Nat
      BY <2>1, BlockCapacityIsPositive DEF Node!BlockLengths
    <3>3. SubSeq(ready, 1, k) \in Seq(NodeP!Txs) /\ Len(SubSeq(ready, 1, k)) = k
      BY <2>1, <3>2
    <3>4. Len(chain') = Len(chain) + k
      BY <2>1, <3>1, <3>3
    <3>5. Len(blocks') = Len(blocks) + (IF ready = <<>> THEN 0 ELSE 1)
          /\ Len(blocks) \in Nat /\ Len(chain) \in Nat
      BY <2>1, <3>1
    <3> QED
      BY <2>1, <3>2, <3>4, <3>5
  <2>3. CASE UNCHANGED <<chain, blocks>>
    BY <2>1, <2>3
  <2> QED
    BY <2>2, <2>3 DEF SealBlock, FinalizeBlock, Node!FinalizeSome, Node!Finalize, vars, nodeVars
<1>4. OnTheWay' = OnTheWay /\ Taken' = Taken
  BY <1>1 DEF OnTheWay, Taken, TransferOf, AddUserOf
<1>5. Ledger'
  BY <1>1, <1>2, <1>3, <1>4, StayKeepsLedger DEF ExclusiveInv
<1> QED
  BY <1>1, <1>4, <1>5 DEF ExclusiveInv, Undisturbed, TransferOf

LEMMA ExclusiveStep ==
  ASSUME Exclusive, ExclusiveInv, [Next]_vars
  PROVE  ExclusiveInv'
<1>1. ServerInv'
  BY ServerStep DEF ExclusiveInv
<1>2. ~ Crash /\ ~ Restart
  BY DEF Crash, Restart, Exclusive, ExclusiveInv, ServerInv, ServerTypeOK, Undisturbed
<1>3. ASSUME NEW r \in Requests, Step(r) PROVE Ledger' /\ Undisturbed'
  BY <1>3, ExclusiveBegin, ExclusiveSendTransfer, ExclusiveSendAddUser, ExclusiveCallback
     DEF Step, WakeUp, TransferFinalized
<1>4. Ledger' /\ Undisturbed'
  BY <1>2, <1>3, ExclusiveArrive, NothingExpires, ExclusiveNode DEF Next, Exclusive
<1> QED
  BY <1>1, <1>4 DEF ExclusiveInv

LEMMA ExclusiveInit ==
  ASSUME Exclusive, Init
  PROVE  ExclusiveInv
<1>1. nonceOf = [id \in TxIds |-> NoNonce] /\ aliceNonce = 0 /\ up = TRUE
  BY DEF Init
<1>2. Taken = {}
  BY <1>1 DEF Taken
<1>3. OnTheWay = {}
  BY DEF Init, OnTheWay
<1>4. NodeP!HeldTxs = {} /\ chain = <<>> /\ blocks = <<>>
      /\ watched = [id \in TxIds |-> "unsent"]
  BY DEF Init, Node!NodeInit, NodeP!HeldTxs, NodeP!ToSet
<1>5. Ledger
  BY <1>1, <1>2, <1>3, <1>4, FS_EmptySet DEF Ledger
<1> QED
  BY <1>1, <1>2, <1>5, ServerInit DEF ExclusiveInv, Undisturbed

LEMMA ExclusiveInvariant ==
  ASSUME Exclusive
  PROVE  Spec => []ExclusiveInv
<1>1. Init => ExclusiveInv
  BY ExclusiveInit
<1>2. ExclusiveInv /\ [Next]_vars => ExclusiveInv'
  BY ExclusiveStep
<1> QED
  BY <1>1, <1>2, PTL DEF Spec

\* With a key of its own and a node that keeps running, the server never has a
\* transaction rejected, usurped or dropped, in whatever order they arrive:
\* for any number of requests at a time.
THEOREM ServerNothingIsRefused ==
  ASSUME Exclusive
  PROVE  Spec => []NothingIsRefused
<1>1. ExclusiveInv => NothingIsRefused
  BY DEF ExclusiveInv, Ledger, NothingIsRefused
<1> QED
  BY <1>1, ExclusiveInvariant, PTL

\* The local counter is as good as asking the node (server.js:105-110): the
\* nonces between the account's nonce on chain and the counter are held, once
\* each, by the transactions in the pool and those on their way.
THEOREM ServerNonceLedger ==
  ASSUME Exclusive
  PROVE  Spec => []NonceLedger
<1>1. ExclusiveInv => NonceLedger
  <2> SUFFICES ASSUME ExclusiveInv PROVE NonceLedger
    OBVIOUS
  <2> DEFINE waiting == OnTheWay \cup {t.id : t \in Held}
  <2>1. /\ chain \in Seq(NodeP!Txs) /\ ready \in Seq(NodeP!Txs) /\ future \subseteq NodeP!Txs
        /\ Len(chain) \in Nat /\ Len(ready) \in Nat /\ aliceNonce \in Nat
    BY DEF ExclusiveInv, ServerInv, ServerTypeOK, NodeP!NodeInv, NodeP!NodeTypeOK
  <2>2. NodeP!HeldTxs = NodeP!ToSet(chain) \cup Held
    BY DEF NodeP!HeldTxs, Held, ToSet, NodeP!ToSet
  <2>3. \A i \in waiting : i \in Taken
    BY <2>2 DEF ExclusiveInv, Ledger
  <2>4. \A t \in Held : t.nonce = nonceOf[t.id] /\ t.nonce >= Len(chain)
    <3>1. \A t \in future : t.nonce >= Len(chain)
      BY <2>1 DEF ExclusiveInv, ServerInv, NodeP!NodeInv, NodeP!NonceOrder, NodeP!Txs
    <3>2. \A i \in 1..Len(ready) : ready[i].nonce >= Len(chain)
      BY <2>1 DEF ExclusiveInv, ServerInv, NodeP!NodeInv, NodeP!NonceOrder
    <3>3. \A t \in Held : t.nonce >= Len(chain)
      BY <2>1, <3>1, <3>2 DEF Held, ToSet
    <3> QED
      BY <2>2, <3>3 DEF ExclusiveInv, Ledger
  <2>5. ASSUME NEW i \in 1..Len(chain)
        PROVE  /\ chain[i] \in NodeP!HeldTxs /\ chain[i].nonce = i - 1
               /\ chain[i].id \in Taken /\ nonceOf[chain[i].id] = i - 1
               /\ chain[i].id \in TxIds /\ watched[chain[i].id] = "accepted"
    <3>0. chain[i] \in NodeP!Txs
      BY <2>1
    <3>1. chain[i] \in NodeP!HeldTxs /\ chain[i].id \in TxIds
      <4>1. chain[i] \in NodeP!ToSet(chain)
        BY <2>1 DEF NodeP!ToSet
      <4> QED
        BY <3>0, <4>1 DEF NodeP!HeldTxs, NodeP!Txs
    <3>2. chain[i].nonce = i - 1
      BY DEF ExclusiveInv, ServerInv, NodeP!NodeInv, NodeP!NonceOrder
    <3> QED
      BY <3>1, <3>2 DEF ExclusiveInv, ServerInv, Ledger, NodeP!NodeInv, NodeP!Agree
  <2>6. ASSUME NEW i \in OnTheWay PROVE nonceOf[i] >= Len(chain)
    <3>1. i \in Taken /\ watched[i] = "unsent" /\ nonceOf[i] \in 0..(aliceNonce - 1)
      BY DEF ExclusiveInv, Ledger
    <3>2. SUFFICES ASSUME nonceOf[i] < Len(chain) PROVE FALSE
      BY <2>1, <3>1
    <3>3. nonceOf[i] + 1 \in 1..Len(chain) /\ (nonceOf[i] + 1) - 1 = nonceOf[i]
      BY <2>1, <3>1, <3>2
    <3>4. chain[nonceOf[i] + 1].id = i
      BY <2>5, <3>1, <3>3 DEF ExclusiveInv, Ledger
    <3> QED
      BY <2>5, <3>1, <3>3, <3>4
  <2>7. \A i \in waiting : nonceOf[i] \in Len(chain)..(aliceNonce - 1)
    <3>1. \A i \in waiting : nonceOf[i] \in 0..(aliceNonce - 1)
      BY <2>3 DEF ExclusiveInv, Ledger
    <3>2. \A i \in waiting : nonceOf[i] >= Len(chain)
      BY <2>4, <2>6
    <3> QED
      BY <2>1, <3>1, <3>2
  <2>8. ASSUME NEW n \in Len(chain)..(aliceNonce - 1) PROVE \E i \in waiting : nonceOf[i] = n
    <3>1. PICK i \in Taken : nonceOf[i] = n
      BY <2>1 DEF ExclusiveInv, Ledger
    <3>2. CASE i \in OnTheWay
      BY <3>1, <3>2
    <3>3. CASE watched[i] = "accepted"
      <4>1. PICK t \in NodeP!HeldTxs : t.id = i
        BY <3>3 DEF Taken, ExclusiveInv, ServerInv, NodeP!NodeInv, NodeP!Agree
      <4>2. t.nonce = n
        BY <3>1, <4>1 DEF ExclusiveInv, Ledger
      <4>3. t \notin NodeP!ToSet(chain)
        <5>1. \A k \in 1..Len(chain) : chain[k].nonce # n
          BY <2>1, <2>5
        <5> QED
          BY <2>1, <4>2, <5>1 DEF NodeP!ToSet
      <4> QED
        BY <2>2, <3>1, <4>1, <4>3
    <3> QED
      BY <3>1, <3>2, <3>3 DEF ExclusiveInv, Ledger
  <2>9. \A i, j \in waiting : nonceOf[i] = nonceOf[j] => i = j
    BY <2>3 DEF ExclusiveInv, Ledger
  <2> HIDE DEF waiting
  <2>10. {nonceOf[i] : i \in waiting} = Len(chain)..(aliceNonce - 1)
    BY <2>7, <2>8
  <2> QED
    BY <2>9, <2>10 DEF NonceLedger, waiting, Node!AccountNonce
<1> QED
  BY <1>1, ExclusiveInvariant, PTL

-----------------------------------------------------------------------------
(* What the contract stores *)

\* The add_user that a request signs.
CallOf(r) ==
  [method |-> "add_user", account |-> AccountOf(r, body[r]), info |-> InfoOf(body[r]),
   role |-> body[r].role]

\* Where a transaction comes from: a request's transfer, another wallet, or a
\* request's add_user.
Asked(t) ==
  \/ \E r \in Requests : t.id = TransferOf(r) /\ t.call.method = "transfer"
  \/ \E i \in ForeignTxs : t.id = <<i, "foreign">>
  \/ \E r \in Requests : t.id = AddUserOf(r) /\ pc[r] # "idle" /\ t.call = CallOf(r)

\* The contract took the user of a request, under the account generated for it.
TakenIn(ok, r) == AddUserOf(r) \in ok /\ AccountOf(r, body[r]) = r

\* Each record comes from one of the successful calls of add_user, and every
\* one of them left a record.  T is what the chain holds.
RecordsAreAsked(st, ok, T) ==
  \A a \in Accounts :
    LET asked == Registrations(T, ok, a) IN
      IF st.users[a] = NoUser THEN asked = {}
      ELSE \E t \in asked : t.call.info = st.users[a]

\* A generated account has its slot and its role once the contract took it, and
\* neither before, unless somebody else named it to the contract.
SlotOf(st, ok, T, r) ==
  ~MeddledWith(T, ok, r) =>
    /\ TakenIn(ok, r) =>
         r \in Contract!HoldersOf(st, body[r].dni) /\ st.roles[r] = body[r].role
    /\ ~TakenIn(ok, r) =>
         /\ \A d \in Contract!AllDnis : r \notin Contract!HoldersOf(st, d)
         /\ st.roles[r] = NoRole

\* The contract's storage and the successful dispatches, before a block and
\* between its extrinsics.
Sound(acc, T) ==
  /\ acc \in [storage : Contract!Storage, ok : SUBSET TxIds]
  /\ \A id \in acc.ok : \E t \in T : t.id = id
  /\ \A r \in Requests : AddUserOf(r) \in acc.ok => pc[r] # "idle" /\ body[r] \in Bodies
  /\ RecordsAreAsked(acc.storage, acc.ok, T)
  /\ \A r \in Requests : SlotOf(acc.storage, acc.ok, T, r)

\* Transactions as a chain holds them: told by their ids.
Told(T) == T \subseteq Node!Txs /\ \A t, u \in T : t.id = u.id => t = u

ContractInv ==
  /\ Sound([storage |-> storage, ok |-> dispatched], ToSet(chain))
  /\ \A t \in NodeP!HeldTxs : Asked(t)

\* An accepted add_user writes one record and one role, and adds the account to
\* the holders of one DNI, which had a free slot.
LEMMA AddUserWrites ==
  ASSUME NEW st \in Contract!Storage, NEW a \in Accounts, NEW info \in Contract!UserInfo,
         NEW role \in Roles, Contract!AddUserAccepted(st, info, role),
         NEW n, n = Contract!AddUserStorage(st, a, info, role)
  PROVE  /\ n \in Contract!Storage
         /\ n.users[a] = info /\ \A b \in Accounts : b # a => n.users[b] = st.users[b]
         /\ n.roles[a] = role /\ \A b \in Accounts : b # a => n.roles[b] = st.roles[b]
         /\ \A d \in Contract!AllDnis : \A x \in Accounts :
              x \in Contract!HoldersOf(n, d)
                <=> x \in Contract!HoldersOf(st, d) \/ (x = a /\ d = info.dni)
<1> DEFINE k == Contract!FreeSlot(st, info.dni)
<1>1. info.dni \in Contract!AllDnis /\ k \in Contract!Slots
  BY DEF Contract!UserInfo, Contract!AllDnis, Contract!FreeSlot, Contract!Slots
<1>2. st.accounts[info.dni][k] = None
  <2>1. PICK i \in Contract!Slots : st.accounts[info.dni][i] = None
    BY DEF Contract!AddUserAccepted
  <2> QED
    BY <2>1 DEF Contract!FreeSlot, Contract!Slots
<1> HIDE DEF k
<1>3. /\ n \in Contract!Storage
      /\ n.users[a] = info /\ \A b \in Accounts : b # a => n.users[b] = st.users[b]
      /\ n.roles[a] = role /\ \A b \in Accounts : b # a => n.roles[b] = st.roles[b]
      /\ n.accounts[info.dni][k] = a
      /\ \A d \in Contract!AllDnis : \A i \in Contract!Slots :
           (d # info.dni \/ i # k) => n.accounts[d][i] = st.accounts[d][i]
  BY <1>1 DEF Contract!Storage, Contract!AddUserStorage, k
<1>4. ASSUME NEW d \in Contract!AllDnis, NEW x \in Accounts
      PROVE  x \in Contract!HoldersOf(n, d)
               <=> x \in Contract!HoldersOf(st, d) \/ (x = a /\ d = info.dni)
  <2>1. x # None
    BY AbsenceIsDistinct
  <2>2. x \in Contract!HoldersOf(n, d) <=> \E i \in Contract!Slots : n.accounts[d][i] = x
    BY <2>1 DEF Contract!HoldersOf
  <2>3. x \in Contract!HoldersOf(st, d) <=> \E i \in Contract!Slots : st.accounts[d][i] = x
    BY <2>1 DEF Contract!HoldersOf
  <2> QED
    BY <1>1, <1>2, <1>3, <2>1, <2>2, <2>3
<1> QED
  BY <1>3, <1>4

\* Accounts that requests name are none of the generated ones.
LEMMA AccountsOfRequests ==
  ASSUME NEW r \in Requests, body[r] \in Bodies
  PROVE  /\ AccountOf(r, body[r]) \in Accounts
         /\ \A q \in Requests : AccountOf(r, body[r]) = q => q = r
         /\ InfoOf(body[r]).dni = body[r].dni /\ body[r].dni \in Contract!AllDnis
<1>1. body[r].account \in NamedAccounts /\ body[r].dni \in Dnis \cup OddDnis
  BY BodiesHaveShape DEF BodyShape
<1>2. AccountOf(r, body[r]) \in {r, ZeroAccount} \cup NamedAccounts
  BY <1>1 DEF AccountOf
<1> QED
  BY <1>1, <1>2, GeneratedAreFresh DEF Accounts, InfoOf, Contract!AllDnis

\* Whose transaction an id names.
LEMMA IdsAreTold ==
  /\ \A q, r \in Requests : AddUserOf(q) = AddUserOf(r) => q = r
  /\ \A q, r \in Requests : TransferOf(q) # AddUserOf(r)
  /\ \A i \in ForeignTxs, r \in Requests : <<i, "foreign">> # AddUserOf(r)
BY DEF AddUserOf, TransferOf

\* One more success: it is told from the others by its id.
LEMMA OneMoreSuccess ==
  ASSUME NEW T, Told(T), NEW t \in T, NEW ok, NEW now, now = ok \cup {t.id}
  PROVE  /\ \A a : Registrations(T, now, a) =
                   Registrations(T, ok, a)
                     \cup (IF t.call.method = "add_user" /\ t.call.account = a THEN {t} ELSE {})
         /\ \A a : MeddledWith(T, ok, a) => MeddledWith(T, now, a)
         /\ \A a : IsForeign(t) /\ t.call.method \in {"add_user", "assign_role"}
                    /\ t.call.account = a => MeddledWith(T, now, a)
<1>1. \A u \in T : u.id \in now <=> u.id \in ok \/ u = t
  BY DEF Told
<1>2. ASSUME NEW a
      PROVE  Registrations(T, now, a) =
               Registrations(T, ok, a)
                 \cup (IF t.call.method = "add_user" /\ t.call.account = a THEN {t} ELSE {})
  BY <1>1 DEF Registrations
<1> QED
  BY <1>1, <1>2 DEF MeddledWith

\* A longer chain says nothing new of what has succeeded before.
LEMMA LongerChainIsSound ==
  ASSUME NEW acc, NEW S, NEW T, S \subseteq T, Told(T), Sound(acc, S)
  PROVE  Sound(acc, T)
<1>1. \A t \in T : t.id \in acc.ok => t \in S
  BY DEF Sound, Told
<1>2. \A a : Registrations(T, acc.ok, a) = Registrations(S, acc.ok, a)
  BY <1>1 DEF Registrations
<1>3. \A a : MeddledWith(S, acc.ok, a) => MeddledWith(T, acc.ok, a)
  BY DEF MeddledWith
<1>4. RecordsAreAsked(acc.storage, acc.ok, T)
  BY <1>2 DEF Sound, RecordsAreAsked
<1>5. \A r \in Requests : SlotOf(acc.storage, acc.ok, T, r)
  BY <1>3 DEF Sound, SlotOf
<1> QED
  BY <1>4, <1>5 DEF Sound

\* A success other than of add_user, from a request or from another wallet,
\* may at most give an account another role.
LEMMA OtherKeepsSound ==
  ASSUME NEW acc, NEW T, Told(T), Sound(acc, T), NEW t \in T,
         t.call.method # "add_user", \A r \in Requests : t.id # AddUserOf(r),
         NEW n, n.storage \in Contract!Storage, n.ok = acc.ok \cup {t.id},
         n \in [storage : Contract!Storage, ok : SUBSET TxIds],
         n.storage.users = acc.storage.users, n.storage.accounts = acc.storage.accounts,
         \A r \in Requests : \/ n.storage.roles[r] = acc.storage.roles[r]
                             \/ MeddledWith(T, n.ok, r)
  PROVE  Sound(n, T)
<1>1. \A r \in Requests : AddUserOf(r) \in n.ok <=> AddUserOf(r) \in acc.ok
  OBVIOUS
<1>2. /\ \A a : Registrations(T, n.ok, a) = Registrations(T, acc.ok, a)
      /\ \A a : MeddledWith(T, acc.ok, a) => MeddledWith(T, n.ok, a)
  <2>1. PICK ok, now : ok = acc.ok /\ now = n.ok
    OBVIOUS
  <2>2. /\ \A a : Registrations(T, now, a) =
                  Registrations(T, ok, a)
                    \cup (IF t.call.method = "add_user" /\ t.call.account = a THEN {t} ELSE {})
        /\ \A a : MeddledWith(T, ok, a) => MeddledWith(T, now, a)
    BY <2>1, OneMoreSuccess
  <2>3. \A a : Registrations(T, now, a) = Registrations(T, ok, a)
    BY <2>2
  <2> QED
    BY <2>1, <2>2, <2>3
<1>3. RecordsAreAsked(n.storage, n.ok, T)
  <2> SUFFICES ASSUME NEW a \in Accounts
               PROVE  IF n.storage.users[a] = NoUser THEN Registrations(T, n.ok, a) = {}
                      ELSE \E u \in Registrations(T, n.ok, a) : u.call.info = n.storage.users[a]
    BY DEF RecordsAreAsked
  <2>1. IF acc.storage.users[a] = NoUser THEN Registrations(T, acc.ok, a) = {}
        ELSE \E u \in Registrations(T, acc.ok, a) : u.call.info = acc.storage.users[a]
    BY DEF Sound, RecordsAreAsked
  <2>2. n.storage.users[a] = acc.storage.users[a]
    OBVIOUS
  <2>3. Registrations(T, n.ok, a) = Registrations(T, acc.ok, a)
    BY <1>2
  <2> QED
    BY <2>1, <2>2, <2>3, Zenon
<1>4. ASSUME NEW r \in Requests PROVE SlotOf(n.storage, n.ok, T, r)
  <2>1. SlotOf(acc.storage, acc.ok, T, r) /\ (TakenIn(n.ok, r) <=> TakenIn(acc.ok, r))
    BY <1>1 DEF Sound, TakenIn
  <2>2. \A d : Contract!HoldersOf(n.storage, d) = Contract!HoldersOf(acc.storage, d)
    BY DEF Contract!HoldersOf
  <2> QED
    BY <1>2, <2>1, <2>2 DEF SlotOf
<1>5. \A id \in n.ok : \E u \in T : u.id = id
  BY DEF Sound
<1>6. \A r \in Requests : AddUserOf(r) \in n.ok => pc[r] # "idle" /\ body[r] \in Bodies
  BY <1>1 DEF Sound
<1> QED
  BY <1>3, <1>4, <1>5, <1>6 DEF Sound

\* A user whom the contract takes, asked for by a request or by another wallet.
LEMMA AddUserKeepsSound ==
  ASSUME NEW acc, NEW T, Told(T), Sound(acc, T), NEW t \in T, t.id \in TxIds,
         NEW a \in Accounts, NEW info \in Infos, NEW role \in Roles,
         t.call = [method |-> "add_user", account |-> a, info |-> info, role |-> role],
         \/ IsForeign(t) /\ \A r \in Requests : t.id # AddUserOf(r)
         \/ \E q \in Requests : t.id = AddUserOf(q) /\ pc[q] # "idle" /\ body[q] \in Bodies
                               /\ t.call = CallOf(q),
         Contract!AddUserAccepted(acc.storage, info, role),
         NEW n, n = [storage |-> Contract!AddUserStorage(acc.storage, a, info, role),
                     ok |-> acc.ok \cup {t.id}]
  PROVE  Sound(n, T)
<1> DEFINE st == acc.storage
           nst == n.storage
<1>1. st \in Contract!Storage /\ acc.ok \in SUBSET TxIds
  BY DEF Sound
<1>2. info \in Contract!UserInfo /\ info # NoUser
  BY AbsenceIsDistinct DEF Infos, Contract!UserInfo
<1>3. /\ t.call.method = "add_user" /\ t.call.account = a
      /\ t.call.info = info /\ t.call.role = role
  OBVIOUS
<1>4. nst = Contract!AddUserStorage(st, a, info, role) /\ n.ok = acc.ok \cup {t.id}
  OBVIOUS
<1> HIDE DEF st, nst
<1>5. /\ nst \in Contract!Storage
      /\ nst.users[a] = info /\ \A b \in Accounts : b # a => nst.users[b] = st.users[b]
      /\ nst.roles[a] = role /\ \A b \in Accounts : b # a => nst.roles[b] = st.roles[b]
      /\ \A d \in Contract!AllDnis : \A x \in Accounts :
           x \in Contract!HoldersOf(nst, d)
             <=> x \in Contract!HoldersOf(st, d) \/ (x = a /\ d = info.dni)
  BY <1>1, <1>2, <1>4, AddUserWrites DEF st
<1>6. n \in [storage : Contract!Storage, ok : SUBSET TxIds]
  <2>1. n.ok \in SUBSET TxIds
    BY <1>1, <1>4
  <2>2. n = [storage |-> nst, ok |-> n.ok]
    BY <1>4 DEF nst
  <2> QED
    BY <1>5, <2>1, <2>2, Zenon
<1>7. /\ \A b : Registrations(T, n.ok, b) =
              Registrations(T, acc.ok, b) \cup (IF a = b THEN {t} ELSE {})
      /\ \A b : MeddledWith(T, acc.ok, b) => MeddledWith(T, n.ok, b)
      /\ IsForeign(t) => MeddledWith(T, n.ok, a)
  <2>1. /\ \A b : Registrations(T, n.ok, b) =
                Registrations(T, acc.ok, b)
                  \cup (IF t.call.method = "add_user" /\ t.call.account = b THEN {t} ELSE {})
        /\ \A b : MeddledWith(T, acc.ok, b) => MeddledWith(T, n.ok, b)
        /\ \A b : IsForeign(t) /\ t.call.method \in {"add_user", "assign_role"}
                   /\ t.call.account = b => MeddledWith(T, n.ok, b)
    <3> QED
      BY <1>4, OneMoreSuccess
  <2>2. t.call.method = "add_user" /\ t.call.account = a
    BY <1>3
  <2> QED
    BY <2>1, <2>2, Zenon
<1>8. \A r \in Requests :
        t.id = AddUserOf(r)
          => /\ pc[r] # "idle" /\ body[r] \in Bodies /\ AccountOf(r, body[r]) = a
             /\ body[r].role = role /\ info.dni = body[r].dni
  <2>1. \A q : /\ CallOf(q).account = AccountOf(q, body[q]) /\ CallOf(q).role = body[q].role
              /\ CallOf(q).info = InfoOf(body[q])
    BY DEF CallOf
  <2>2. ASSUME NEW r \in Requests, t.id = AddUserOf(r)
        PROVE  pc[r] # "idle" /\ body[r] \in Bodies /\ t.call = CallOf(r)
    BY <2>2, IdsAreTold
  <2> QED
    BY <1>3, <2>1, <2>2, AccountsOfRequests
<1>9. RecordsAreAsked(nst, n.ok, T)
  <2> SUFFICES ASSUME NEW b \in Accounts
               PROVE  IF nst.users[b] = NoUser THEN Registrations(T, n.ok, b) = {}
                      ELSE \E u \in Registrations(T, n.ok, b) : u.call.info = nst.users[b]
    BY DEF RecordsAreAsked
  <2>1. CASE b = a
    <3>1. nst.users[b] = info /\ info # NoUser /\ t.call.info = nst.users[b]
      BY <1>2, <1>3, <1>5, <2>1
    <3>2. t \in Registrations(T, n.ok, b)
      BY <1>7, <2>1
    <3> QED
      BY <3>1, <3>2
  <2>2. CASE b # a
    <3>1. nst.users[b] = st.users[b] /\ Registrations(T, n.ok, b) = Registrations(T, acc.ok, b)
      BY <1>5, <1>7, <2>2
    <3> QED
      BY <3>1 DEF Sound, RecordsAreAsked, st
  <2> QED
    BY <2>1, <2>2
<1>10. ASSUME NEW r \in Requests PROVE SlotOf(nst, n.ok, T, r)
  <2> SUFFICES ASSUME ~MeddledWith(T, n.ok, r)
               PROVE  /\ TakenIn(n.ok, r) =>
                           r \in Contract!HoldersOf(nst, body[r].dni) /\ nst.roles[r] = body[r].role
                      /\ ~TakenIn(n.ok, r) =>
                           /\ \A d \in Contract!AllDnis : r \notin Contract!HoldersOf(nst, d)
                           /\ nst.roles[r] = NoRole
    BY DEF SlotOf
  <2>1. SlotOf(st, acc.ok, T, r) /\ r \in Accounts /\ ~MeddledWith(T, acc.ok, r)
    BY <1>7 DEF Sound, st, Accounts
  <2>2. CASE r = a
    <3>1. t.id = AddUserOf(r)
      <4>1. PICK q \in Requests : t.id = AddUserOf(q) /\ body[q] \in Bodies
        BY <1>7, <2>2
      <4>2. AccountOf(q, body[q]) = a
        BY <1>8, <4>1
      <4> QED
        BY <2>2, <4>1, <4>2, AccountsOfRequests
    <3>2. body[r].dni \in Contract!AllDnis
      BY <1>8, <3>1, AccountsOfRequests
    <3>3. TakenIn(n.ok, r)
      BY <1>4, <1>8, <2>2, <3>1 DEF TakenIn
    <3> QED
      BY <1>5, <1>8, <2>1, <2>2, <3>1, <3>2, <3>3
  <2>3. CASE r # a
    <3>1. nst.roles[r] = st.roles[r]
      BY <1>5, <2>1, <2>3
    <3>2. \A d \in Contract!AllDnis :
            r \in Contract!HoldersOf(nst, d) <=> r \in Contract!HoldersOf(st, d)
      BY <1>5, <2>1, <2>3
    <3>3. TakenIn(n.ok, r) <=> TakenIn(acc.ok, r)
      BY <1>4, <1>8, <2>3 DEF TakenIn
    <3>4. TakenIn(acc.ok, r) => body[r].dni \in Contract!AllDnis
      <4> SUFFICES ASSUME TakenIn(acc.ok, r) PROVE body[r].dni \in Contract!AllDnis
        OBVIOUS
      <4>1. body[r] \in Bodies
        BY DEF Sound, TakenIn
      <4> QED
        BY <4>1, AccountsOfRequests
    <3> QED
      BY <2>1, <3>1, <3>2, <3>3, <3>4 DEF SlotOf
  <2> QED
    BY <2>2, <2>3
<1>11. \A id \in n.ok : \E u \in T : u.id = id
  BY <1>4 DEF Sound
<1>12. \A r \in Requests : AddUserOf(r) \in n.ok => pc[r] # "idle" /\ body[r] \in Bodies
  BY <1>4, <1>8 DEF Sound
<1> QED
  BY <1>6, <1>9, <1>10, <1>11, <1>12 DEF Sound, nst

\* One extrinsic of a block.
LEMMA ExecuteKeepsSound ==
  ASSUME ServerInv, NEW T, Told(T), NEW acc, Sound(acc, T), NEW t \in T, Asked(t)
  PROVE  Sound(Execute(acc, t), T)
<1> DEFINE n == Execute(acc, t)
<1>0. \A q : CallOf(q).method = "add_user"
  BY DEF CallOf
<1>1. t.id \in TxIds /\ t.call \in Calls
  BY DEF Told, Node!Txs
<1>2. \/ IsForeign(t) /\ \A r \in Requests : t.id # AddUserOf(r)
      \/ t.call.method = "transfer" /\ \A r \in Requests : t.id # AddUserOf(r)
      \/ \E q \in Requests : t.id = AddUserOf(q) /\ pc[q] # "idle" /\ body[q] \in Bodies
                            /\ t.call = CallOf(q)
  <2>1. \A q \in Requests : pc[q] # "idle" => body[q] \in Bodies
    BY RequestTypes DEF ProgressOf
  <2> QED
    BY <2>1, IdsAreTold DEF Asked, IsForeign
<1>3. CASE t.call.method = "add_user"
  <2>1. PICK a \in Accounts, info \in Infos, role \in Roles :
          t.call = [method |-> "add_user", account |-> a, info |-> info, role |-> role]
    BY <1>1, <1>3 DEF Calls
  <2>2. CASE Contract!AddUserAccepted(acc.storage, info, role)
    <3>1. n = [storage |-> Contract!AddUserStorage(acc.storage, a, info, role),
               ok |-> acc.ok \cup {t.id}]
      BY <2>1, <2>2 DEF Execute, Succeeds, CallStorage
    <3> QED
      BY <1>1, <1>2, <2>1, <2>2, <3>1, AddUserKeepsSound
  <2>3. CASE ~Contract!AddUserAccepted(acc.storage, info, role)
    BY <2>1, <2>3 DEF Execute, Succeeds
  <2> QED
    BY <2>2, <2>3
<1>4. CASE t.call.method # "add_user"
  <2>1. acc \in [storage : Contract!Storage, ok : SUBSET TxIds]
    BY DEF Sound
  <2>2. n = [storage |-> CallStorage(acc.storage, t.call), ok |-> acc.ok \cup {t.id}]
    BY <1>4 DEF Execute, Succeeds
  <2>3. \A r \in Requests : t.id # AddUserOf(r)
    BY <1>0, <1>2, <1>4
  <2>4. n.ok = acc.ok \cup {t.id} /\ n.ok \in SUBSET TxIds
    BY <1>1, <2>1, <2>2
  <2>5. CASE t.call.method = "assign_role"
    <3>1. PICK a \in Accounts, role \in Roles :
            t.call = [method |-> "assign_role", account |-> a, role |-> role]
      BY <1>1, <2>5 DEF Calls
    <3>2. n.storage = Contract!AssignRoleStorage(acc.storage, a, role)
      BY <2>2, <3>1 DEF CallStorage
    <3>3. /\ n.storage \in Contract!Storage
          /\ n.storage.users = acc.storage.users /\ n.storage.accounts = acc.storage.accounts
          /\ \A b \in Accounts : b # a => n.storage.roles[b] = acc.storage.roles[b]
      <4>1. PICK st, nst : st = acc.storage /\ nst = n.storage
        OBVIOUS
      <4>2. st \in Contract!Storage /\ nst = Contract!AssignRoleStorage(st, a, role)
        BY <2>1, <3>2, <4>1
      <4>3. /\ nst \in Contract!Storage
            /\ nst.users = st.users /\ nst.accounts = st.accounts
            /\ \A b \in Accounts : b # a => nst.roles[b] = st.roles[b]
        BY <4>2 DEF Contract!AssignRoleStorage, Contract!Storage
      <4> QED
        BY <4>1, <4>3
    <3>4. IsForeign(t)
      BY <1>0, <1>2, <2>5
    <3>5. MeddledWith(T, n.ok, a)
      <4>1. t.call.account = a /\ t.call.method \in {"add_user", "assign_role"}
        BY <3>1
      <4> HIDE DEF n
      <4> QED
        BY <2>4, <3>4, <4>1, OneMoreSuccess
    <3>6. \A r \in Requests : \/ n.storage.roles[r] = acc.storage.roles[r]
                               \/ MeddledWith(T, n.ok, r)
      BY <3>3, <3>5 DEF Accounts
    <3>7. n \in [storage : Contract!Storage, ok : SUBSET TxIds]
      <4>1. n = [storage |-> n.storage, ok |-> n.ok]
        BY <2>2
      <4> HIDE DEF n
      <4> QED
        BY <2>4, <3>3, <4>1, Zenon
    <3> HIDE DEF n
    <3>8. Sound(n, T)
      BY <1>4, <2>3, <2>4, <3>3, <3>6, <3>7, OtherKeepsSound
    <3> QED
      BY <3>8 DEF n
  <2>6. CASE t.call.method # "assign_role"
    <3>1. n.storage = acc.storage
      BY <1>4, <2>2, <2>6 DEF CallStorage
    <3>2. n \in [storage : Contract!Storage, ok : SUBSET TxIds]
      <4>1. n = [storage |-> n.storage, ok |-> n.ok] /\ acc.storage \in Contract!Storage
        BY <2>1, <2>2
      <4> HIDE DEF n
      <4> QED
        BY <2>4, <3>1, <4>1, Zenon
    <3> HIDE DEF n
    <3>3. Sound(n, T)
      BY <1>4, <2>1, <2>3, <2>4, <3>1, <3>2, OtherKeepsSound
    <3> QED
      BY <3>3 DEF n
  <2> QED
    BY <2>5, <2>6
<1> QED
  BY <1>3, <1>4

\* A block.
LEMMA BlockKeepsSound ==
  ASSUME ServerInv, NEW T, Told(T),
         NEW block \in Seq(T), \A i \in 1..Len(block) : Asked(block[i]),
         NEW acc, Sound(acc, T)
  PROVE  Sound(FoldLeft(Execute, acc, block), T)
<1> DEFINE n == Len(block)
           A == {x \in [storage : Contract!Storage, ok : SUBSET TxIds] : Sound(x, T)}
           step == [k \in 1..n |-> [x \in A |-> Execute(x, block[k])]]
           Solves(it) == it = [S \in SUBSET (1..n) |->
             IF S = {} THEN acc ELSE Execute(it[S \ {Max(S)}], block[Max(S)])]
           solution == CHOOSE it : Solves(it)
<1>1. n \in Nat /\ DOMAIN block = 1..n /\ \A k \in 1..n : block[k] \in T
  OBVIOUS
<1>2. FoldLeft(Execute, acc, block) = solution[1..n]
  BY <1>1 DEF FoldLeft, MapThenFoldSet
<1>3. \A x : x \in A <=> Sound(x, T)
  BY DEF Sound
<1>4. acc \in A /\ \A k \in 1..n, x \in A : Execute(x, block[k]) \in A
  BY <1>1, <1>3, ExecuteKeepsSound
<1> HIDE DEF A
<1>5. step \in [1..n -> [A -> A]]
  BY <1>4
<1>6. \A S \in SUBSET (1..n) : S # {} => Max(S) \in 1..n
  BY <1>1, MaxOfPositions
<1>7. \E it : Solves(it)
  <2>1. PICK it \in [SUBSET (1..n) -> A] : Folds(it, n, acc, step)
    <3> HIDE DEF n, step
    <3> QED
      BY <1>1, <1>4, <1>5, FoldExists, Zenon
  <2>2. ASSUME NEW S \in SUBSET (1..n), S # {}
        PROVE  step[Max(S)][it[S \ {Max(S)}]] = Execute(it[S \ {Max(S)}], block[Max(S)])
    <3>1. it[S \ {Max(S)}] \in A /\ Max(S) \in 1..n
      BY <1>6, <2>2
    <3> HIDE DEF n
    <3> QED
      BY <3>1
  <2>3. Solves(it)
    <3> HIDE DEF n, step
    <3> QED
      BY <2>1, <2>2 DEF Folds
  <2> QED
    BY <2>3
<1>8. Solves(solution)
  <2> HIDE DEF Solves
  <2> QED
    BY <1>7
<1>9. FoldsWithin(solution, n, A, acc, step)
  <2> HIDE DEF solution, n
  <2>1. solution[{}] = acc
    BY <1>8
  <2>2. ASSUME NEW S \in SUBSET (1..n), S # {}, solution[S \ {Max(S)}] \in A
        PROVE  solution[S] = step[Max(S)][solution[S \ {Max(S)}]]
    <3>1. solution[S] = Execute(solution[S \ {Max(S)}], block[Max(S)])
      BY <1>8, <2>2
    <3>2. Max(S) \in 1..n
      BY <1>6, <2>2
    <3> QED
      BY <2>2, <3>1, <3>2
  <2> QED
    BY <2>1, <2>2 DEF FoldsWithin
<1>10. PICK run \in [0..n -> A] : Runs(run, n, acc, step, solution[1..n])
  <2> HIDE DEF n, step, solution
  <2> QED
    BY <1>1, <1>4, <1>5, <1>9, FoldRuns, Zenon
<1>11. run[n] = FoldLeft(Execute, acc, block) /\ run[n] \in A
  <2>1. n \in 0..n
    BY <1>1
  <2> HIDE DEF solution, n
  <2> QED
    BY <1>2, <1>10, <2>1 DEF Runs
<1> QED
  BY <1>3, <1>11

\* A request that came does not go back, and asks for what it asked for.
Onward == \A r \in Requests : pc[r] # "idle" => pc'[r] # "idle" /\ body'[r] = body[r]

LEMMA RequestsGoOn ==
  ASSUME ServerInv, [Next]_vars
  PROVE  Onward
<1> USE DEF Onward
<1>0. pc \in [Requests -> Places] /\ body \in [Requests -> Bodies \cup {NoBody}]
  BY DEF ServerInv, ServerTypeOK
<1>1. ASSUME NEW r \in Requests, Arrive(r) PROVE Onward
  <2>1. pc[r] = "idle" /\ \E b \in Bodies : body' = [body EXCEPT ![r] = b]
    BY <1>1 DEF Arrive
  <2>2. (\E p : pc' = [pc EXCEPT ![r] = p]) \/ Die({r})
    BY <1>1 DEF Arrive, PostDynamicGas, PostMnemonic, PostExisting, PostCreateUser, PostGrant,
      PostNoMnemonic, BeginTransfer, Reply
  <2>3. \A q \in Requests : Die({r}) => (pc[q] # "idle" => pc'[q] # "idle")
    BY DEF Die
  <2> QED
    BY <1>0, <2>1, <2>2, <2>3
<1>2. ASSUME Die({}), UNCHANGED body PROVE Onward
  <2>1. \A r \in Requests : pc'[r] = IF pc[r] \in {"idle", "done"} THEN pc[r] ELSE "cut"
    BY <1>2 DEF Die
  <2> QED
    BY <1>2, <2>1
<1>3. ASSUME NEW r \in Requests, Step(r) PROVE Onward
  <2>1. \/ /\ UNCHANGED body
           /\ \E p \in Places \ {"idle"} : pc' = [pc EXCEPT ![r] = p]
        \/ Die({}) /\ UNCHANGED body
    BY <1>3 DEF Step, WakeUp, SendTransfer, TransferFinalized, TransferError, SendAddUser,
      AddUserFinalized, AddUserNeverSettles, BeginAddUser, Reply, Places
  <2>2. CASE UNCHANGED body /\ \E p \in Places \ {"idle"} : pc' = [pc EXCEPT ![r] = p]
    BY <1>0, <2>2
  <2> QED
    BY <1>2, <2>1, <2>2
<1>4. CASE UNCHANGED <<pc, body>>
  BY <1>4
<1> QED
  BY <1>1, <1>2, <1>3, <1>4 DEF Next, Crash, Restart, SealBlock, FinalizeBlock, ExpireTx,
    ForeignSubmit, apiVars, vars

\* What requests ask for stays what it was, for those that came.
LEMMA SoundStays ==
  ASSUME Onward, NEW acc, NEW T, Sound(acc, T)
  PROVE  Sound(acc, T)'
<1>1. ASSUME NEW r \in Requests, AddUserOf(r) \in acc.ok
      PROVE  pc'[r] # "idle" /\ body'[r] = body[r] /\ body'[r] \in Bodies
  BY <1>1 DEF Onward, Sound
<1>2. \A r \in Requests : TakenIn(acc.ok, r)' <=> TakenIn(acc.ok, r)
  BY <1>1 DEF TakenIn, AddUserOf
<1>3. RecordsAreAsked(acc.storage, acc.ok, T)'
  BY DEF Sound, RecordsAreAsked
<1>4. ASSUME NEW r \in Requests PROVE SlotOf(acc.storage, acc.ok, T, r)'
  <2>1. SlotOf(acc.storage, acc.ok, T, r)
    BY DEF Sound
  <2>2. TakenIn(acc.ok, r) => body'[r] = body[r]
    BY <1>1 DEF TakenIn
  <2> QED
    BY <1>2, <2>1, <2>2 DEF SlotOf
<1>5. /\ acc \in [storage : Contract!Storage, ok : SUBSET TxIds]
      /\ \A id \in acc.ok : \E t \in T : t.id = id
  BY DEF Sound
<1> QED
  BY <1>1, <1>3, <1>4, <1>5 DEF Sound, AddUserOf

LEMMA AskedStays ==
  ASSUME Onward, NEW t, Asked(t)
  PROVE  Asked(t)'
BY DEF Onward, Asked, CallOf, AddUserOf, TransferOf

\* What a step adds to the pool was asked for.
Supplied == \A t \in NodeP!HeldTxs' : t \in NodeP!HeldTxs \/ Asked(t)'

LEMMA ContractKept ==
  ASSUME Onward, ContractInv, Supplied,
         Sound([storage |-> storage', ok |-> dispatched'], ToSet(chain'))
  PROVE  ContractInv'
<1>1. \A t \in NodeP!HeldTxs' : Asked(t)'
  BY AskedStays DEF ContractInv, Supplied
<1>2. Sound([storage |-> storage, ok |-> dispatched], ToSet(chain))'
  <2>1. PICK acc, T : acc = [storage |-> storage', ok |-> dispatched'] /\ T = ToSet(chain')
    OBVIOUS
  <2>2. Sound(acc, T)'
    BY <2>1, SoundStays
  <2>3. acc.storage = storage' /\ acc.ok = dispatched'
    BY <2>1
  <2> QED
    BY <2>1, <2>2, <2>3 DEF Sound, RecordsAreAsked, SlotOf, TakenIn
<1> QED
  BY <1>1, <1>2 DEF ContractInv

LEMMA ContractUntouched ==
  ASSUME Onward, ContractInv, Supplied, UNCHANGED stateVars, UNCHANGED chain
  PROVE  ContractInv'
<1>1. Sound([storage |-> storage', ok |-> dispatched'], ToSet(chain'))
  BY DEF ContractInv, stateVars
<1> QED
  BY <1>1, ContractKept

\* A submission adds what is submitted.
LEMMA SubmissionHolds ==
  ASSUME ServerInv, NEW id \in TxIds, NEW n \in Nat, NEW call \in Calls,
         Node!Submit(Node!Signed(id, n, call))
  PROVE  /\ UNCHANGED chain
         /\ \E t : /\ t.id = id /\ t.call = call
                  /\ NodeP!HeldTxs' \subseteq NodeP!HeldTxs \cup {t}
<1>1. PICK t : t = Node!Signed(id, n, call)
  OBVIOUS
<1>2. t \in NodeP!Txs /\ NodeP!Submit(t)
  BY <1>1, SignedIsTx, SameNode
<1>3. NodeP!SubmitEffect(t)
  BY <1>2, NodeP!SubmitHasEffect, EraIsPositive, BlockCapacityIsPositive DEF MaxNonce, ServerInv
<1>4. NodeP!HeldTxs' \subseteq NodeP!HeldTxs \cup {t}
  BY <1>3 DEF NodeP!SubmitEffect, NodeP!Refuses, NodeP!Accepts
<1>5. t.id = id /\ t.call = call
  BY <1>1 DEF Node!Signed
<1>6. UNCHANGED chain
  BY DEF Node!Submit, Node!SubmitRejected, Node!SubmitUsurping, Node!SubmitReady,
    Node!SubmitFuture, Node!ledger
<1> QED
  BY <1>4, <1>5, <1>6

LEMMA HeldStays ==
  ASSUME UNCHANGED nodeVars PROVE UNCHANGED NodeP!HeldTxs
BY DEF nodeVars, poolVars, NodeP!HeldTxs

LEMMA ContractStep ==
  ASSUME ServerInv, ContractInv, [Next]_vars
  PROVE  ContractInv'
<1>1. Onward
  BY RequestsGoOn
<1>2. CASE UNCHANGED <<nodeVars, stateVars>>
  <2>1. Supplied
    BY <1>2, HeldStays DEF Supplied
  <2> QED
    BY <1>1, <1>2, <2>1, ContractUntouched DEF nodeVars
<1>3. ASSUME NEW r \in Requests, SendTransfer(r) PROVE ContractInv'
  <2>1. pc[r] = "transferSigned" /\ UNCHANGED stateVars
    BY <1>3 DEF SendTransfer
  <2>2. PICK id \in TxIds, n \in Nat, call \in Calls :
          id = TransferOf(r) /\ n = nonceOf[TransferOf(r)] /\ call = [method |-> "transfer"]
    BY <2>1, RequestTypes, TransferIsCall DEF ProgressOf
  <2>3. PICK t : /\ t.id = id /\ t.call = call /\ UNCHANGED chain
                 /\ NodeP!HeldTxs' \subseteq NodeP!HeldTxs \cup {t}
    <3>1. Node!Submit(Node!Signed(id, n, call))
      BY <1>3, <2>2 DEF SendTransfer
    <3> QED
      BY <3>1, SubmissionHolds
  <2>4. Asked(t)'
    BY <2>2, <2>3 DEF Asked, TransferOf, AddUserOf
  <2>5. Supplied
    BY <2>3, <2>4 DEF Supplied
  <2> QED
    BY <1>1, <2>1, <2>3, <2>5, ContractUntouched
<1>4. ASSUME NEW r \in Requests, SendAddUser(r) PROVE ContractInv'
  <2>1. pc[r] = "addUserSigned" /\ UNCHANGED stateVars
    BY <1>4 DEF SendAddUser
  <2>2. PICK id \in TxIds, n \in Nat, call \in Calls :
          /\ id = AddUserOf(r) /\ n = nonceOf[AddUserOf(r)] /\ call = CallOf(r)
    <3>1. nonceOf[AddUserOf(r)] \in Nat /\ AddUserOf(r) \in TxIds
      BY <2>1, RequestTypes DEF ProgressOf
    <3>2. CallOf(r) \in Calls
      BY <2>1, AddUserIsCall DEF CallOf
    <3> QED
      BY <3>1, <3>2
  <2>3. PICK t : /\ t.id = id /\ t.call = call /\ UNCHANGED chain
                 /\ NodeP!HeldTxs' \subseteq NodeP!HeldTxs \cup {t}
    <3>1. Node!Submit(Node!Signed(id, n, call))
      BY <1>4, <2>2 DEF SendAddUser, CallOf
    <3> QED
      BY <3>1, SubmissionHolds
  <2>4. Asked(t)'
    <3>1. Asked(t)
      BY <2>1, <2>2, <2>3 DEF Asked
    <3> QED
      BY <1>1, <3>1, AskedStays
  <2>5. Supplied
    BY <2>3, <2>4 DEF Supplied
  <2> QED
    BY <1>1, <2>1, <2>3, <2>5, ContractUntouched
<1>5. ASSUME NEW i \in ForeignTxs, ForeignSubmit(i) PROVE ContractInv'
  <2>1. UNCHANGED stateVars
    BY <1>5 DEF ForeignSubmit
  <2>2. PICK id \in TxIds, n \in Nat, call \in Calls :
          id = <<i, "foreign">> /\ Node!Submit(Node!Signed(id, n, call))
    BY <1>5, ForeignSubmits
  <2>3. PICK t : /\ t.id = id /\ t.call = call /\ UNCHANGED chain
                 /\ NodeP!HeldTxs' \subseteq NodeP!HeldTxs \cup {t}
    BY <2>2, SubmissionHolds
  <2>4. Asked(t)'
    BY <2>2, <2>3 DEF Asked
  <2>5. Supplied
    BY <2>3, <2>4 DEF Supplied
  <2> QED
    BY <1>1, <2>1, <2>3, <2>5, ContractUntouched
<1>6. CASE SealBlock
  <2>1. PICK k \in Node!BlockLengths :
          /\ Node!SealFirst(k)
          /\ LET after == FoldLeft(Execute, [storage |-> storage, ok |-> dispatched],
                                   SubSeq(ready, 1, k))
             IN  storage' = after.storage /\ dispatched' = after.ok
    BY <1>6 DEF SealBlock
  <2>2. PICK T, block, after :
          /\ T = ToSet(chain') /\ block = SubSeq(ready, 1, k)
          /\ after = FoldLeft(Execute, [storage |-> storage, ok |-> dispatched], block)
    OBVIOUS
  <2>3. NodeP!NodeInv' /\ NodeP!HeldTxs' = NodeP!HeldTxs
    BY <2>1, BlockIsSeal, SealMoves DEF ServerInv, NodeMoves
  <2>4. Told(T) /\ T \subseteq NodeP!HeldTxs
    <3>1. T \subseteq NodeP!HeldTxs'
      BY <2>2 DEF NodeP!HeldTxs, NodeP!ToSet, ToSet
    <3>2. \A t, u \in NodeP!HeldTxs' : t.id = u.id => t = u
      BY <2>3 DEF NodeP!NodeInv, NodeP!Agree
    <3>3. T \subseteq Node!Txs
      <4>1. chain' \in Seq(NodeP!Txs)
        BY <2>3 DEF NodeP!NodeInv, NodeP!NodeTypeOK
      <4> QED
        BY <2>2, <4>1, SameNode DEF ToSet
    <3> QED
      BY <2>3, <3>1, <3>2, <3>3 DEF Told
  <2>5. /\ ready \in Seq(NodeP!Txs) /\ chain \in Seq(NodeP!Txs) /\ k \in 0..Len(ready)
        /\ chain' = chain \o block
    <3>1. k \in 0..Len(ready) /\ chain' = chain \o block
      BY <2>1, <2>2 DEF Node!BlockLengths, Node!SealFirst
    <3> QED
      BY <3>1 DEF ServerInv, NodeP!NodeInv, NodeP!NodeTypeOK
  <2>6. block \in Seq(T) /\ ToSet(chain) \subseteq T
    <3>1. block \in Seq(NodeP!Txs) /\ Len(block) = k
      BY <2>2, <2>5
    <3>2. \A j \in 1..Len(block) : Len(chain) + j \in 1..Len(chain')
                                  /\ chain'[Len(chain) + j] = block[j]
      BY <2>5, <3>1
    <3>3. \A j \in 1..Len(chain) : j \in 1..Len(chain') /\ chain'[j] = chain[j]
      BY <2>5, <3>1
    <3>4. DOMAIN chain = 1..Len(chain) /\ DOMAIN chain' = 1..Len(chain')
      BY <2>5, <3>1
    <3>5. \A j \in 1..Len(block) : block[j] \in T
      BY <2>2, <3>2, <3>4 DEF ToSet
    <3>6. ToSet(chain) \subseteq T
      BY <2>2, <3>3, <3>4 DEF ToSet
    <3> QED
      BY <3>1, <3>5, <3>6
  <2>7. \A j \in 1..Len(block) : Asked(block[j])
    BY <2>4, <2>6 DEF ContractInv
  <2>8. Sound(after, T)
    <3>1. PICK acc : acc = [storage |-> storage, ok |-> dispatched]
      OBVIOUS
    <3>2. Sound(acc, T)
      BY <2>4, <2>6, <3>1, LongerChainIsSound DEF ContractInv
    <3> QED
      BY <2>2, <2>4, <2>6, <2>7, <3>1, <3>2, BlockKeepsSound
  <2>9. after = [storage |-> storage', ok |-> dispatched']
    <3>1. after \in [storage : Contract!Storage, ok : SUBSET TxIds]
      BY <2>8 DEF Sound
    <3>2. storage' = after.storage /\ dispatched' = after.ok
      BY <2>1, <2>2
    <3> HIDE DEF Contract!Storage
    <3> QED
      BY <3>1, <3>2
  <2> QED
    <3>1. Sound([storage |-> storage', ok |-> dispatched'], ToSet(chain'))
      BY <2>2, <2>8, <2>9
    <3>2. Supplied
      BY <2>3 DEF Supplied
    <3> QED
      BY <1>1, <3>1, <3>2, ContractKept
<1>7. CASE FinalizeBlock
  <2>1. NodeP!HeldTxs' = NodeP!HeldTxs /\ UNCHANGED stateVars /\ UNCHANGED chain
    BY <1>7, FinalizeMoves DEF FinalizeBlock, ServerInv, Node!FinalizeSome, Node!Finalize
  <2>2. Supplied
    BY <2>1 DEF Supplied
  <2> QED
    BY <1>1, <2>1, <2>2, ContractUntouched
<1>8. CASE ExpireTx
  <2>1. NodeP!HeldTxs' \subseteq NodeP!HeldTxs /\ UNCHANGED stateVars /\ UNCHANGED chain
    BY <1>8 DEF ExpireTx, Node!Expire, Node!ledger, NodeP!HeldTxs
  <2>2. Supplied
    BY <2>1 DEF Supplied
  <2> QED
    BY <1>1, <2>1, <2>2, ContractUntouched
<1>9. ASSUME NEW r \in Requests, Step(r), ~SendTransfer(r), ~SendAddUser(r)
      PROVE  UNCHANGED <<nodeVars, stateVars>>
  BY <1>9 DEF Step, WakeUp, TransferFinalized, TransferError, AddUserFinalized,
    AddUserNeverSettles
<1>10. ASSUME NEW r \in Requests, Arrive(r) PROVE UNCHANGED <<nodeVars, stateVars>>
  BY <1>10 DEF Arrive
<1>11. Crash \/ Restart \/ UNCHANGED vars => UNCHANGED <<nodeVars, stateVars>>
  BY DEF Crash, Restart, vars
<1> QED
  BY <1>2, <1>3, <1>4, <1>5, <1>6, <1>7, <1>8, <1>9, <1>10, <1>11 DEF Next

LEMMA ContractInit == Init => ContractInv
<1> SUFFICES ASSUME Init PROVE ContractInv
  OBVIOUS
<1>1. storage = Contract!EmptyStorage /\ dispatched = {} /\ NodeP!HeldTxs = {}
  BY DEF Init, Node!NodeInit, NodeP!HeldTxs, NodeP!ToSet
<1>2. storage \in Contract!Storage
  BY <1>1 DEF Contract!EmptyStorage, Contract!Storage, Contract!Slots
<1>3. \A a \in Accounts : storage.users[a] = NoUser /\ storage.roles[a] = NoRole
  BY <1>1 DEF Contract!EmptyStorage
<1>4. \A d \in Contract!AllDnis : Contract!HoldersOf(storage, d) = {}
  BY <1>1 DEF Contract!EmptyStorage, Contract!HoldersOf
<1> QED
  BY <1>1, <1>2, <1>3, <1>4
  DEF ContractInv, Sound, RecordsAreAsked, Registrations, SlotOf, TakenIn, Accounts

LEMMA ContractInvariant == Spec => [](ServerInv /\ ContractInv)
<1>1. Init => ServerInv /\ ContractInv
  BY ServerInit, ContractInit
<1>2. ServerInv /\ ContractInv /\ [Next]_vars => (ServerInv /\ ContractInv)'
  BY ServerStep, ContractStep
<1> QED
  BY <1>1, <1>2, PTL DEF Spec

\* The server's counter (server.js:105), the places and answers of its requests
\* and its file have their types, and what succeeded is a transaction.
THEOREM ServerTypeCorrect == Spec => []TypeOK
<1>1. ServerInv /\ ContractInv => TypeOK
  BY DEF ServerInv, ServerTypeOK, Places, ContractInv, Sound, TypeOK
<1> QED
  BY <1>1, ContractInvariant, PTL

\* Whoever registers users and gives out roles besides the server (lib.rs:80-136
\* asks nobody), each record of the contract was written by an add_user in the
\* chain that succeeded, each that succeeded left a record, and those that the
\* server signed carry the account and the data of a request (server.js:200).
THEOREM ServerUsersWereAskedFor == Spec => []UsersWereAskedFor
<1>1. ServerInv /\ ContractInv => UsersWereAskedFor
  <2> SUFFICES ASSUME ServerInv, ContractInv, NEW a \in Accounts
               PROVE  LET asked == Registrations(ToSet(chain), dispatched, a) IN
                        /\ IF storage.users[a] = NoUser THEN asked = {}
                           ELSE \E t \in asked : t.call.info = storage.users[a]
                        /\ \A t \in asked : IsForeign(t) \/
                             \E r \in Requests :
                               /\ t.id = AddUserOf(r) /\ a = AccountOf(r, body[r])
                               /\ t.call.info = InfoOf(body[r])
    BY DEF UsersWereAskedFor
  <2>1. RecordsAreAsked(storage, dispatched, ToSet(chain))
    BY DEF ContractInv, Sound
  <2>2. ASSUME NEW t \in ToSet(chain), t.call.method = "add_user", t.call.account = a
        PROVE  IsForeign(t) \/
                 \E r \in Requests :
                   /\ t.id = AddUserOf(r) /\ a = AccountOf(r, body[r])
                   /\ t.call.info = InfoOf(body[r])
    <3>1. Asked(t)
      BY DEF ContractInv, NodeP!HeldTxs, NodeP!ToSet, ToSet
    <3>2. \A q : /\ CallOf(q).method = "add_user" /\ CallOf(q).info = InfoOf(body[q])
                /\ CallOf(q).account = AccountOf(q, body[q])
      BY DEF CallOf
    <3> QED
      BY <2>2, <3>1, <3>2 DEF Asked, IsForeign
  <2> QED
    BY <2>1, <2>2 DEF RecordsAreAsked, Registrations
<1> QED
  BY <1>1, ContractInvariant, PTL

\* GET /get_accounts and GET /role tell whether the contract took the user of a
\* request for a generated account, also when other requests and other wallets
\* compete for the slots of the same DNI, unless one of them names that account.
THEOREM ServerQueriesTellTheOutcome == Spec => []QueriesTellTheOutcome
<1>1. ServerInv /\ ContractInv => QueriesTellTheOutcome
  <2> SUFFICES ASSUME ServerInv, ContractInv, NEW r \in Requests, body[r].kind \in PassesRes,
                      ~MeddledWith(ToSet(chain), dispatched, r)
               PROVE  LET registered == AddUserOf(r) \in dispatched IN
                        /\ r \in GetAccounts(body[r].dni).accounts <=> registered
                        /\ registered => GetAccounts(body[r].dni).status = 200
                        /\ GetRole(r).role = (IF registered THEN body[r].role ELSE NoRole)
    BY DEF QueriesTellTheOutcome
  <2>1. AccountOf(r, body[r]) = r
    BY DEF AccountOf, PassesRes, DynamicGas, CreateUser, Mnemonic, Existing
  <2>2. SlotOf(storage, dispatched, ToSet(chain), r)
    BY DEF ContractInv, Sound
  <2>3. body[r] \in Bodies
    BY RequestTypes DEF PassesRes, DynamicGas, CreateUser, NoBody
  <2>4. body[r].dni \in Contract!AllDnis
    BY <2>3, AccountsOfRequests
  <2>5. r \in Contract!HoldersOf(storage, body[r].dni) <=> AddUserOf(r) \in dispatched
    BY <2>1, <2>2, <2>4 DEF SlotOf, TakenIn
  <2>6. storage.roles[r] = IF AddUserOf(r) \in dispatched THEN body[r].role ELSE NoRole
    BY <2>1, <2>2 DEF SlotOf, TakenIn
  <2>7. GetAccounts(body[r].dni).accounts = Contract!HoldersOf(storage, body[r].dni)
    BY DEF GetAccounts
  <2>8. Contract!HoldersOf(storage, body[r].dni) # {} => GetAccounts(body[r].dni).status = 200
    BY DEF GetAccounts
  <2> QED
    BY <2>5, <2>6, <2>7, <2>8 DEF GetRole
<1> QED
  BY <1>1, ContractInvariant, PTL
=============================================================================
