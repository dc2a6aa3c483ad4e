----------------------------- MODULE ApiServer -----------------------------
(***************************************************************************)
(* The Express server of src/API/server.js in front of one development     *)
(* node and one deployed contract.  Every request that creates a user is a *)
(* process: it signs with Alice's key a transfer to the new account and a  *)
(* call of add_user, each with the next value of the server's own nonce    *)
(* counter, waits for finality in between, and answers.                    *)
(*                                                                         *)
(* JavaScript runs one callback at a time, so a step of a request is the   *)
(* code between two awaits: from the request to the first signature, from  *)
(* a finalized transfer to the second signature, from a finalized add_user *)
(* to the answer.  Signing and sending is asynchronous: transactions reach *)
(* the node in any order.                                                  *)
(***************************************************************************)
EXTENDS Integers, FiniteSets, SequencesExt

CONSTANTS
  Requests,       \* requests a client can send, at most once each
  Bodies,         \* what a request can ask for: see BodyShape
  ForeignTxs,     \* transactions that other wallets sign
  ForeignCalls,   \* what they may carry
  NamedAccounts,  \* accounts a client names by mnemonic, address or grant
  ZeroAccount,    \* the AccountId an undefined address is encoded as
  Dnis, OddDnis, Roles,
  MaxCrashes,     \* bound: how often the server process may be killed
  Era,            \* blocks for which a signed transaction stays valid
  BlockCapacity,  \* transactions that fit into any one block
  None, NoUser, NoRole

\* The kinds of request, by endpoint, that are modelled.
DynamicGas == "create_user_with_dynamic_gas"
CreateUser == "create_user"
Mnemonic   == "create_user_based_on_personalized_mnemonic"
Existing   == "create_user_with_existing_address"
Grant      == "grant_permission"
Creating   == {DynamicGas, CreateUser, Mnemonic, Existing}

\* addUser gets the response object from these endpoints only.
PassesRes == {DynamicGas, CreateUser}

NameLengths == {0, 12}

\* role is what the client sends: a u8 (a missing one encodes as 0), or
\* Unencodable (out of range or no number), on which contract.tx.addUser
\* throws.  valid tells whether the names and the e-mail satisfy the contract
\* (missing ones encode as empty), account and other are the accounts the
\* client names, and decodes whether its text is an address or a mnemonic.
Unencodable == 256

BodyShape ==
  [kind : Creating \cup {Grant}, dni : Dnis \cup OddDnis, role : Roles \cup {Unencodable},
   valid : BOOLEAN, account : NamedAccounts, other : NamedAccounts, decodes : BOOLEAN]

ASSUME BodiesHaveShape == Bodies \subseteq BodyShape
ASSUME MaxCrashesIsNatural == MaxCrashes \in Nat
ASSUME EraIsPositive == Era \in Nat \ {0}
ASSUME BlockCapacityIsPositive == BlockCapacity \in Nat \ {0}

\* A generated account is known by the request that generated it.
Accounts == Requests \cup NamedAccounts \cup {ZeroAccount}

\* A generated account's mnemonic is fresh and leaves the server only in its log
\* (server.js:146-157): no client derives the account from a text of its own, and
\* addUser never sees an address that a client names (AccountOf).
ASSUME GeneratedAreFresh == Requests \cap (NamedAccounts \cup {ZeroAccount}) = {}

TxIds == (Requests \X {"transfer", "addUser"}) \cup (ForeignTxs \X {"foreign"})

InfoOf(b) == [name |-> IF b.valid THEN 12 ELSE 0, lastname |-> 12, dni |-> b.dni, email |-> TRUE]

Infos ==
  [name : NameLengths, lastname : NameLengths, dni : Dnis \cup OddDnis, email : BOOLEAN]

\* What a mapping of the contract holds is told from what it does not hold.
ASSUME AbsenceIsDistinct ==
  None \notin Accounts /\ NoRole \notin Roles /\ NoUser \notin Infos

\* newAccount.address as each endpoint's addUser sees it: "existing" passes
\* the address itself, a string without a field named address.  An empty text
\* makes createNewAccount generate a mnemonic: a named account of one body only.
AccountOf(r, b) ==
  CASE b.kind = Mnemonic -> b.account
    [] b.kind = Existing -> ZeroAccount
    [] OTHER             -> r

Calls ==
  [method : {"transfer", "other"}]
    \cup [method : {"add_user"}, account : Accounts, info : Infos, role : Roles]
    \cup [method : {"assign_role"}, account : Accounts, role : Roles]

\* The contract asks no message who sends it (lib.rs:80-136): anybody can register
\* anybody, or change a role.
ASSUME ForeignCallsAreCalls == ForeignCalls \subseteq Calls

\* Bounds of the node's and of the contract's own clients, which are not here.
MaxNonce == 0
MaxRequests == 0
NoBody == [kind |-> "none"]
NoNonce == -1

VARIABLES
  aliceNonce,     \* the server's counter; the nonce the next signature takes
  up,             \* the server process runs
  crashes,        \* how often it was killed
  pc,             \* where each request stands
  body,           \* what each request asked for
  nonceOf,        \* the nonce each transaction of a request was given
  answer,         \* the HTTP status of each request
  account_ids,    \* the lines of account_ids.txt
  ready, future, notifications, chain, blocks, finalized, watched,  \* the node
  storage,        \* the contract at the best block
  dispatched      \* ids of included transactions whose dispatch succeeded

apiVars    == <<aliceNonce, up, crashes, pc, body, nonceOf, answer, account_ids>>
poolVars   == <<ready, future, notifications, watched>>
nodeVars   == <<poolVars, chain, blocks, finalized>>
stateVars  == <<storage, dispatched>>
vars       == <<apiVars, nodeVars, stateVars>>

Node     == INSTANCE DevNode
Contract == INSTANCE AccessControl

TransferOf(r) == <<r, "transfer">>
AddUserOf(r)  == <<r, "addUser">>

Init ==
  /\ aliceNonce = 0
  /\ up = TRUE
  /\ crashes = 0
  /\ pc = [r \in Requests |-> "idle"]
  /\ body = [r \in Requests |-> NoBody]
  /\ nonceOf = [id \in TxIds |-> NoNonce]
  /\ answer = [r \in Requests |-> 0]
  /\ account_ids = <<>>
  /\ Node!NodeInit
  /\ storage = Contract!EmptyStorage
  /\ dispatched = {}

-----------------------------------------------------------------------------
(* Steps of a request *)

\* Mutated: the node is asked for the nonce, as syncNonce would.
TakeNonceFromNode(id) ==
  /\ nonceOf' = [nonceOf EXCEPT ![id] = Node!NextNonce]
  /\ aliceNonce' = Node!NextNonce + 1

\* getAndIncrementNonce for one transaction.
TakeNonce(id) ==
  /\ nonceOf' = [nonceOf EXCEPT ![id] = aliceNonce]
  /\ aliceNonce' = aliceNonce + 1

\* Mutated: the status class only.
ReplyClass(r, status) ==
  /\ answer' = [answer EXCEPT ![r] = status \div 100]
  /\ pc' = [pc EXCEPT ![r] = "done"]

Reply(r, status) ==
  /\ answer' = [answer EXCEPT ![r] = status]
  /\ pc' = [pc EXCEPT ![r] = "done"]

\* addUser up to its signature: the nonce is taken first, then the call is
\* encoded; a value that does not encode throws and the handler answers 500.
BeginAddUser(r) ==
  /\ TakeNonce(AddUserOf(r))
  /\ IF body[r].role = Unencodable
     THEN Reply(r, 500)
     ELSE /\ pc' = [pc EXCEPT ![r] = "addUserSigned"]
          /\ UNCHANGED answer

\* transferFunds up to its signature, in the turn in which the request arrives.
BeginTransfer(r) ==
  /\ TakeNonce(TransferOf(r))
  /\ pc' = [pc EXCEPT ![r] = "transferSigned"]
  /\ UNCHANGED answer

\* The endpoints.  create_user transfers nothing and waits six seconds instead;
\* an address that does not decode is refused; grant_permission is a
\* placeholder that reports success.
PostDynamicGas(r, b) == b.kind = DynamicGas /\ BeginTransfer(r)

PostMnemonic(r, b) == b.kind = Mnemonic /\ b.decodes /\ BeginTransfer(r)

PostExisting(r, b) ==
  /\ b.kind = Existing
  /\ \/ b.decodes /\ BeginTransfer(r)
     \/ ~b.decodes /\ Reply(r, 400) /\ UNCHANGED <<aliceNonce, nonceOf>>

PostCreateUser(r, b) ==
  /\ b.kind = CreateUser
  /\ pc' = [pc EXCEPT ![r] = "sleeping"]
  /\ UNCHANGED <<aliceNonce, nonceOf, answer>>

PostGrant(r, b) ==
  b.kind = Grant /\ Reply(r, 200) /\ UNCHANGED <<aliceNonce, nonceOf>>

\* The process dies: its requests are cut off, the one that is just arriving
\* among them, and the node keeps what it accepted.
Die(arriving) ==
  /\ up' = FALSE
  /\ crashes' = crashes + 1
  /\ pc' = [r \in Requests |->
             IF pc[r] = "done" \/ (pc[r] = "idle" /\ r \notin arriving) THEN pc[r] ELSE "cut"]
  /\ UNCHANGED <<aliceNonce, nonceOf, answer, account_ids>>

\* A text that is no mnemonic makes createNewAccount throw, outside the try: a
\* rejection that nobody handles, which ends the process.
PostNoMnemonic(r, b) == b.kind = Mnemonic /\ ~b.decodes /\ Die({r})

Arrive(r) ==
  /\ up
  /\ pc[r] = "idle"
  /\ \E b \in Bodies :
       /\ body' = [body EXCEPT ![r] = b]
       /\ \/ /\ \/ PostDynamicGas(r, b) \/ PostMnemonic(r, b) \/ PostExisting(r, b)
                \/ PostCreateUser(r, b) \/ PostGrant(r, b)
             /\ UNCHANGED <<up, crashes, account_ids>>
          \/ PostNoMnemonic(r, b)
  /\ UNCHANGED <<nodeVars, stateVars>>

WakeUp(r) ==
  /\ pc[r] = "sleeping"
  /\ BeginAddUser(r)
  /\ UNCHANGED <<up, crashes, body, account_ids, nodeVars, stateVars>>

\* transfer.signAndSend reaches the node; a rejected submission rejects the
\* promise of transferFunds.
SendTransfer(r) ==
  /\ pc[r] = "transferSigned"
  /\ Node!Submit(Node!Signed(TransferOf(r), nonceOf[TransferOf(r)], [method |-> "transfer"]))
  /\ IF watched'[TransferOf(r)] = "rejected"
     THEN Reply(r, 500)
     ELSE /\ pc' = [pc EXCEPT ![r] = "transferSent"]
          /\ UNCHANGED answer
  /\ UNCHANGED <<aliceNonce, up, crashes, body, nonceOf, account_ids, stateVars>>

\* Mutated: goes on when the transfer is in a block.
TransferInBlock(r) ==
  /\ pc[r] = "transferSent"
  /\ Node!IsIncluded(TransferOf(r))
  /\ BeginAddUser(r)
  /\ UNCHANGED <<up, crashes, body, account_ids, nodeVars, stateVars>>

\* The status callback of the transfer: finalized, whatever the dispatch did.
TransferFinalized(r) ==
  /\ pc[r] = "transferSent"
  /\ Node!IsFinalized(TransferOf(r))
  /\ BeginAddUser(r)
  /\ UNCHANGED <<up, crashes, body, account_ids, nodeVars, stateVars>>

\* The status callback of the transfer with result.isError.
TransferError(r) ==
  /\ pc[r] = "transferSent"
  /\ watched[TransferOf(r)] = "error"
  /\ Reply(r, 500)
  /\ UNCHANGED <<aliceNonce, up, crashes, body, nonceOf, account_ids, nodeVars, stateVars>>

\* addUserTx.signAndSend reaches the node.  On a rejected submission the catch
\* handler writes to res.locals; without a response object that throws inside
\* the handler, an unhandled rejection, which ends the process.
SendAddUser(r) ==
  /\ pc[r] = "addUserSigned"
  /\ LET call == [method |-> "add_user", account |-> AccountOf(r, body[r]),
                  info |-> InfoOf(body[r]), role |-> body[r].role]
     IN  Node!Submit(Node!Signed(AddUserOf(r), nonceOf[AddUserOf(r)], call))
  /\ IF watched'[AddUserOf(r)] # "rejected"
     THEN /\ pc' = [pc EXCEPT ![r] = "addUserSent"]
          /\ UNCHANGED <<aliceNonce, up, crashes, body, nonceOf, answer, account_ids>>
     ELSE IF body[r].kind \in PassesRes
     THEN /\ Reply(r, 500)
          /\ UNCHANGED <<aliceNonce, up, crashes, body, nonceOf, account_ids>>
     ELSE Die({}) /\ UNCHANGED body
  /\ UNCHANGED stateVars

\* Mutated: answers when add_user is in a block.
AddUserInBlock(r) ==
  /\ pc[r] = "addUserSent"
  /\ Node!IsIncluded(AddUserOf(r))
  /\ body[r].kind \in PassesRes
  /\ account_ids' = IF body[r].kind = DynamicGas THEN Append(account_ids, r) ELSE account_ids
  /\ Reply(r, 200)
  /\ UNCHANGED <<aliceNonce, up, crashes, body, nonceOf, nodeVars, stateVars>>

\* The status callback of add_user at finality, with a response object: the
\* promise resolves whatever the dispatch did.  Only the dynamic endpoint then
\* appends to account_ids.txt, which may fail.
AddUserFinalized(r) ==
  /\ pc[r] = "addUserSent"
  /\ Node!IsFinalized(AddUserOf(r))
  /\ body[r].kind \in PassesRes
  /\ \/ /\ body[r].kind = DynamicGas
        /\ account_ids' = Append(account_ids, AccountOf(r, body[r]))
        /\ Reply(r, 200)
     \/ /\ body[r].kind = DynamicGas
        /\ UNCHANGED account_ids
        /\ Reply(r, 500)
     \/ /\ body[r].kind = CreateUser
        /\ UNCHANGED account_ids
        /\ Reply(r, 200)
  /\ UNCHANGED <<aliceNonce, up, crashes, body, nonceOf, nodeVars, stateVars>>

\* The callback that settles nothing: at finality without a response object
\* (writing res.locals throws in the callback, polkadot-js logs it), or a
\* status callback reporting an error, which addUser does not look at.
AddUserNeverSettles(r) ==
  /\ pc[r] = "addUserSent"
  /\ \/ Node!IsFinalized(AddUserOf(r)) /\ body[r].kind \notin PassesRes
     \/ watched[AddUserOf(r)] = "error"
  /\ pc' = [pc EXCEPT ![r] = "stuck"]
  /\ UNCHANGED <<aliceNonce, up, crashes, body, nonceOf, answer, account_ids, nodeVars, stateVars>>

Step(r) ==
  \/ WakeUp(r)
  \/ SendTransfer(r) \/ TransferFinalized(r) \/ TransferError(r)
  \/ SendAddUser(r) \/ AddUserFinalized(r) \/ AddUserNeverSettles(r)

-----------------------------------------------------------------------------
(* The process *)

Crash ==
  /\ up
  /\ crashes < MaxCrashes
  /\ Die({})
  /\ UNCHANGED <<body, nodeVars, stateVars>>

\* init reads the next nonce from the node, once.
Restart ==
  /\ ~up
  /\ up' = TRUE
  /\ aliceNonce' = Node!NextNonce
  /\ UNCHANGED <<crashes, pc, body, nonceOf, answer, account_ids, nodeVars, stateVars>>

-----------------------------------------------------------------------------
(* The node, executing the contract *)

Succeeds(st, call) ==
  call.method = "add_user" => Contract!AddUserAccepted(st, call.info, call.role)

\* What a call that succeeds leaves in the contract.
CallStorage(st, call) ==
  CASE call.method = "add_user" ->
         Contract!AddUserStorage(st, call.account, call.info, call.role)
    [] call.method = "assign_role" -> Contract!AssignRoleStorage(st, call.account, call.role)
    [] OTHER -> st

\* Mutated: a refused add_user is not rolled back.
ExecuteWithoutRollback(acc, tx) ==
  LET c == tx.call IN
    IF c.method = "add_user"
    THEN [storage |-> Contract!AddUserStorage(acc.storage, c.account, c.info, c.role),
          ok |-> acc.ok \cup (IF Contract!AddUserAccepted(acc.storage, c.info, c.role)
                              THEN {tx.id} ELSE {})]
    ELSE [storage |-> CallStorage(acc.storage, c), ok |-> acc.ok \cup {tx.id}]

\* One extrinsic: an add_user the contract refuses is included all the same,
\* as a failed dispatch that leaves the storage alone.
Execute(acc, tx) ==
  IF Succeeds(acc.storage, tx.call)
  THEN [storage |-> CallStorage(acc.storage, tx.call), ok |-> acc.ok \cup {tx.id}]
  ELSE acc

\* A block of the first k transactions of the queue.
SealBlock ==
  /\ \E k \in Node!BlockLengths :
       /\ Node!SealFirst(k)
       /\ LET after == FoldLeft(Execute, [storage |-> storage, ok |-> dispatched],
                                SubSeq(ready, 1, k))
          IN  storage' = after.storage /\ dispatched' = after.ok
  /\ UNCHANGED apiVars

FinalizeBlock == Node!FinalizeSome /\ UNCHANGED <<apiVars, stateVars>>

ExpireTx == (\E t \in future : Node!Expire(t)) /\ UNCHANGED <<apiVars, stateVars>>

\* Another wallet signs with Alice's key, with the node's next nonce.
ForeignSubmit(i) ==
  /\ \E call \in ForeignCalls :
       Node!Submit(Node!Signed(<<i, "foreign">>, Node!NextNonce, call))
  /\ UNCHANGED <<apiVars, stateVars>>

Next ==
  \/ \E r \in Requests : Arrive(r) \/ Step(r)
  \/ Crash \/ Restart
  \/ SealBlock \/ FinalizeBlock \/ ExpireTx
  \/ \E i \in ForeignTxs : ForeignSubmit(i)

\* Timers fire, what is sent arrives, status callbacks are delivered, and the
\* node's sealing tasks run.  Clients need not send, nothing need fail, and
\* nobody need restart a dead server.
Fairness ==
  /\ \A r \in Requests : WF_vars(Step(r))
  /\ WF_vars(SealBlock)
  /\ WF_vars(FinalizeBlock)

Spec == Init /\ [][Next]_vars /\ Fairness

-----------------------------------------------------------------------------
(* Properties *)

TypeOK ==
  /\ aliceNonce \in Nat
  /\ up \in BOOLEAN
  /\ crashes \in Nat
  /\ pc \in [Requests -> {"idle", "sleeping", "transferSigned", "transferSent",
                          "addUserSigned", "addUserSent", "done", "stuck", "cut"}]
  /\ body \in [Requests -> Bodies \cup {NoBody}]
  /\ nonceOf \in [TxIds -> Nat \cup {NoNonce}]
  /\ answer \in [Requests -> {0, 200, 400, 500}]
  /\ account_ids \in Seq(Accounts)
  /\ dispatched \subseteq TxIds

\* The transactions signed and still on their way to the node.
OnTheWay ==
  {TransferOf(r) : r \in {q \in Requests : pc[q] = "transferSigned"}}
    \cup {AddUserOf(r) : r \in {q \in Requests : pc[q] = "addUserSigned"}}

Held == ToSet(ready) \cup future

\* The counter and the chain agree on what is outstanding: the nonces between
\* the account's nonce on chain and the counter are held, once each, by the
\* transactions in the pool and those on their way.  It is what makes a local
\* counter (server.js:105-110) as good as asking the node.
NonceLedger ==
  LET waiting  == OnTheWay \cup {t.id : t \in Held}
      nonce(i) == nonceOf[i]
  IN  /\ {nonce(i) : i \in waiting} = Node!AccountNonce..(aliceNonce - 1)
      /\ \A i, j \in waiting : nonce(i) = nonce(j) => i = j

\* With a key of its own and a node that keeps running, the server never has a
\* transaction rejected, usurped or dropped, whatever order they arrive in.
NothingIsRefused == \A id \in TxIds : watched[id] \in {"unsent", "accepted"}

\* server.js:613: the account is funded for good before its user is created.
\* The add_user of a request that transfers is never in the chain unless the
\* transfer is in a finalized block before it.
FundedFirst ==
  \A r \in Requests :
    Node!IsIncluded(AddUserOf(r)) /\ body[r].kind # CreateUser
      => Node!IsFinalized(TransferOf(r))

\* A client told 200 by an endpoint that creates users has its add_user in a
\* finalized block: no restart of the server and no later step can undo it.
SuccessIsFinal ==
  \A r \in Requests :
    answer[r] = 200 /\ body[r].kind \in Creating => Node!IsFinalized(AddUserOf(r))

\* account_ids.txt, which the stress test replays, has no line twice, and each
\* line is an account generated by a request whose add_user is final.
FileIsSound ==
  \A i \in DOMAIN account_ids :
    /\ \A j \in DOMAIN account_ids : account_ids[i] = account_ids[j] => i = j
    /\ account_ids[i] \in Requests
    /\ Node!IsFinalized(AddUserOf(account_ids[i]))

IsForeign(t) == t.id[2] = "foreign"

\* The successful calls of add_user for an account.
Registrations(txs, ok, a) ==
  {t \in txs : t.id \in ok /\ t.call.method = "add_user" /\ t.call.account = a}

\* The contract and the chain tell one story, whoever else registers users: each
\* record was written by an add_user in the chain that succeeded, none that
\* succeeded left its account without one, and what the server had a hand in it
\* did for a request, with that request's account and data.
UsersWereAskedFor ==
  \A a \in Accounts :
    LET asked == Registrations(ToSet(chain), dispatched, a) IN
      /\ IF storage.users[a] = NoUser THEN asked = {}
         ELSE \E t \in asked : t.call.info = storage.users[a]
      /\ \A t \in asked : IsForeign(t) \/
           \E r \in Requests :
             t.id = AddUserOf(r) /\ a = AccountOf(r, body[r]) /\ t.call.info = InfoOf(body[r])

\* server.js:613-640: the handler waits until the transfer is finalized, then
\* "Responder con éxito", and reports any error: every request to the endpoints
\* that pass the response object is answered.
EveryRequestIsAnswered ==
  \A r \in Requests :
    body[r].kind \in PassesRes ~> answer[r] # 0

\* server.js:628-630: "Responder con éxito ... Usuario creado con éxito", and
\* server.js:235 "Transacción exitosa": a 200 means the user exists.
SuccessMeansRegistered ==
  \A r \in Requests :
    answer[r] = 200 /\ body[r].kind \in Creating
      => storage.users[AccountOf(r, body[r])] # NoUser
=============================================================================
