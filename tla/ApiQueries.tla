----------------------------- MODULE ApiQueries -----------------------------
(***************************************************************************)
(* The GET endpoints of src/API/server.js that ask the contract about an   *)
(* identity and about an account.  A query runs the message on the state   *)
(* of the node's best block and changes nothing, so an endpoint is the     *)
(* operator that gives its answer; the state is the one of ApiServer.      *)
(*                                                                         *)
(* The contract's messages return their value inside a Result, which is    *)
(* what `output` is: GET /get_accounts looks into its `ok`, GET /role      *)
(* treats it as the Option inside.                                         *)
(***************************************************************************)
EXTENDS ApiServer

\* GET /get_accounts/:dni on a contract that answers.
GetAccounts(dni) ==
  LET found == Contract!HoldersOf(storage, dni) IN
    IF found = {} THEN [status |-> 404, accounts |-> {}]
    ELSE [status |-> 200, accounts |-> found]

\* Mutated: the role is tested as a condition, so role 0 counts as none.
GetRoleTruthy(account) ==
  LET role == storage.roles[account] IN
    IF role = NoRole \/ role = 0 THEN [status |-> 404, role |-> NoRole]
    ELSE [status |-> 200, role |-> role]

\* GET /role/:publicAddress for an address that decodes, on a contract that
\* answers.  A Result has no isNone, so an account without a role is not
\* answered 404 but 200 and an empty role.
GetRole(account) == [status |-> 200, role |-> storage.roles[account]]

-----------------------------------------------------------------------------
(* Properties *)

\* A call of somebody else's that succeeded names the account.
MeddledWith(txs, ok, a) ==
  \E t \in txs :
    IsForeign(t) /\ t.id \in ok /\ t.call.method \in {"add_user", "assign_role"} /\ t.call.account = a

\* An answer 200 to a creation does not say whether the contract took the user
\* (server.js:200-238).  The queries do: once the add_user of a request for a
\* generated account is in a block, the identity lists the account and the
\* account has the requested role if the dispatch succeeded, and neither is so
\* if it did not: whoever competes for the identity, as long as nobody else
\* names that very account to the contract.
QueriesTellTheOutcome ==
  \A r \in Requests :
    body[r].kind \in PassesRes /\ Node!IsIncluded(AddUserOf(r))
      /\ ~MeddledWith(ToSet(chain), dispatched, r) =>
      LET registered == AddUserOf(r) \in dispatched IN
        /\ r \in GetAccounts(body[r].dni).accounts <=> registered
        /\ registered => GetAccounts(body[r].dni).status = 200
        /\ GetRole(r).role = (IF registered THEN body[r].role ELSE NoRole)
=============================================================================
