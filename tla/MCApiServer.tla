---------------------------- MODULE MCApiServer ----------------------------
(***************************************************************************)
(* Instances of ApiServer for TLC: what the clients of each run ask for.   *)
(***************************************************************************)
EXTENDS ApiQueries

CONSTANTS
  d1, shortDni, m1,
  Slow  \* in the exclusive run: the requests sent to create_user

\* A request of each kind, for one DNI; m1 is the account a client names.
Ask(kind, dni, role) ==
  [kind |-> kind, dni |-> dni, role |-> role, valid |-> TRUE,
   account |-> m1, other |-> m1, decodes |-> TRUE]

\* What the stress test's sequential and concurrent modes send, and the slower
\* endpoint that does not transfer.
WellFormed == {Ask(DynamicGas, d1, 0), Ask(DynamicGas, d1, 1), Ask(CreateUser, d1, 1)}

\* The exclusive run: who asks for what is settled, the rest is not.
BodyOf(r) == IF r \in Slow THEN Ask(CreateUser, d1, 1) ELSE Ask(DynamicGas, d1, 0)

ExclusiveSpec ==
  /\ Init
  /\ [][Next /\ \A r \in Requests : body'[r] \in {NoBody, BodyOf(r)}]_vars
  /\ Fairness

\* Everything an endpoint can be sent.
Anything ==
  {Ask(DynamicGas, d1, 0), Ask(CreateUser, d1, 1), Ask(DynamicGas, d1, Unencodable),
   [Ask(CreateUser, shortDni, 1) EXCEPT !.valid = FALSE],
   Ask(Mnemonic, d1, 1), Ask(Existing, d1, 1),
   [Ask(Existing, d1, 1) EXCEPT !.decodes = FALSE],
   [Ask(Mnemonic, d1, 1) EXCEPT !.decodes = FALSE],
   Ask(Grant, d1, 0)}

\* What other wallets send: users and roles for anybody, the accounts generated
\* for requests included.
Meddling ==
  {[method |-> "add_user", account |-> a, info |-> InfoOf(Ask(DynamicGas, d1, 0)), role |-> 0]
     : a \in Requests \cup {m1}}
    \cup {[method |-> "assign_role", account |-> a, role |-> 1] : a \in Requests}

\* Requests differ in what they ask for only.
Alike == Permutations(Requests)

\* Good requests next to one that takes a nonce it never uses.
Disturbing == {Ask(DynamicGas, d1, 0), Ask(DynamicGas, d1, Unencodable)}
=============================================================================
