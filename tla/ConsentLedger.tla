--------------------------- MODULE ConsentLedger ---------------------------
(***************************************************************************)
(* What the contract promises its users, without the way it stores it: a   *)
(* set of consents, an identity per registered account, and the accounts   *)
(* that hold each identity.  AccessControl (src/smart_contract/lib.rs) is  *)
(* shown to implement it.                                                  *)
(***************************************************************************)
CONSTANTS Accounts, Identities, Unknown

VARIABLES
  consent,   \* the pairs <<granter, grantee>> of consent in force
  holders,   \* for each identity, the accounts ever bound to it
  identity   \* for each account, the identity it last registered, or Unknown

ledger == <<consent, holders, identity>>

Init ==
  /\ consent = {}
  /\ holders = [d \in Identities |-> {}]
  /\ identity = [a \in Accounts |-> Unknown]

\* An identity takes a new registration while at most one account holds it.
Register(a, d) ==
  /\ \A x, y \in holders[d] : x = y
  /\ holders' = [holders EXCEPT ![d] = @ \cup {a}]
  /\ identity' = [identity EXCEPT ![a] = d]
  /\ UNCHANGED consent

Grant(g, e) ==
  /\ <<g, e>> \notin consent
  /\ consent' = consent \cup {<<g, e>>}
  /\ UNCHANGED <<holders, identity>>

Revoke(g, e) ==
  /\ <<g, e>> \in consent
  /\ consent' = consent \ {<<g, e>>}
  /\ UNCHANGED <<holders, identity>>

Next ==
  \/ \E a \in Accounts, d \in Identities : Register(a, d)
  \/ \E g, e \in Accounts : Grant(g, e) \/ Revoke(g, e)

Spec == Init /\ [][Next]_ledger
=============================================================================
