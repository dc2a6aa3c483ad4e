-------------------------- MODULE MCAccessControl --------------------------
(***************************************************************************)
(* The instance of AccessControl for TLC.  The messages fall in three      *)
(* groups that touch disjoint parts of the storage: registrations and      *)
(* roles, consents, requests.  Each group is explored in full with three   *)
(* accounts, together with at most Budget of what the others leave behind. *)
(***************************************************************************)
EXTENDS AccessControl, FiniteSets

CONSTANT Budget

Registry == Cardinality({a \in Accounts : storage.roles[a] # NoRole})
Consents == Cardinality({p \in Accounts \X Accounts : storage.permissions[p]})
Requests == Cardinality({a \in Accounts : storage.access_requests[a] # <<>>})

MCNext ==
  \/ /\ Consents + Requests <= Budget
     /\ \/ \E a \in Accounts, info \in UserInfo, role \in Roles : AddUser(a, info, role)
        \/ \E a \in Accounts, role \in Roles : AssignRole(a, role)
  \/ /\ Registry + Requests <= Budget
     /\ \/ \E g, e \in Accounts : GrantPermission(g, e)
        \/ \E g, e \in Accounts : RevokePermission(g, e)
  \/ /\ Registry + Consents <= Budget
     /\ \E r, t \in Accounts : RequestAccess(r, t)

MCSpec == Init /\ [][MCNext]_vars

\* No message and no property tells accounts or valid DNIs apart.
Symmetry == Permutations(Accounts) \cup Permutations(Dnis)
=============================================================================
