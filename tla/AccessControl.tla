--------------------------- MODULE AccessControl ---------------------------
(***************************************************************************)
(* The ink! contract of src/smart_contract/lib.rs: identities (a DNI with  *)
(* at most two accounts), roles, consent between accounts, and access      *)
(* requests.                                                               *)
(*                                                                         *)
(* A message of the contract is a pair of operators on the storage struct: *)
(* one that says what the message returns (or whether it is accepted) and  *)
(* one that gives the storage it leaves.  A message that returns Err       *)
(* reverts: pallet-contracts rolls the storage back, so it is no step.     *)
(* A Mapping that the code only reads through unwrap_or is a total         *)
(* function with that default; users and roles, whose absence is           *)
(* observable, use NoUser and NoRole.                                      *)
(***************************************************************************)
EXTENDS Naturals, SequencesExt

CONSTANTS
  Accounts,     \* AccountId values
  Dnis,         \* DNI strings of exactly 8 bytes
  OddDnis,      \* DNI strings of any other length, the empty one included
  NameLengths,  \* byte lengths of name and lastname that callers send
  Roles,        \* u8 values that callers send as a role
  MaxRequests,  \* bound: length of one account's list of access requests
  None,         \* an empty account slot
  NoUser,       \* no entry in users
  NoRole        \* no entry in roles

ASSUME LengthsAreNatural == NameLengths \subseteq Nat
ASSUME RolesAreU8 == Roles \subseteq 0..255
ASSUME MaxRequestsIsNatural == MaxRequests \in Nat
ASSUME DistinguishedValues ==
  /\ None \notin Accounts
  /\ NoRole \notin 0..255
  /\ Dnis \cap OddDnis = {}

UserInfo ==
  [name : NameLengths, lastname : NameLengths, dni : Dnis \cup OddDnis, email : BOOLEAN]

ASSUME NoUserIsNoRecord == NoUser \notin UserInfo

VARIABLE storage  \* the contract's storage struct

vars == <<storage>>

Slots == 1..2
AllDnis == Dnis \cup OddDnis

Storage ==
  [accounts        : [AllDnis -> [Slots -> Accounts \cup {None}]],
   users           : [Accounts -> UserInfo \cup {NoUser}],
   roles           : [Accounts -> Roles \cup {NoRole}],
   permissions     : [Accounts \X Accounts -> BOOLEAN],
   grantees        : [Accounts -> Seq(Accounts)],
   access_requests : [Accounts -> Seq(Accounts)]]

EmptyStorage ==
  [accounts        |-> [d \in AllDnis |-> [i \in Slots |-> None]],
   users           |-> [a \in Accounts |-> NoUser],
   roles           |-> [a \in Accounts |-> NoRole],
   permissions     |-> [p \in Accounts \X Accounts |-> FALSE],
   grantees        |-> [a \in Accounts |-> <<>>],
   access_requests |-> [a \in Accounts |-> <<>>]]

-----------------------------------------------------------------------------
(* Queries *)

\* The occupied slots of a DNI.
HoldersOf(st, d) == {st.accounts[d][i] : i \in Slots} \ {None}

RegisteredAccounts(st) == {a \in Accounts : st.users[a] # NoUser}

\* roles.get(acc).unwrap_or(2)
RoleOrTwo(st, a) == IF st.roles[a] = NoRole THEN 2 ELSE st.roles[a]

-----------------------------------------------------------------------------
(* add_user *)

\* Mutated: the length of the DNI is not checked.
ValidInfoAnyDni(info) ==
  info.name \in 1..12 /\ info.lastname \in 1..12 /\ info.email

\* The "control secundario de datos": lengths in bytes, '@' in the e-mail.
ValidInfo(info) ==
  /\ info.name \in 1..12
  /\ info.lastname \in 1..12
  /\ info.dni \in Dnis
  /\ info.email

\* Mutated: the roles of the DNI's accounts are not compared.
AddUserAcceptedAnyRole(st, info, role) ==
  ValidInfo(info) /\ \E i \in Slots : st.accounts[info.dni][i] = None

AddUserAccepted(st, info, role) ==
  /\ ValidInfo(info)
  /\ \E i \in Slots : st.accounts[info.dni][i] = None
  /\ \A a \in HoldersOf(st, info.dni) : RoleOrTwo(st, a) # role

\* Mutated: always the first slot.
FreeSlotFirst(st, d) == 1

FreeSlot(st, d) == IF st.accounts[d][1] = None THEN 1 ELSE 2

\* Mutated: roles.insert is missing.
AddUserStorageWithoutRole(st, a, info, role) ==
  [st EXCEPT !.accounts[info.dni][FreeSlot(st, info.dni)] = a, !.users[a] = info]

AddUserStorage(st, a, info, role) ==
  [st EXCEPT !.accounts[info.dni][FreeSlot(st, info.dni)] = a,
             !.users[a] = info,
             !.roles[a] = role]

-----------------------------------------------------------------------------
(* The other messages *)

AssignRoleStorage(st, a, role) == [st EXCEPT !.roles[a] = role]

RequestAccessStorage(st, requester, target) ==
  [st EXCEPT !.access_requests[requester] = Append(@, target)]

GrantAccepted(st, granter, grantee) == ~st.permissions[<<granter, grantee>>]

GrantStorage(st, granter, grantee) ==
  [st EXCEPT !.permissions[<<granter, grantee>>] = TRUE,
             !.grantees[granter] =
               IF Contains(@, grantee) THEN @ ELSE Append(@, grantee)]

RevokeAccepted(st, granter, grantee) == st.permissions[<<granter, grantee>>]

\* Mutated: the list of grantees is left as it is.
RevokeStorageKeepingList(st, granter, grantee) ==
  [st EXCEPT !.permissions[<<granter, grantee>>] = FALSE]

\* Mutated: the list entry is cleared instead of removed.
RevokeStorageClearing(st, granter, grantee) ==
  [st EXCEPT !.permissions[<<granter, grantee>>] = FALSE,
             !.grantees[granter] =
               [i \in DOMAIN @ |-> IF @[i] = grantee THEN None ELSE @[i]]]

RevokeStorage(st, granter, grantee) ==
  [st EXCEPT !.permissions[<<granter, grantee>>] = FALSE,
             !.grantees[granter] = RemoveFirst(@, grantee)]

-----------------------------------------------------------------------------
(* The state machine: any caller sends any message *)

AddUser(a, info, role) ==
  /\ AddUserAccepted(storage, info, role)
  /\ storage' = AddUserStorage(storage, a, info, role)

AssignRole(a, role) == storage' = AssignRoleStorage(storage, a, role)

RequestAccess(requester, target) ==
  /\ Len(storage.access_requests[requester]) < MaxRequests
  /\ storage' = RequestAccessStorage(storage, requester, target)

GrantPermission(granter, grantee) ==
  /\ GrantAccepted(storage, granter, grantee)
  /\ storage' = GrantStorage(storage, granter, grantee)

RevokePermission(granter, grantee) ==
  /\ RevokeAccepted(storage, granter, grantee)
  /\ storage' = RevokeStorage(storage, granter, grantee)

Init == storage = EmptyStorage

Next ==
  \/ \E a \in Accounts, info \in UserInfo, role \in Roles : AddUser(a, info, role)
  \/ \E a \in Accounts, role \in Roles : AssignRole(a, role)
  \/ \E r, t \in Accounts : RequestAccess(r, t)
  \/ \E g, e \in Accounts : GrantPermission(g, e)
  \/ \E g, e \in Accounts : RevokePermission(g, e)

Spec == Init /\ [][Next]_vars

-----------------------------------------------------------------------------
(* Properties *)

\* Type invariant: the storage struct of lib.rs:58-65.
TypeOK == storage \in Storage

\* lib.rs keeps every consent twice, as a boolean per pair and as a list per
\* granter, updated by different statements of grant_permission and
\* revoke_permission.  The two always agree, and no list names a grantee
\* twice (else revoking, which removes one entry, would leave the other).
PermissionsMatchGrantees ==
  \A g \in Accounts :
    LET list == storage.grantees[g] IN
      /\ \A e \in Accounts : storage.permissions[<<g, e>>] <=> Contains(list, e)
      /\ \A i, j \in DOMAIN list : list[i] = list[j] => i = j

\* add_user writes three mappings.  A registered user's account is always in
\* the slots of the DNI stored in its own user record, and whatever occupies
\* a slot is a registered user with a role (so the default role 2 of
\* lib.rs:111 is never what the role check compares with).
UsersIndexed ==
  /\ \A a \in RegisteredAccounts(storage) : a \in HoldersOf(storage, storage.users[a].dni)
  /\ \A d \in AllDnis : \A a \in HoldersOf(storage, d) :
       a \in RegisteredAccounts(storage) /\ storage.roles[a] # NoRole

\* An account is bound to a DNI for ever: no message frees or overwrites a
\* slot once taken (there is no way to leave a DNI; re-registration under
\* another DNI keeps the old binding).
BindingsArePermanent ==
  [][\A d \in AllDnis : \A i \in Slots :
       storage.accounts[d][i] # None => storage'.accounts[d][i] = storage.accounts[d][i]]_vars

RolesDiffer(st, d) ==
  \A a, b \in HoldersOf(st, d) : a # b => st.roles[a] # st.roles[b]

\* The role check of add_user compares the new role with roles read before it
\* writes anything.  It is enough for registrations: the roles of a DNI's two
\* accounts come to clash only in a step that overwrites the role of an
\* account the DNI already had (assign_role, or its registration elsewhere).
RolesClashOnlyByOverwriting ==
  [][\A d \in AllDnis :
       RolesDiffer(storage, d) /\ ~RolesDiffer(storage', d)
         => \E a \in HoldersOf(storage, d) : storage'.roles[a] # storage.roles[a]]_vars

\* The contract implements the abstract ledger: its lists of grantees are a set
\* of consents that grant_permission and revoke_permission change by exactly
\* one pair, and add_user binds one account to one DNI with room for it.
Ledger == INSTANCE ConsentLedger WITH
  Identities <- Dnis,
  Unknown    <- NoUser,
  consent    <- {p \in Accounts \X Accounts : Contains(storage.grantees[p[1]], p[2])},
  holders    <- [d \in Dnis |-> HoldersOf(storage, d)],
  identity   <- [a \in Accounts |->
                   IF storage.users[a] = NoUser THEN NoUser ELSE storage.users[a].dni]

ImplementsLedger == Ledger!Spec

\* The comment at lib.rs:109 and the error text at lib.rs:113: the two accounts
\* of one DNI cannot have the same role.
DistinctRolesPerDni == \A d \in AllDnis : RolesDiffer(storage, d)
=============================================================================
