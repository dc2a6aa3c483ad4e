------------------------ MODULE AccessControlProofs ------------------------
(***************************************************************************)
(* Theorems about AccessControl, for every set of accounts, DNIs, name     *)
(* lengths and roles and for any bound on the access requests.             *)
(***************************************************************************)
EXTENDS AccessControl, TLAPS

Sq == INSTANCE SequenceTheorems

NoDuplicates(s) == \A i, j \in DOMAIN s : s[i] = s[j] => i = j

-----------------------------------------------------------------------------
(* Lists of accounts *)

\* Pushing adds exactly the pushed element.
LEMMA AppendLemma ==
  ASSUME NEW S, NEW s \in Seq(S), NEW e \in S
  PROVE  /\ Append(s, e) \in Seq(S)
         /\ \A x : Contains(Append(s, e), x) <=> (Contains(s, x) \/ x = e)
         /\ NoDuplicates(s) /\ ~Contains(s, e) => NoDuplicates(Append(s, e))
<1> DEFINE t == Append(s, e)
<1>1. /\ t \in Seq(S)
      /\ Len(t) = Len(s) + 1
      /\ \A i \in 1..Len(s) : t[i] = s[i]
      /\ t[Len(s) + 1] = e
      /\ DOMAIN t = 1..(Len(s) + 1)
      /\ DOMAIN s = 1..Len(s)
      /\ Len(s) \in Nat
  OBVIOUS
<1> HIDE DEF t
<1>2. \A i \in 1..Len(t) : i = Len(s) + 1 \/ i \in 1..Len(s)
  BY <1>1
<1>3. \A x : Contains(t, x) <=> (Contains(s, x) \/ x = e)
  BY <1>1, <1>2 DEF Contains
<1>4. NoDuplicates(s) /\ ~Contains(s, e) => NoDuplicates(t)
  BY <1>1, <1>2 DEF Contains, NoDuplicates
<1>5. QED
  BY <1>1, <1>3, <1>4 DEF t

\* Removing the first occurrence from a list without duplicates leaves a list
\* without duplicates that contains everything else and nothing more.
LEMMA RemoveFirstLemma ==
  ASSUME NEW S, NEW s \in Seq(S), NEW e, NoDuplicates(s), Contains(s, e)
  PROVE  /\ RemoveFirst(s, e) \in Seq(S)
         /\ NoDuplicates(RemoveFirst(s, e))
         /\ \A x : Contains(RemoveFirst(s, e), x) <=> (Contains(s, x) /\ x # e)
<1>1. PICK k \in 1..Len(s) : s[k] = e
  BY DEF Contains
<1>2. DOMAIN s = 1..Len(s) /\ Len(s) \in Nat
  OBVIOUS
<1>3. {i \in 1..Len(s) : s[i] = e} = {k}
  BY <1>1, <1>2 DEF NoDuplicates
<1>4. Min({k}) = k
  <2>1. k \in {k} /\ \A y \in {k} : k <= y
    BY <1>1
  <2>2. QED
    BY <2>1 DEF Min
<1>5. SelectInSeq(s, LAMBDA v : v = e) = k
  BY <1>3, <1>4 DEF SelectInSeq
<1> DEFINE t == SubSeq(s, 1, k-1) \o SubSeq(s, k+1, Len(s))
<1>6. RemoveFirst(s, e) = t
  BY <1>1, <1>5 DEF RemoveFirst, RemoveAt
<1> HIDE DEF t
<1>7. /\ t \in Seq(S)
      /\ Len(t) = Len(s) - 1
      /\ \A i \in 1..(Len(s) - 1) : t[i] = IF i < k THEN s[i] ELSE s[i+1]
  <2>1. /\ SubSeq(s, 1, k-1) \in Seq(S)
        /\ Len(SubSeq(s, 1, k-1)) = k - 1
        /\ \A i \in 1..(k-1) : SubSeq(s, 1, k-1)[i] = s[i]
    BY <1>1, <1>2
  <2>2. /\ SubSeq(s, k+1, Len(s)) \in Seq(S)
        /\ Len(SubSeq(s, k+1, Len(s))) = Len(s) - k
        /\ \A i \in 1..(Len(s) - k) : SubSeq(s, k+1, Len(s))[i] = s[i + k]
    <3>1. \A i \in (k+1)..Len(s) : s[i] \in S
      BY <1>1, <1>2
    <3>2. /\ SubSeq(s, k+1, Len(s)) \in Seq(S)
          /\ Len(SubSeq(s, k+1, Len(s)))
               = IF k+1 <= Len(s) THEN Len(s) - (k+1) + 1 ELSE 0
          /\ \A i \in 1..(Len(s) - (k+1) + 1) :
               SubSeq(s, k+1, Len(s))[i] = s[(k+1) + i - 1]
      BY <1>1, <1>2, <3>1, Sq!SubSeqProperties
    <3>3. /\ Len(s) - (k+1) + 1 = Len(s) - k
          /\ (IF k+1 <= Len(s) THEN Len(s) - (k+1) + 1 ELSE 0) = Len(s) - k
      <4> DEFINE n == Len(s)
      <4>1. n \in Nat /\ k \in Nat /\ k <= n
        BY <1>1, <1>2
      <4> HIDE DEF n
      <4>2. n - (k+1) + 1 = n - k /\ (~(k+1 <= n) => n - k = 0)
        BY <4>1
      <4>3. QED
        BY <4>2 DEF n
    <3>4. ASSUME NEW i \in 1..(Len(s) - k)
          PROVE  SubSeq(s, k+1, Len(s))[i] = s[i + k]
      <4>1. (k+1) + i - 1 = i + k
        BY <1>1, <1>2
      <4>2. QED
        BY <3>2, <3>3, <4>1
    <3>5. QED
      BY <3>2, <3>3, <3>4
  <2> DEFINE u == SubSeq(s, 1, k-1)
             v == SubSeq(s, k+1, Len(s))
  <2> HIDE DEF u, v
  <2>3. /\ u \o v \in Seq(S)
        /\ Len(u \o v) = Len(u) + Len(v)
        /\ \A i \in 1..(Len(u) + Len(v)) :
             (u \o v)[i] = IF i <= Len(u) THEN u[i] ELSE v[i - Len(u)]
    BY <2>1, <2>2, Sq!ConcatProperties DEF u, v
  <2>4. /\ t = u \o v
        /\ Len(u) = k - 1
        /\ Len(v) = Len(s) - k
    BY <2>1, <2>2 DEF t, u, v
  <2>5. ASSUME NEW i \in 1..(Len(s) - 1)
        PROVE  t[i] = IF i < k THEN s[i] ELSE s[i+1]
    <3> i \in 1..(Len(u) + Len(v)) /\ i \in Int
      BY <1>1, <1>2, <2>4
    <3>1. CASE i < k
      <4>1. i <= Len(u) /\ i \in 1..(k-1)
        BY <1>1, <1>2, <2>4, <3>1
      <4>2. t[i] = u[i]
        BY <2>3, <2>4, <4>1
      <4>3. u[i] = s[i]
        BY <2>1, <4>1 DEF u
      <4>4. QED
        BY <3>1, <4>2, <4>3
    <3>2. CASE ~(i < k)
      <4>1. i - (k - 1) \in 1..(Len(s) - k) /\ i - (k - 1) + k = i + 1
        BY <1>1, <1>2, <3>2
      <4>2. t[i] = v[i - (k - 1)]
        <5>1. ~(i <= Len(u)) /\ i - Len(u) = i - (k - 1)
          BY <1>1, <1>2, <2>4, <3>2
        <5>2. QED
          BY <2>3, <2>4, <5>1
      <4>3. v[i - (k - 1)] = s[i + 1]
        BY <2>2, <4>1 DEF v
      <4>4. QED
        BY <3>2, <4>2, <4>3
    <3>3. QED
      BY <3>1, <3>2
  <2>6. QED
    <3>1. (k - 1) + (Len(s) - k) = Len(s) - 1
      BY <1>1, <1>2
    <3>2. QED
      BY <2>3, <2>4, <2>5, <3>1
<1>8. DOMAIN t = 1..(Len(s) - 1)
  BY <1>2, <1>7
<1>9. NoDuplicates(t)
  BY <1>1, <1>2, <1>7, <1>8 DEF NoDuplicates
<1>10. ASSUME NEW x, Contains(t, x) PROVE Contains(s, x) /\ x # e
  <2>1. PICK i \in 1..(Len(s) - 1) : t[i] = x
    BY <1>7, <1>10 DEF Contains
  <2>2. PICK j \in 1..Len(s) : j # k /\ s[j] = x
    <3>1. CASE i < k
      BY <1>1, <1>2, <1>7, <2>1, <3>1
    <3>2. CASE ~(i < k)
      <4>1. i + 1 \in 1..Len(s) /\ i + 1 # k
        BY <1>1, <1>2, <2>1, <3>2
      <4>2. QED
        BY <1>7, <2>1, <3>2, <4>1
    <3>3. QED
      BY <3>1, <3>2
  <2>3. QED
    BY <1>1, <1>2, <2>2 DEF Contains, NoDuplicates
<1>11. ASSUME NEW x, Contains(s, x), x # e PROVE Contains(t, x)
  <2>1. PICK i \in 1..Len(s) : s[i] = x
    BY <1>11 DEF Contains
  <2>2. i # k
    BY <1>1, <1>11, <2>1
  <2>3. CASE i < k
    BY <1>1, <1>2, <1>7, <2>1, <2>3 DEF Contains
  <2>4. CASE i > k
    <3>1. i - 1 \in 1..(Len(s) - 1) /\ ~(i - 1 < k) /\ (i - 1) + 1 = i
      BY <1>1, <1>2, <2>1, <2>4
    <3>2. QED
      BY <1>7, <2>1, <3>1 DEF Contains
  <2>5. QED
    BY <1>1, <2>1, <2>2, <2>3, <2>4
<1>12. QED
  BY <1>6, <1>7, <1>9, <1>10, <1>11

-----------------------------------------------------------------------------
(* What each message does to the storage struct, field by field *)

\* grant_permission writes permissions and the granter's list only.
LEMMA GrantFields ==
  ASSUME NEW st \in Storage, NEW g \in Accounts, NEW e \in Accounts,
         NEW n, n = GrantStorage(st, g, e)
  PROVE  /\ n \in Storage
         /\ \A p \in Accounts \X Accounts :
                p # <<g, e>> => (n.permissions[p] <=> st.permissions[p])
         /\ n.permissions[<<g, e>>]
         /\ \A h \in Accounts : h # g => n.grantees[h] = st.grantees[h]
         /\ n.grantees[g] = IF Contains(st.grantees[g], e) THEN st.grantees[g]
                              ELSE Append(st.grantees[g], e)
         /\ n.accounts = st.accounts
         /\ n.users = st.users
         /\ n.roles = st.roles
         /\ n.access_requests = st.access_requests
<1>1. st.grantees[g] \in Seq(Accounts)
  BY DEF Storage
<1>2. Append(st.grantees[g], e) \in Seq(Accounts)
  BY <1>1, AppendLemma
<1>3. QED
  BY <1>1, <1>2 DEF Storage, GrantStorage

\* revoke_permission writes permissions and the granter's list only.
LEMMA RevokeFields ==
  ASSUME NEW st \in Storage, NEW g \in Accounts, NEW e \in Accounts,
         RemoveFirst(st.grantees[g], e) \in Seq(Accounts),
         NEW n, n = RevokeStorage(st, g, e)
  PROVE  /\ n \in Storage
         /\ \A p \in Accounts \X Accounts :
                p # <<g, e>> => (n.permissions[p] <=> st.permissions[p])
         /\ ~n.permissions[<<g, e>>]
         /\ \A h \in Accounts : h # g => n.grantees[h] = st.grantees[h]
         /\ n.grantees[g] = RemoveFirst(st.grantees[g], e)
         /\ n.accounts = st.accounts
         /\ n.users = st.users
         /\ n.roles = st.roles
         /\ n.access_requests = st.access_requests
BY DEF Storage, RevokeStorage

\* add_user writes one slot of the DNI, the user record and the role.
LEMMA AddUserFields ==
  ASSUME NEW st \in Storage, NEW a \in Accounts, NEW info \in UserInfo, NEW r \in Roles,
         NEW n, n = AddUserStorage(st, a, info, r),
         NEW k, k = FreeSlot(st, info.dni)
  PROVE  /\ n \in Storage
         /\ k \in Slots
         /\ n.accounts[info.dni][k] = a
         /\ \A d \in AllDnis : \A i \in Slots :
                (d # info.dni \/ i # k) => n.accounts[d][i] = st.accounts[d][i]
         /\ n.users[a] = info
         /\ \A b \in Accounts : b # a => n.users[b] = st.users[b]
         /\ n.roles[a] = r
         /\ \A b \in Accounts : b # a => n.roles[b] = st.roles[b]
         /\ n.permissions = st.permissions
         /\ n.grantees = st.grantees
         /\ n.access_requests = st.access_requests
<1>1. k \in Slots /\ info.dni \in AllDnis
  BY DEF FreeSlot, Slots, UserInfo, AllDnis
<1>2. QED
  BY <1>1 DEF Storage, AddUserStorage

\* assign_role writes the role only.
LEMMA AssignRoleFields ==
  ASSUME NEW st \in Storage, NEW a \in Accounts, NEW r \in Roles,
         NEW n, n = AssignRoleStorage(st, a, r)
  PROVE  /\ n \in Storage
         /\ n.roles[a] = r
         /\ \A b \in Accounts : b # a => n.roles[b] = st.roles[b]
         /\ n.accounts = st.accounts
         /\ n.users = st.users
         /\ n.permissions = st.permissions
         /\ n.grantees = st.grantees
         /\ n.access_requests = st.access_requests
BY DEF Storage, AssignRoleStorage

\* request_access writes the requester's list only.
LEMMA RequestAccessFields ==
  ASSUME NEW st \in Storage, NEW r \in Accounts, NEW t \in Accounts,
         NEW n, n = RequestAccessStorage(st, r, t)
  PROVE  /\ n \in Storage
         /\ n.accounts = st.accounts
         /\ n.users = st.users
         /\ n.roles = st.roles
         /\ n.permissions = st.permissions
         /\ n.grantees = st.grantees
<1>1. Append(st.access_requests[r], t) \in Seq(Accounts)
  BY DEF Storage
<1>2. QED
  BY <1>1 DEF Storage, RequestAccessStorage

-----------------------------------------------------------------------------
(* Consent: the type invariant and the agreement of booleans and lists.    *)
(* They are proved together: that a revocation leaves a list of accounts   *)
(* needs to know that the list holds the grantee, and holds it once.       *)

ConsentInv == TypeOK /\ PermissionsMatchGrantees

\* The freshly deployed contract records no consent in either form.
LEMMA ConsentInit == Init => ConsentInv
<1> SUFFICES ASSUME Init PROVE ConsentInv
  OBVIOUS
<1>1. TypeOK
  BY DEF Init, TypeOK, EmptyStorage, Storage
<1>2. PermissionsMatchGrantees
  BY DEF Init, EmptyStorage, PermissionsMatchGrantees, Contains
<1>3. QED
  BY <1>1, <1>2 DEF ConsentInv

\* grant_permission sets the boolean and pushes the grantee in one step, and
\* only when the pair was not granted, so the list gets no second entry.
LEMMA ConsentGrant ==
  ASSUME ConsentInv, NEW g \in Accounts, NEW e \in Accounts, GrantPermission(g, e)
  PROVE  ConsentInv'
<1> USE DEF ConsentInv
<1>1. /\ storage \in Storage
      /\ ~storage.permissions[<<g, e>>]
      /\ ~Contains(storage.grantees[g], e)
      /\ storage' = GrantStorage(storage, g, e)
      /\ storage.grantees[g] \in Seq(Accounts)
  BY DEF GrantPermission, GrantAccepted, TypeOK, Storage, PermissionsMatchGrantees
<1>2. /\ storage' \in Storage
      /\ \A p \in Accounts \X Accounts :
           p # <<g, e>> => (storage'.permissions[p] <=> storage.permissions[p])
      /\ storage'.permissions[<<g, e>>]
      /\ \A h \in Accounts : h # g => storage'.grantees[h] = storage.grantees[h]
      /\ storage'.grantees[g] = Append(storage.grantees[g], e)
  <2>1. g \in DOMAIN storage.grantees
    BY <1>1 DEF Storage
  <2>2. /\ storage' \in Storage
        /\ \A p \in Accounts \X Accounts :
             p # <<g, e>> => (storage'.permissions[p] <=> storage.permissions[p])
        /\ storage'.permissions[<<g, e>>]
        /\ \A h \in Accounts : h # g => storage'.grantees[h] = storage.grantees[h]
    BY <1>1, GrantFields
  <2>3. storage'.grantees[g] = Append(storage.grantees[g], e)
    BY <1>1, <2>1 DEF GrantStorage
  <2>4. QED
    BY <2>2, <2>3
<1>3. /\ \A x : Contains(storage'.grantees[g], x) <=> (Contains(storage.grantees[g], x) \/ x = e)
      /\ NoDuplicates(storage.grantees[g]) => NoDuplicates(storage'.grantees[g])
  BY <1>1, <1>2, AppendLemma
<1>4. ASSUME NEW h \in Accounts
      PROVE  /\ \A x \in Accounts :
                  storage'.permissions[<<h, x>>] <=> Contains(storage'.grantees[h], x)
             /\ NoDuplicates(storage'.grantees[h])
  <2>1. CASE h = g
    BY <1>2, <1>3, <2>1 DEF PermissionsMatchGrantees, NoDuplicates
  <2>2. CASE h # g
    BY <1>2, <2>2 DEF PermissionsMatchGrantees, NoDuplicates
  <2>3. QED
    BY <2>1, <2>2
<1>5. QED
  BY <1>2, <1>4 DEF TypeOK, PermissionsMatchGrantees, NoDuplicates

\* revoke_permission clears the boolean and removes the only entry of the
\* grantee in one step.
LEMMA ConsentRevoke ==
  ASSUME ConsentInv, NEW g \in Accounts, NEW e \in Accounts, RevokePermission(g, e)
  PROVE  ConsentInv'
<1> USE DEF ConsentInv
<1>1. /\ storage \in Storage
      /\ storage' = RevokeStorage(storage, g, e)
      /\ storage.grantees[g] \in Seq(Accounts)
      /\ Contains(storage.grantees[g], e)
      /\ NoDuplicates(storage.grantees[g])
  BY DEF RevokePermission, RevokeAccepted, TypeOK, Storage, PermissionsMatchGrantees,
         NoDuplicates
<1>2. /\ RemoveFirst(storage.grantees[g], e) \in Seq(Accounts)
      /\ NoDuplicates(RemoveFirst(storage.grantees[g], e))
      /\ \A x : Contains(RemoveFirst(storage.grantees[g], e), x)
                  <=> (Contains(storage.grantees[g], x) /\ x # e)
  BY <1>1, RemoveFirstLemma
<1>3. /\ storage' \in Storage
      /\ \A p \in Accounts \X Accounts :
           p # <<g, e>> => (storage'.permissions[p] <=> storage.permissions[p])
      /\ ~storage'.permissions[<<g, e>>]
      /\ \A h \in Accounts : h # g => storage'.grantees[h] = storage.grantees[h]
      /\ storage'.grantees[g] = RemoveFirst(storage.grantees[g], e)
  BY <1>1, <1>2, RevokeFields
<1>4. ASSUME NEW h \in Accounts
      PROVE  /\ \A x \in Accounts :
                  storage'.permissions[<<h, x>>] <=> Contains(storage'.grantees[h], x)
             /\ NoDuplicates(storage'.grantees[h])
  <2>1. CASE h = g
    BY <1>2, <1>3, <2>1 DEF PermissionsMatchGrantees, NoDuplicates
  <2>2. CASE h # g
    BY <1>3, <2>2 DEF PermissionsMatchGrantees, NoDuplicates
  <2>3. QED
    BY <2>1, <2>2
<1>5. QED
  BY <1>3, <1>4 DEF TypeOK, PermissionsMatchGrantees, NoDuplicates

\* Messages that leave consents alone keep the agreement.
LEMMA ConsentFrame ==
  ASSUME ConsentInv, storage' \in Storage,
         storage'.permissions = storage.permissions, storage'.grantees = storage.grantees
  PROVE  ConsentInv'
BY DEF ConsentInv, TypeOK, PermissionsMatchGrantees

\* No message breaks the agreement.
LEMMA ConsentStep == ConsentInv /\ [Next]_vars => ConsentInv'
<1> SUFFICES ASSUME ConsentInv, [Next]_vars PROVE ConsentInv'
  OBVIOUS
<1>0. storage \in Storage
  BY DEF ConsentInv, TypeOK
<1>1. ASSUME NEW a \in Accounts, NEW info \in UserInfo, NEW r \in Roles, AddUser(a, info, r)
      PROVE  ConsentInv'
  BY <1>0, <1>1, AddUserFields, ConsentFrame DEF AddUser
<1>2. ASSUME NEW a \in Accounts, NEW r \in Roles, AssignRole(a, r)
      PROVE  ConsentInv'
  BY <1>0, <1>2, AssignRoleFields, ConsentFrame DEF AssignRole
<1>3. ASSUME NEW r \in Accounts, NEW t \in Accounts, RequestAccess(r, t)
      PROVE  ConsentInv'
  BY <1>0, <1>3, RequestAccessFields, ConsentFrame DEF RequestAccess
<1>4. ASSUME NEW g \in Accounts, NEW e \in Accounts, GrantPermission(g, e)
      PROVE  ConsentInv'
  BY <1>4, ConsentGrant
<1>5. ASSUME NEW g \in Accounts, NEW e \in Accounts, RevokePermission(g, e)
      PROVE  ConsentInv'
  BY <1>5, ConsentRevoke
<1>6. CASE UNCHANGED vars
  BY <1>6 DEF vars, ConsentInv, TypeOK, PermissionsMatchGrantees
<1>7. QED
  BY <1>1, <1>2, <1>3, <1>4, <1>5, <1>6 DEF Next

\* The storage struct always has its declared shape (lib.rs:58-65).
THEOREM TypeCorrectness == Spec => []TypeOK
<1>1. Spec => []ConsentInv
  BY ConsentInit, ConsentStep, PTL DEF Spec
<1>2. ConsentInv => TypeOK
  BY DEF ConsentInv
<1>3. QED
  BY <1>1, <1>2, PTL

\* has_permission and get_granted_permissions always give the same answer, and
\* one revocation withdraws a consent whatever came before (lib.rs:159-215).
THEOREM ConsentAgreement == Spec => []PermissionsMatchGrantees
<1>1. Spec => []ConsentInv
  BY ConsentInit, ConsentStep, PTL DEF Spec
<1>2. ConsentInv => PermissionsMatchGrantees
  BY DEF ConsentInv
<1>3. QED
  BY <1>1, <1>2, PTL

-----------------------------------------------------------------------------
(* Registration *)

RegistryInv == TypeOK /\ UsersIndexed

\* An accepted add_user adds the account to the holders of one DNI, which had
\* a free slot, and loses nobody.
LEMMA AddUserHolders ==
  ASSUME NEW st \in Storage, NEW a \in Accounts, NEW info \in UserInfo, NEW r \in Roles,
         AddUserAccepted(st, info, r),
         NEW n, n = AddUserStorage(st, a, info, r)
  PROVE  /\ info.dni \in AllDnis
         /\ HoldersOf(n, info.dni) = HoldersOf(st, info.dni) \cup {a}
         /\ \A d \in AllDnis : d # info.dni => HoldersOf(n, d) = HoldersOf(st, d)
         /\ st.accounts[info.dni][FreeSlot(st, info.dni)] = None
<1> DEFINE k == FreeSlot(st, info.dni)
<1>1. info.dni \in AllDnis
  BY DEF UserInfo, AllDnis
<1>2. /\ n \in Storage
      /\ k \in Slots
      /\ n.accounts[info.dni][k] = a
      /\ \A d \in AllDnis : \A i \in Slots :
           (d # info.dni \/ i # k) => n.accounts[d][i] = st.accounts[d][i]
  BY AddUserFields
<1>3. st.accounts[info.dni][k] = None
  <2>1. PICK i \in Slots : st.accounts[info.dni][i] = None
    BY DEF AddUserAccepted
  <2>2. QED
    BY <2>1 DEF FreeSlot, Slots
<1>4. \A d \in AllDnis : d # info.dni => HoldersOf(n, d) = HoldersOf(st, d)
  BY <1>2 DEF HoldersOf
<1> HIDE DEF k
<1>5. HoldersOf(n, info.dni) = HoldersOf(st, info.dni) \cup {a}
  <2>1. ASSUME NEW x \in HoldersOf(n, info.dni)
        PROVE  x \in HoldersOf(st, info.dni) \cup {a}
    BY <1>1, <1>2 DEF HoldersOf
  <2>2. ASSUME NEW x \in HoldersOf(st, info.dni)
        PROVE  x \in HoldersOf(n, info.dni)
    BY <1>1, <1>2, <1>3 DEF HoldersOf
  <2>3. a \in HoldersOf(n, info.dni)
    BY <1>2, DistinguishedValues DEF HoldersOf
  <2>4. QED
    BY <2>1, <2>2, <2>3
<1>6. QED
  BY <1>1, <1>3, <1>4, <1>5 DEF k

\* The freshly deployed contract has no users and no bindings.
LEMMA RegistryInit == Init => UsersIndexed
BY DEF Init, EmptyStorage, UsersIndexed, RegisteredAccounts, HoldersOf

\* add_user indexes the account it registers and gives it a role, and no other
\* message removes a binding, a user or a role.
LEMMA RegistryStep == RegistryInv /\ [Next]_vars /\ TypeOK' => UsersIndexed'
<1> SUFFICES ASSUME RegistryInv, [Next]_vars, TypeOK' PROVE UsersIndexed'
  OBVIOUS
<1>0. storage \in Storage /\ storage' \in Storage /\ UsersIndexed
  BY DEF RegistryInv, TypeOK
<1>1. ASSUME NEW a \in Accounts, NEW info \in UserInfo, NEW r \in Roles, AddUser(a, info, r)
      PROVE  UsersIndexed'
  <2>1. /\ storage'.users[a] = info
        /\ storage'.roles[a] = r
        /\ \A b \in Accounts : b # a => /\ storage'.users[b] = storage.users[b]
                                        /\ storage'.roles[b] = storage.roles[b]
    BY <1>0, <1>1, AddUserFields DEF AddUser
  <2>2. /\ info.dni \in AllDnis
        /\ HoldersOf(storage', info.dni) = HoldersOf(storage, info.dni) \cup {a}
        /\ \A d \in AllDnis : d # info.dni => HoldersOf(storage', d) = HoldersOf(storage, d)
    BY <1>0, <1>1, AddUserHolders DEF AddUser
  <2>3. r # NoRole /\ info # NoUser
    BY RolesAreU8, DistinguishedValues, NoUserIsNoRecord
  <2>4. ASSUME NEW b \in Accounts, storage'.users[b] # NoUser
        PROVE  b \in HoldersOf(storage', storage'.users[b].dni)
    <3>1. CASE b = a
      BY <2>1, <2>2, <3>1
    <3>2. CASE b # a
      <4>1. storage.users[b] # NoUser /\ storage.users[b] \in UserInfo
        BY <1>0, <2>1, <2>4, <3>2 DEF Storage
      <4>2. b \in HoldersOf(storage, storage.users[b].dni) /\ storage.users[b].dni \in AllDnis
        BY <1>0, <4>1 DEF UsersIndexed, RegisteredAccounts, UserInfo, AllDnis
      <4>3. QED
        BY <2>1, <2>2, <3>2, <4>2
    <3>3. QED
      BY <3>1, <3>2
  <2>5. ASSUME NEW d \in AllDnis, NEW b \in HoldersOf(storage', d)
        PROVE  b \in Accounts /\ storage'.users[b] # NoUser /\ storage'.roles[b] # NoRole
    <3>1. b = a \/ b \in HoldersOf(storage, d)
      BY <2>2
    <3>2. CASE b = a
      BY <2>1, <2>3, <3>2
    <3>3. CASE b # a
      BY <1>0, <2>1, <3>1, <3>3 DEF UsersIndexed, RegisteredAccounts
    <3>4. QED
      BY <3>2, <3>3
  <2>6. QED
    BY <2>4, <2>5 DEF UsersIndexed, RegisteredAccounts
<1>2. ASSUME NEW a \in Accounts, NEW r \in Roles, AssignRole(a, r)
      PROVE  UsersIndexed'
  <2>1. /\ storage'.accounts = storage.accounts
        /\ storage'.users = storage.users
        /\ storage'.roles[a] = r
        /\ \A b \in Accounts : b # a => storage'.roles[b] = storage.roles[b]
    BY <1>0, <1>2, AssignRoleFields DEF AssignRole
  <2>2. r # NoRole
    BY RolesAreU8, DistinguishedValues
  <2>3. QED
    BY <1>0, <2>1, <2>2 DEF UsersIndexed, RegisteredAccounts, HoldersOf
<1>3. ASSUME storage'.accounts = storage.accounts, storage'.users = storage.users,
             storage'.roles = storage.roles
      PROVE  UsersIndexed'
  BY <1>0, <1>3 DEF UsersIndexed, RegisteredAccounts, HoldersOf
<1>4. ASSUME NEW r \in Accounts, NEW t \in Accounts, RequestAccess(r, t)
      PROVE  UsersIndexed'
  BY <1>0, <1>3, <1>4, RequestAccessFields DEF RequestAccess
<1>5. ASSUME NEW g \in Accounts, NEW e \in Accounts, GrantPermission(g, e)
      PROVE  UsersIndexed'
  BY <1>0, <1>3, <1>5 DEF GrantPermission, GrantStorage, Storage
<1>6. ASSUME NEW g \in Accounts, NEW e \in Accounts, RevokePermission(g, e)
      PROVE  UsersIndexed'
  BY <1>0, <1>3, <1>6 DEF RevokePermission, RevokeStorage, Storage
<1>7. CASE UNCHANGED vars
  BY <1>0, <1>7 DEF vars, UsersIndexed
<1>8. QED
  BY <1>1, <1>2, <1>4, <1>5, <1>6, <1>7 DEF Next

\* A registered user is always found through the DNI of its own record, and
\* whatever a DNI lists is registered and has a role (lib.rs:102-130).
THEOREM UsersAreIndexed == Spec => []UsersIndexed
<1>1. Spec => []TypeOK
  BY TypeCorrectness
<1>2. RegistryInv /\ [Next]_vars /\ TypeOK' => RegistryInv'
  BY RegistryStep DEF RegistryInv
<1>3. Init => UsersIndexed
  BY RegistryInit
<1>4. RegistryInv <=> TypeOK /\ UsersIndexed
  BY DEF RegistryInv
<1>5. QED
  BY <1>1, <1>2, <1>3, <1>4, PTL DEF Spec

-----------------------------------------------------------------------------
(* Steps *)

\* Only add_user and assign_role touch the registry.
LEMMA RegistryFrame ==
  ASSUME TypeOK, [Next]_vars,
         ~ \E a \in Accounts, info \in UserInfo, r \in Roles : AddUser(a, info, r)
  PROVE  storage'.accounts = storage.accounts /\ storage'.users = storage.users
<1>0. storage \in Storage
  BY DEF TypeOK
<1>1. ASSUME NEW a \in Accounts, NEW r \in Roles, AssignRole(a, r)
      PROVE  storage'.accounts = storage.accounts /\ storage'.users = storage.users
  BY <1>0, <1>1, AssignRoleFields DEF AssignRole
<1>2. ASSUME NEW r \in Accounts, NEW t \in Accounts, RequestAccess(r, t)
      PROVE  storage'.accounts = storage.accounts /\ storage'.users = storage.users
  BY <1>0, <1>2, RequestAccessFields DEF RequestAccess
<1>3. ASSUME NEW g \in Accounts, NEW e \in Accounts, GrantPermission(g, e)
      PROVE  storage'.accounts = storage.accounts /\ storage'.users = storage.users
  BY <1>0, <1>3 DEF GrantPermission, GrantStorage, Storage
<1>4. ASSUME NEW g \in Accounts, NEW e \in Accounts, RevokePermission(g, e)
      PROVE  storage'.accounts = storage.accounts /\ storage'.users = storage.users
  BY <1>0, <1>4 DEF RevokePermission, RevokeStorage, Storage
<1>5. CASE UNCHANGED vars
  BY <1>5 DEF vars
<1>6. QED
  BY <1>1, <1>2, <1>3, <1>4, <1>5 DEF Next

\* No message frees or overwrites a taken slot (lib.rs:118-124).
THEOREM BindingsPermanent == Spec => BindingsArePermanent
<1> DEFINE Kept == \A d \in AllDnis : \A i \in Slots :
                     storage.accounts[d][i] # None
                       => storage'.accounts[d][i] = storage.accounts[d][i]
<1>1. TypeOK /\ [Next]_vars => Kept
  <2> SUFFICES ASSUME TypeOK, [Next]_vars PROVE Kept
    OBVIOUS
  <2>1. ASSUME NEW a \in Accounts, NEW info \in UserInfo, NEW r \in Roles, AddUser(a, info, r)
        PROVE  Kept
    <3>1. storage \in Storage
      BY DEF TypeOK
    <3>2. \A d \in AllDnis : \A i \in Slots :
            (d # info.dni \/ i # FreeSlot(storage, info.dni))
              => storage'.accounts[d][i] = storage.accounts[d][i]
      BY <2>1, <3>1, AddUserFields DEF AddUser
    <3>3. storage.accounts[info.dni][FreeSlot(storage, info.dni)] = None
      BY <2>1, <3>1, AddUserHolders DEF AddUser
    <3>4. QED
      BY <3>2, <3>3
  <2>2. CASE ~ \E a \in Accounts, info \in UserInfo, r \in Roles : AddUser(a, info, r)
    BY <2>2, RegistryFrame
  <2>3. QED
    BY <2>1, <2>2
<1>2. Spec => []TypeOK
  BY TypeCorrectness
<1>3. QED
  BY <1>1, <1>2, PTL DEF Spec, BindingsArePermanent

\* A registration never makes the roles of a DNI's accounts clash unless it
\* overwrites the role of an account the DNI already had (lib.rs:109-115).
THEOREM RegistrationKeepsRolesDistinct == Spec => RolesClashOnlyByOverwriting
<1> DEFINE Blamed == \A d \in AllDnis :
              RolesDiffer(storage, d) /\ ~RolesDiffer(storage', d)
                => \E a \in HoldersOf(storage, d) : storage'.roles[a] # storage.roles[a]
<1>1. TypeOK /\ [Next]_vars => Blamed
  <2> SUFFICES ASSUME TypeOK, [Next]_vars, NEW d \in AllDnis,
                      RolesDiffer(storage, d),
                      \A a \in HoldersOf(storage, d) : storage'.roles[a] = storage.roles[a]
               PROVE  RolesDiffer(storage', d)
    OBVIOUS
  <2>0. storage \in Storage
    BY DEF TypeOK
  <2>1. ASSUME NEW a \in Accounts, NEW info \in UserInfo, NEW r \in Roles, AddUser(a, info, r)
        PROVE  RolesDiffer(storage', d)
    <3>1. storage'.roles[a] = r
      BY <2>0, <2>1, AddUserFields DEF AddUser
    <3>2. /\ HoldersOf(storage', info.dni) = HoldersOf(storage, info.dni) \cup {a}
          /\ d # info.dni => HoldersOf(storage', d) = HoldersOf(storage, d)
      BY <2>0, <2>1, AddUserHolders DEF AddUser
    <3>3. CASE d # info.dni
      BY <3>2, <3>3 DEF RolesDiffer
    <3>4. CASE d = info.dni
      <4>1. \A b \in HoldersOf(storage, d) : storage.roles[b] # r \/ storage.roles[b] = NoRole
        BY <2>1, <3>4 DEF AddUser, AddUserAccepted, RoleOrTwo
      <4>2. \A b \in HoldersOf(storage, d) : storage.roles[b] # r
        BY <4>1, RolesAreU8, DistinguishedValues
      <4>3. QED
        BY <3>1, <3>2, <3>4, <4>2 DEF RolesDiffer
    <3>5. QED
      BY <3>3, <3>4
  <2>2. CASE ~ \E a \in Accounts, info \in UserInfo, r \in Roles : AddUser(a, info, r)
    <3>1. HoldersOf(storage', d) = HoldersOf(storage, d)
      BY <2>2, RegistryFrame DEF HoldersOf
    <3>2. QED
      BY <3>1 DEF RolesDiffer
  <2>3. QED
    BY <2>1, <2>2
<1>2. Spec => []TypeOK
  BY TypeCorrectness
<1>3. QED
  BY <1>1, <1>2, PTL DEF Spec, RolesClashOnlyByOverwriting

-----------------------------------------------------------------------------
(* The contract implements the abstract ledger *)

ConsentOf(st) == {p \in Accounts \X Accounts : Contains(st.grantees[p[1]], p[2])}
IdentityOf(st) ==
  [a \in Accounts |-> IF st.users[a] = NoUser THEN NoUser ELSE st.users[a].dni]

\* Under the agreement of booleans and lists, the consents of the lists are
\* those of the booleans.
LEMMA ConsentIsPermissions ==
  ASSUME ConsentInv, NEW g \in Accounts, NEW e \in Accounts
  PROVE  <<g, e>> \in ConsentOf(storage) <=> storage.permissions[<<g, e>>]
BY DEF ConsentInv, PermissionsMatchGrantees, ConsentOf

\* A freshly deployed contract is an empty ledger.
LEMMA LedgerInit == Init => Ledger!Init
<1> SUFFICES ASSUME Init PROVE Ledger!Init
  OBVIOUS
<1>1. {p \in Accounts \X Accounts : Contains(storage.grantees[p[1]], p[2])} = {}
  BY DEF Init, EmptyStorage, Contains
<1>2. [d \in Dnis |-> HoldersOf(storage, d)] = [d \in Dnis |-> {}]
  BY DEF Init, EmptyStorage, HoldersOf, AllDnis
<1>3. IdentityOf(storage) = [a \in Accounts |-> NoUser]
  BY DEF Init, EmptyStorage, IdentityOf
<1>4. QED
  BY <1>1, <1>2, <1>3 DEF Ledger!Init, IdentityOf

\* A step that changes neither lists, bindings nor users is no step of the ledger.
LEMMA LedgerStutter ==
  ASSUME storage'.accounts = storage.accounts, storage'.users = storage.users,
         storage'.grantees = storage.grantees
  PROVE  UNCHANGED Ledger!ledger
BY DEF Ledger!ledger, HoldersOf

\* An accepted add_user is a registration of the ledger: the DNI has 8 bytes
\* and a free slot, hence at most one holder.
LEMMA LedgerRegister ==
  ASSUME ConsentInv, NEW a \in Accounts, NEW info \in UserInfo, NEW r \in Roles,
         AddUser(a, info, r)
  PROVE  Ledger!Register(a, info.dni) /\ info.dni \in Dnis
<1>0. storage \in Storage
  BY DEF ConsentInv, TypeOK
<1>1. info.dni \in Dnis
  BY DEF AddUser, AddUserAccepted, ValidInfo
<1>2. /\ storage' \in Storage
      /\ storage'.users[a] = info
      /\ \A b \in Accounts : b # a => storage'.users[b] = storage.users[b]
      /\ storage'.grantees = storage.grantees
  BY <1>0, AddUserFields DEF AddUser
<1>3. /\ HoldersOf(storage', info.dni) = HoldersOf(storage, info.dni) \cup {a}
      /\ \A d \in AllDnis : d # info.dni => HoldersOf(storage', d) = HoldersOf(storage, d)
  BY <1>0, AddUserHolders DEF AddUser
<1>4. \A x, y \in HoldersOf(storage, info.dni) : x = y
  <2>1. PICK i \in Slots : storage.accounts[info.dni][i] = None
    BY DEF AddUser, AddUserAccepted
  <2>2. QED
    BY <2>1 DEF HoldersOf, Slots
<1>5. [d \in Dnis |-> HoldersOf(storage', d)]
        = [[d \in Dnis |-> HoldersOf(storage, d)] EXCEPT
             ![info.dni] = HoldersOf(storage, info.dni) \cup {a}]
  BY <1>1, <1>3 DEF AllDnis
<1>6. IdentityOf(storage') = [IdentityOf(storage) EXCEPT ![a] = info.dni]
  BY <1>2, NoUserIsNoRecord DEF IdentityOf
<1>7. QED
  BY <1>1, <1>2, <1>4, <1>5, <1>6 DEF Ledger!Register, IdentityOf

\* An accepted grant_permission adds exactly its pair to the consents.
LEMMA LedgerGrant ==
  ASSUME ConsentInv, ConsentInv', NEW g \in Accounts, NEW e \in Accounts,
         GrantPermission(g, e)
  PROVE  Ledger!Grant(g, e)
<1>0. storage \in Storage /\ storage' = GrantStorage(storage, g, e)
  BY DEF ConsentInv, TypeOK, GrantPermission
<1>1. /\ \A p \in Accounts \X Accounts :
           p # <<g, e>> => (storage'.permissions[p] <=> storage.permissions[p])
      /\ storage'.permissions[<<g, e>>]
      /\ storage'.accounts = storage.accounts
      /\ storage'.users = storage.users
  BY <1>0, GrantFields
<1>2. ~storage.permissions[<<g, e>>]
  BY DEF GrantPermission, GrantAccepted
<1>3. \A p \in Accounts \X Accounts :
        /\ p \in ConsentOf(storage) <=> storage.permissions[p]
        /\ p \in ConsentOf(storage') <=> storage'.permissions[p]
  BY DEF ConsentInv, PermissionsMatchGrantees, ConsentOf
<1>4. ConsentOf(storage') = ConsentOf(storage) \cup {<<g, e>>}
  <2>1. ConsentOf(storage') \subseteq Accounts \X Accounts
        /\ ConsentOf(storage) \subseteq Accounts \X Accounts
    BY DEF ConsentOf
  <2>2. QED
    BY <1>1, <1>3, <2>1
<1>5. <<g, e>> \notin ConsentOf(storage)
  BY <1>2, <1>3
<1>6. QED
  BY <1>1, <1>4, <1>5 DEF Ledger!Grant, ConsentOf, HoldersOf

\* An accepted revoke_permission withdraws exactly its pair.
LEMMA LedgerRevoke ==
  ASSUME ConsentInv, ConsentInv', NEW g \in Accounts, NEW e \in Accounts,
         RevokePermission(g, e)
  PROVE  Ledger!Revoke(g, e)
<1>0. storage \in Storage /\ storage' = RevokeStorage(storage, g, e)
  BY DEF ConsentInv, TypeOK, RevokePermission
<1>1. storage.permissions[<<g, e>>]
  BY DEF RevokePermission, RevokeAccepted
<1>2. RemoveFirst(storage.grantees[g], e) \in Seq(Accounts)
  BY <1>0, <1>1, RemoveFirstLemma DEF ConsentInv, PermissionsMatchGrantees, NoDuplicates, Storage
<1>3. /\ \A p \in Accounts \X Accounts :
           p # <<g, e>> => (storage'.permissions[p] <=> storage.permissions[p])
      /\ ~storage'.permissions[<<g, e>>]
      /\ storage'.accounts = storage.accounts
      /\ storage'.users = storage.users
  BY <1>0, <1>2, RevokeFields
<1>4. \A p \in Accounts \X Accounts :
        /\ p \in ConsentOf(storage) <=> storage.permissions[p]
        /\ p \in ConsentOf(storage') <=> storage'.permissions[p]
  BY DEF ConsentInv, PermissionsMatchGrantees, ConsentOf
<1>5. ConsentOf(storage') = ConsentOf(storage) \ {<<g, e>>}
  <2>1. ConsentOf(storage') \subseteq Accounts \X Accounts
        /\ ConsentOf(storage) \subseteq Accounts \X Accounts
    BY DEF ConsentOf
  <2>2. QED
    BY <1>3, <1>4, <2>1
<1>6. <<g, e>> \in ConsentOf(storage)
  BY <1>1, <1>4
<1>7. QED
  BY <1>3, <1>5, <1>6 DEF Ledger!Revoke, ConsentOf, HoldersOf

\* The contract implements the ledger of identities and consents: its booleans,
\* lists and slots behave as one set of consents and one set of holders per DNI.
THEOREM LedgerRefinement == Spec => ImplementsLedger
<1>1. Spec => []ConsentInv
  BY ConsentInit, ConsentStep, PTL DEF Spec
<1>2. Init => Ledger!Init
  BY LedgerInit
<1>3. ConsentInv /\ ConsentInv' /\ [Next]_vars => [Ledger!Next]_(Ledger!ledger)
  <2> SUFFICES ASSUME ConsentInv, ConsentInv', [Next]_vars
               PROVE  [Ledger!Next]_(Ledger!ledger)
    OBVIOUS
  <2>0. storage \in Storage
    BY DEF ConsentInv, TypeOK
  <2>1. ASSUME NEW a \in Accounts, NEW info \in UserInfo, NEW r \in Roles, AddUser(a, info, r)
        PROVE  Ledger!Next
    BY <2>1, LedgerRegister DEF Ledger!Next
  <2>2. ASSUME NEW a \in Accounts, NEW r \in Roles, AssignRole(a, r)
        PROVE  UNCHANGED Ledger!ledger
    BY <2>0, <2>2, AssignRoleFields, LedgerStutter DEF AssignRole
  <2>3. ASSUME NEW r \in Accounts, NEW t \in Accounts, RequestAccess(r, t)
        PROVE  UNCHANGED Ledger!ledger
    BY <2>0, <2>3, RequestAccessFields, LedgerStutter DEF RequestAccess
  <2>4. ASSUME NEW g \in Accounts, NEW e \in Accounts, GrantPermission(g, e)
        PROVE  Ledger!Next
    BY <2>4, LedgerGrant DEF Ledger!Next
  <2>5. ASSUME NEW g \in Accounts, NEW e \in Accounts, RevokePermission(g, e)
        PROVE  Ledger!Next
    BY <2>5, LedgerRevoke DEF Ledger!Next
  <2>6. CASE UNCHANGED vars
    BY <2>6, LedgerStutter DEF vars
  <2>7. QED
    BY <2>1, <2>2, <2>3, <2>4, <2>5, <2>6 DEF Next
<1>4. QED
  BY <1>1, <1>2, <1>3, PTL DEF Spec, ImplementsLedger, Ledger!Spec
=============================================================================
